------------------------- MODULE QueryEngineProofs -------------------------
(***************************************************************************)
(* Proofs about QueryEngine, for any number of jobs on the connection.     *)
(***************************************************************************)
EXTENDS QueryEngine, TLAPS

-----------------------------------------------------------------------------
(* Queues without repetition.                                              *)

In(x, s) == \E i \in 1 .. Len(s) : s[i] = x

Distinct(s) == \A i, k \in 1 .. Len(s) : s[i] = s[k] => i = k

\* Appending a newcomer.
LEMMA AppendIn ==
  ASSUME NEW S, NEW s \in Seq(S), NEW x \in S
  PROVE  /\ Append(s, x) \in Seq(S)
         /\ \A y \in S : In(y, Append(s, x)) <=> In(y, s) \/ y = x
         /\ Distinct(s) /\ ~In(x, s) => Distinct(Append(s, x))
<1>1. /\ Append(s, x) \in Seq(S) /\ Len(s) \in Nat /\ Len(Append(s, x)) = Len(s) + 1
      /\ \A i \in 1 .. Len(s) : Append(s, x)[i] = s[i]
      /\ Append(s, x)[Len(s) + 1] = x
  OBVIOUS
<1>2. ASSUME NEW y \in S
      PROVE  In(y, Append(s, x)) <=> In(y, s) \/ y = x
  <2>1. \A i \in 1 .. Len(s) + 1 : i \in 1 .. Len(s) \/ i = Len(s) + 1
    BY <1>1
  <2>2. 1 .. Len(s) \subseteq 1 .. Len(s) + 1 /\ Len(s) + 1 \in 1 .. Len(s) + 1
    BY <1>1
  <2>3. QED
    BY <1>1, <2>1, <2>2 DEF In
<1>3. ASSUME Distinct(s), ~In(x, s)
      PROVE  Distinct(Append(s, x))
  BY <1>1, <1>3 DEF Distinct, In
<1>4. QED
  BY <1>1, <1>2, <1>3

\* Taking the first.
LEMMA TailIn ==
  ASSUME NEW S, NEW s \in Seq(S), s # <<>>, Distinct(s)
  PROVE  /\ Tail(s) \in Seq(S) /\ Distinct(Tail(s))
         /\ Head(s) \in S /\ In(Head(s), s)
         /\ \A y \in S : In(y, Tail(s)) <=> In(y, s) /\ y # Head(s)
<1>1. /\ Len(s) \in Nat \ {0} /\ Tail(s) \in Seq(S) /\ Len(Tail(s)) = Len(s) - 1
      /\ \A i \in 1 .. Len(s) - 1 : Tail(s)[i] = s[i + 1]
      /\ Head(s) = s[1] /\ s[1] \in S
  OBVIOUS
<1>2. Distinct(Tail(s))
  <2>1. SUFFICES ASSUME NEW i \in 1 .. Len(s) - 1, NEW k \in 1 .. Len(s) - 1,
                        Tail(s)[i] = Tail(s)[k]
                 PROVE  i = k
    BY <1>1 DEF Distinct
  <2>2. i + 1 \in 1 .. Len(s) /\ k + 1 \in 1 .. Len(s) /\ s[i + 1] = s[k + 1]
    BY <1>1, <2>1
  <2>3. i + 1 = k + 1
    BY <2>2 DEF Distinct
  <2>4. QED
    BY <2>3
<1>3. ASSUME NEW y \in S
      PROVE  In(y, Tail(s)) <=> In(y, s) /\ y # Head(s)
  <2>1. ASSUME NEW i \in 1 .. Len(s) - 1, Tail(s)[i] = y
        PROVE  In(y, s) /\ y # Head(s)
    <3>1. i + 1 \in 1 .. Len(s) /\ 1 \in 1 .. Len(s) /\ s[i + 1] = y
      BY <1>1, <2>1
    <3>2. s[i + 1] # s[1]
      BY <3>1 DEF Distinct
    <3>3. QED
      BY <1>1, <3>1, <3>2 DEF In
  <2>2. ASSUME NEW i \in 1 .. Len(s), s[i] = y, y # Head(s)
        PROVE  In(y, Tail(s))
    <3>1. i # 1
      BY <1>1, <2>2
    <3>2. i - 1 \in 1 .. Len(s) - 1 /\ (i - 1) + 1 = i
      BY <1>1, <3>1
    <3>3. Tail(s)[i - 1] = y
      BY <1>1, <2>2, <3>2
    <3>4. QED
      BY <1>1, <3>2, <3>3 DEF In
  <2>3. QED
    BY <1>1, <2>1, <2>2 DEF In
<1>4. In(Head(s), s)
  BY <1>1 DEF In
<1>5. QED
  BY <1>1, <1>2, <1>3, <1>4

-----------------------------------------------------------------------------
(* Type correctness.  It needs the discipline of the queues: a job that    *)
(* waits is in one of them at most once, with its answer in the second; a  *)
(* text that is not yet through is at a statement it has.                  *)

Waits(j) ==
  /\ In(j, queue) => Running(j) /\ answer[j] = None
  /\ In(j, replies) => Running(j) /\ answer[j] # None
  /\ answer[j] # None => Running(j)

Halfway(j) == at[j] # 0 => pc[j] = "query" /\ answer[j] = None /\ at[j] < Len(TextOf(j))

TypeInv ==
  /\ TypeOK
  /\ Distinct(queue) /\ Distinct(replies)
  /\ \A j \in Job : Waits(j)
  /\ \A j \in Job : Running(j) => use[j] # None
  /\ \A j \in Job : Halfway(j)

LEMMA InitTypeInv == Init => TypeInv
<1> SUFFICES ASSUME Init PROVE TypeInv
  OBVIOUS
<1>1. \A j \in Job : ~Running(j) /\ ~In(j, queue) /\ ~In(j, replies) /\ answer[j] = None
  BY DEF Init, Running, In
<1>2. TypeOK
  <2>1. \A i, k \in 1 .. Len(queue) : queue[i] = queue[k] => i = k
    BY DEF Init
  <2>2. queue \in Seq(Job) /\ replies \in Seq(Job)
    BY DEF Init
  <2>3. QED
    BY <2>1, <2>2 DEF Init, TypeOK
<1>3. Distinct(queue) /\ Distinct(replies)
  BY DEF Init, Distinct
<1>4. \A j \in Job : Halfway(j)
  BY DEF Init, Halfway
<1>5. QED
  BY <1>1, <1>2, <1>3, <1>4 DEF TypeInv, Waits

\* TypeOK says of the queue that it is Distinct.
LEMMA DistinctQueue ==
  Distinct(queue) <=> \A i, k \in 1 .. Len(queue) : queue[i] = queue[k] => i = k
  BY DEF Distinct

\* A job that is not yet started waits in no queue.
LEMMA NotStarted ==
  ASSUME TypeInv, NEW j \in Job, use[j] = None
  PROVE  ~Running(j) /\ ~In(j, queue) /\ ~In(j, replies) /\ answer[j] = None /\ at[j] = 0
  BY DEF TypeInv, Waits, Halfway, Running

\* A text has statements.
LEMMA TextType ==
  ASSUME TypeInv, NEW j \in Job, use[j] # None
  PROVE  /\ TextOf(j) \in Seq(StatementKind) /\ Len(TextOf(j)) \in Nat \ {0}
         /\ at[j] + 1 \in 1 .. Len(TextOf(j))
         /\ TextOf(j)[at[j] + 1] \in StatementKind
<1>1. ReadText \in Seq(StatementKind) \ {<<>>}
  BY DEF ReadText, StatementKind
<1>2. use[j].sql \in Seq(StatementKind) \ {<<>>}
  BY <1>1, QueryEngineAssumption DEF TypeInv, TypeOK, Text
<1>3. TextOf(j) \in Seq(StatementKind) \ {<<>>}
  BY <1>1, <1>2 DEF TextOf
<1>4. Len(TextOf(j)) \in Nat \ {0}
  BY <1>3
<1>5. at[j] \in Nat /\ at[j] < Len(TextOf(j))
  BY <1>4 DEF TypeInv, TypeOK, Halfway
<1>6. at[j] + 1 \in 1 .. Len(TextOf(j))
  BY <1>4, <1>5
<1>7. QED
  BY <1>3, <1>4, <1>6

\* The jobs other than j, and their places in the queues, are as before.
Others(j) ==
  \A i \in Job \ {j} : /\ pc'[i] = pc[i] /\ answer'[i] = answer[i] /\ use'[i] = use[i]
                       /\ In(i, queue') <=> In(i, queue)
                       /\ In(i, replies') <=> In(i, replies)

\* A statement posted for j, which waits in no queue.
LEMMA PostQueue ==
  ASSUME TypeInv, NEW j \in Job, NEW s \in {"begin", "query", "rollback"}, Post(j, s),
         ~In(j, queue)
  PROVE  /\ pc' \in [Job -> {"idle", "begin", "query", "rollback", "done"}]
         /\ pc'[j] = s /\ \A i \in Job \ {j} : pc'[i] = pc[i]
         /\ queue' \in Seq(Job) /\ Distinct(queue')
         /\ \A i \in Job : In(i, queue') <=> In(i, queue) \/ i = j
<1>1. queue \in Seq(Job) /\ Distinct(queue) /\ queue' = Append(queue, j)
  BY DEF TypeInv, TypeOK, Post
<1>2. /\ queue' \in Seq(Job) /\ Distinct(queue')
      /\ \A i \in Job : In(i, queue') <=> In(i, queue) \/ i = j
  BY <1>1, AppendIn
<1>3. QED
  BY <1>2 DEF TypeInv, TypeOK, Post

\* The job that the worker is at.
LEMMA AtHead ==
  ASSUME TypeInv, NEW j \in Job, queue # <<>>, j = Head(queue)
  PROVE  /\ In(j, queue) /\ Running(j) /\ use[j] # None
         /\ answer[j] = None /\ ~In(j, replies)
<1>1. queue \in Seq(Job) /\ Distinct(queue)
  BY DEF TypeInv, TypeOK
<1>2. In(j, queue)
  BY <1>1, TailIn
<1>3. QED
  BY <1>2 DEF TypeInv, Waits

\* The worker's answer to j.
LEMMA AnswersQueue ==
  ASSUME TypeInv, NEW j \in Job, NEW a \in {"rows", "error"}, Answers(j, a)
  PROVE  /\ answer' \in [Job -> {"rows", "error", None}]
         /\ answer[j] = None /\ answer'[j] = a /\ a # None /\ Running(j)
         /\ queue' \in Seq(Job) /\ Distinct(queue')
         /\ replies' \in Seq(Job) /\ Distinct(replies')
         /\ ~In(j, queue') /\ In(j, replies')
         /\ Others(j)
         /\ at' = [at EXCEPT ![j] = 0]
         /\ UNCHANGED <<page, caller, pc, result>>
<1>1. /\ queue \in Seq(Job) /\ Distinct(queue) /\ queue # <<>>
      /\ replies \in Seq(Job) /\ Distinct(replies)
      /\ j = Head(queue) /\ queue' = Tail(queue) /\ replies' = Append(replies, j)
      /\ answer \in [Job -> {"rows", "error", None}]
      /\ answer' = [answer EXCEPT ![j] = a]
      /\ at' = [at EXCEPT ![j] = 0]
      /\ UNCHANGED <<page, caller, pc, result>>
  BY DEF TypeInv, TypeOK, Answers
<1>2. /\ queue' \in Seq(Job) /\ Distinct(queue')
      /\ \A i \in Job : In(i, queue') <=> In(i, queue) /\ i # j
  BY <1>1, TailIn
<1>3. Running(j) /\ answer[j] = None /\ ~In(j, replies)
  BY <1>1, AtHead
<1>4. /\ replies' \in Seq(Job) /\ Distinct(replies')
      /\ \A i \in Job : In(i, replies') <=> In(i, replies) \/ i = j
  BY <1>1, <1>3, AppendIn
<1>5. a # None
  BY QueryEngineAssumption
<1>6. QED
  BY <1>1, <1>2, <1>3, <1>4, <1>5 DEF Others, caller

\* What a step of the worker does about its statement.
Moves(j) ==
  \/ \E a \in {"rows", "error"} : Answers(j, a)
  \/ GoesOn(j) /\ ~Last(j)

LEMMA WorkerMoves ==
  ASSUME TypeInv, NEW j \in Job, WorkerStep(j)
  PROVE  /\ Moves(j)
         /\ Running(j) /\ use[j] # None /\ answer[j] = None
         /\ pc[j] # "query" => answer'[j] # None
         /\ \A i \in Job \ {j} : answer'[i] = answer[i]
         /\ UNCHANGED <<boot, conn, use, part, outcome, mounted, overlapped, pc, result>>
<1>1. Moves(j)
  BY DEF WorkerStep, Begins, Reads, Writes, Rejects, Commits, RollsBack, Succeeds, Fails, Moves
<1>2. ASSUME NEW a \in {"rows", "error"}, Answers(j, a)
      PROVE  /\ Running(j) /\ use[j] # None /\ answer[j] = None /\ answer'[j] # None
             /\ \A i \in Job \ {j} : answer'[i] = answer[i]
             /\ UNCHANGED <<boot, conn, use, part, outcome, mounted, overlapped, pc, result>>
  BY <1>2, AnswersQueue DEF TypeInv, Others, caller, page
<1>3. ASSUME GoesOn(j), ~Last(j)
      PROVE  /\ Running(j) /\ use[j] # None /\ answer[j] = None /\ pc[j] = "query"
             /\ \A i \in Job \ {j} : answer'[i] = answer[i]
             /\ UNCHANGED <<boot, conn, use, part, outcome, mounted, overlapped, pc, result>>
  BY <1>3, AtHead DEF GoesOn, Last, caller, page
<1>4. QED
  BY <1>1, <1>2, <1>3 DEF Moves

\* The page's taking of j's answer.
LEMMA TakesQueue ==
  ASSUME TypeInv, NEW j \in Job, Takes(j)
  PROVE  /\ answer[j] \in {"rows", "error"} /\ Running(j) /\ use[j] # None
         /\ answer' \in [Job -> {"rows", "error", None}]
         /\ answer'[j] = None /\ \A i \in Job \ {j} : answer'[i] = answer[i]
         /\ replies' \in Seq(Job) /\ Distinct(replies')
         /\ ~In(j, queue)
         /\ \A i \in Job : In(i, replies') <=> In(i, replies) /\ i # j
<1>1. /\ replies \in Seq(Job) /\ Distinct(replies) /\ replies # <<>>
      /\ j = Head(replies) /\ replies' = Tail(replies)
      /\ answer \in [Job -> {"rows", "error", None}]
      /\ answer' = [answer EXCEPT ![j] = None]
  BY DEF TypeInv, TypeOK, Takes
<1>2. /\ replies' \in Seq(Job) /\ Distinct(replies') /\ In(j, replies)
      /\ \A i \in Job : In(i, replies') <=> In(i, replies) /\ i # j
  BY <1>1, TailIn
<1>3. Running(j) /\ answer[j] # None /\ ~In(j, queue) /\ use[j] # None
  BY <1>2 DEF TypeInv, Waits
<1>4. QED
  BY <1>1, <1>2, <1>3

\* A step that moves j's places alone keeps the discipline of the others.
LEMMA OthersWait ==
  ASSUME TypeInv, NEW j \in Job, Others(j),
         Waits(j)', Running(j)' => use'[j] # None
  PROVE  (\A i \in Job : Waits(i) /\ (Running(i) => use[i] # None))'
<1>1. ASSUME NEW i \in Job, i # j
      PROVE  (Waits(i) /\ (Running(i) => use[i] # None))'
  BY <1>1 DEF TypeInv, Others, Waits, Running
<1>2. QED
  BY <1>1

\* Worker steps.
LEMMA WorkerTypeInv ==
  ASSUME TypeInv, NEW j \in Job, WorkerStep(j)
  PROVE  TypeInv'
<1>1. txn' \in Transaction \cup {None}
  <2> USE DEF TypeInv, TypeOK
  <2>0. MayAbort => txn' \in Transaction \cup {None}
    BY DEF MayAbort, Transaction
  <2>1. CASE Begins(j)
    <3>1. [owner |-> j, writes |-> {}, aborted |-> FALSE] \in Transaction
      BY DEF Transaction
    <3>2. QED
      BY <2>0, <2>1, <3>1 DEF Begins
  <2>2. CASE Reads(j) \/ Rejects(j)
    BY <2>0, <2>2 DEF Reads, Rejects
  <2>3. CASE Writes(j)
    <3>1. ASSUME txn # None, txn' = [txn EXCEPT !.writes = @ \cup {j}]
          PROVE  txn' \in Transaction
      BY <3>1 DEF Transaction
    <3>2. QED
      BY <2>0, <2>3, <3>1 DEF Writes
  <2>4. CASE Commits(j) \/ RollsBack(j)
    BY <2>4 DEF Commits, RollsBack
  <2>5. QED
    BY <2>1, <2>2, <2>3, <2>4 DEF WorkerStep
<1>2. persisted' \subseteq Job /\ saw' \in [Job -> SUBSET Job]
  <2>1. Uncommitted \subseteq Job /\ persisted \subseteq Job /\ saw \in [Job -> SUBSET Job]
    BY DEF TypeInv, TypeOK, Transaction, Uncommitted
  <2>2. CASE Begins(j) \/ Rejects(j) \/ RollsBack(j)
    BY <2>1, <2>2 DEF Begins, Rejects, RollsBack
  <2>3. CASE Reads(j)
    BY <2>1, <2>3 DEF Reads
  <2>4. CASE Writes(j)
    BY <2>1, <2>4 DEF Writes
  <2>5. CASE Commits(j)
    BY <2>1, <2>5 DEF Commits
  <2>6. QED
    BY <2>2, <2>3, <2>4, <2>5 DEF WorkerStep
<1>3. /\ Moves(j) /\ Running(j) /\ use[j] # None /\ answer[j] = None
      /\ UNCHANGED <<boot, conn, use, part, outcome, mounted, overlapped, pc, result>>
  BY WorkerMoves
<1>4. ASSUME NEW a \in {"rows", "error"}, Answers(j, a)
      PROVE  TypeInv'
  <2>1. /\ answer' \in [Job -> {"rows", "error", None}]
        /\ queue' \in Seq(Job) /\ Distinct(queue')
        /\ replies' \in Seq(Job) /\ Distinct(replies')
        /\ Others(j)
        /\ answer'[j] # None /\ ~In(j, queue')
        /\ at' = [at EXCEPT ![j] = 0]
    BY <1>4, AnswersQueue
  <2>2. TypeOK'
    BY <1>1, <1>2, <1>3, <2>1 DEF TypeInv, TypeOK, Distinct
  <2>3. Waits(j)' /\ (Running(j) => use[j] # None)'
    BY <1>3, <2>1 DEF TypeInv, Waits, Running
  <2>4. \A i \in Job : Halfway(i)'
    BY <1>3, <2>1 DEF TypeInv, TypeOK, Halfway, TextOf, Others
  <2>5. QED
    BY <2>1, <2>2, <2>3, <2>4, OthersWait DEF TypeInv
<1>5. ASSUME GoesOn(j), ~Last(j)
      PROVE  TypeInv'
  <2>1. /\ UNCHANGED <<answer, queue, replies>>
        /\ at' = [at EXCEPT ![j] = @ + 1] /\ at \in [Job -> Nat]
        /\ pc[j] = "query" /\ at[j] + 1 # Len(TextOf(j))
    BY <1>5 DEF GoesOn, Last, TypeInv, TypeOK
  <2>2. Halfway(j)'
    <3>1. at[j] + 1 \in 1 .. Len(TextOf(j)) /\ Len(TextOf(j)) \in Nat
      BY <1>3, TextType
    <3>2. at'[j] < Len(TextOf(j))
      BY <2>1, <3>1
    <3>3. QED
      BY <1>3, <2>1, <3>2 DEF Halfway, TextOf
  <2>3. \A i \in Job \ {j} : Halfway(i)'
    BY <1>3, <2>1 DEF TypeInv, Halfway, TextOf
  <2>4. TypeOK'
    BY <1>1, <1>2, <1>3, <2>1 DEF TypeInv, TypeOK
  <2>5. \A i \in Job : (Waits(i) /\ (Running(i) => use[i] # None))'
    BY <1>3, <2>1 DEF TypeInv, Waits, Running
  <2>6. QED
    BY <2>1, <2>2, <2>3, <2>4, <2>5 DEF TypeInv, Distinct
<1>6. QED
  BY <1>3, <1>4, <1>5 DEF Moves

\* The page's steps.
LEMMA PageTypeInv ==
  ASSUME TypeInv, NEW j \in Job, PageStep(j)
  PROVE  TypeInv'
<1>1. Takes(j) /\ UNCHANGED <<page, engine, use, mounted, overlapped, at>>
  BY DEF PageStep, BeginAnswered, QueryAnswered, RollbackAnswered, caller
<1>2. /\ answer[j] \in {"rows", "error"} /\ Running(j) /\ use[j] # None
      /\ answer' \in [Job -> {"rows", "error", None}]
      /\ answer'[j] = None /\ \A i \in Job \ {j} : answer'[i] = answer[i]
      /\ replies' \in Seq(Job) /\ Distinct(replies')
      /\ ~In(j, queue)
      /\ \A i \in Job : In(i, replies') <=> In(i, replies) /\ i # j
  BY <1>1, TakesQueue
<1>3. /\ part' \in [Job -> {"golden", "own"}]
      /\ result' \in [Job -> {"rows", "error", None}]
      /\ saw' \in [Job -> SUBSET Job]
      /\ outcome' \in [Job -> {"rows", "error", "timeout", None}]
  <2> USE DEF TypeInv, TypeOK
  <2>1. ASSUME NEW r \in {"rows", "error", None}, Settle(j, r)
        PROVE  outcome' \in [Job -> {"rows", "error", "timeout", None}]
    BY <2>1 DEF Settle
  <2>2. CASE BeginAnswered(j)
    BY <2>1, <2>2 DEF BeginAnswered
  <2>3. CASE QueryAnswered(j)
    BY <1>2, <2>3 DEF QueryAnswered, caller
  <2>4. CASE RollbackAnswered(j)
    <3>1. result[j] \in {"rows", "error", None}
      OBVIOUS
    <3>2. QED
      BY <2>1, <2>4, <3>1 DEF RollbackAnswered
  <2>5. QED
    BY <2>2, <2>3, <2>4 DEF PageStep
<1>4. \/ \E s \in {"begin", "query", "rollback"} : Post(j, s)
      \/ pc' = [pc EXCEPT ![j] = "done"] /\ queue' = queue
  BY DEF PageStep, BeginAnswered, QueryAnswered, RollbackAnswered, Settle
<1>5. /\ pc' \in [Job -> {"idle", "begin", "query", "rollback", "done"}]
      /\ queue' \in Seq(Job) /\ Distinct(queue')
      /\ \A i \in Job \ {j} : pc'[i] = pc[i] /\ (In(i, queue') <=> In(i, queue))
      /\ In(j, queue') => Running(j)'
  <2>1. CASE \E s \in {"begin", "query", "rollback"} : Post(j, s)
    BY <1>2, <2>1, PostQueue DEF Running
  <2>2. CASE pc' = [pc EXCEPT ![j] = "done"] /\ queue' = queue
    BY <1>2, <2>2 DEF TypeInv, TypeOK
  <2>3. QED
    BY <1>4, <2>1, <2>2
<1>6. TypeOK'
  BY <1>1, <1>2, <1>3, <1>5 DEF TypeInv, TypeOK, page, engine, Distinct
<1>7. Waits(j)' /\ (Running(j) => use[j] # None)'
  BY <1>1, <1>2, <1>5 DEF Waits, Running
<1>8. Others(j)
  BY <1>1, <1>2, <1>5 DEF Others
<1>9. \A i \in Job : Halfway(i)'
  <2>1. at[j] = 0
    BY <1>2, QueryEngineAssumption DEF TypeInv, Halfway
  <2>2. \A i \in Job \ {j} : part'[i] = part[i]
    BY DEF PageStep, BeginAnswered, QueryAnswered, RollbackAnswered, caller, TypeInv, TypeOK
  <2>3. QED
    BY <1>1, <1>2, <1>5, <2>1, <2>2 DEF TypeInv, Halfway, TextOf
<1>10. QED
  BY <1>2, <1>5, <1>6, <1>7, <1>8, <1>9, OthersWait DEF TypeInv

\* Starting a job.
LEMMA StartTypeInv ==
  ASSUME TypeInv, NEW j \in Job,
         Sample(j) \/ (\E sql \in Sql : Submit(j, sql) \/ Run(j, sql))
  PROVE  TypeInv'
<1>1. PICK kind \in {"submit", "run", "sample"}, text \in Text : Start(j, kind, text)
  BY QueryEngineAssumption DEF Submit, Run, Sample, Text
<1>2. /\ use[j] = None /\ UNCHANGED <<page, engine, at, answer, result, saw, replies>>
      /\ \A i \in Job \ {j} : part'[i] = part[i]
      /\ use' = [use EXCEPT ![j] = [kind |-> kind, sql |-> text]]
      /\ part' \in [Job -> {"golden", "own"}]
      /\ overlapped' \in BOOLEAN
  BY <1>1 DEF Start, TypeInv, TypeOK
<1>3. use' \in [Job -> [kind : {"submit", "run", "sample"}, sql : Text] \cup {None}]
      /\ use'[j] # None /\ \A i \in Job \ {j} : use'[i] = use[i]
  BY <1>2, QueryEngineAssumption DEF TypeInv, TypeOK
<1>4. /\ mounted' \subseteq Job
      /\ outcome' \in [Job -> {"rows", "error", "timeout", None}]
  BY DEF Submit, Run, Sample, TypeInv, TypeOK
<1>5. Post(j, "begin") \/ UNCHANGED <<pc, queue>>
  BY DEF Submit, Run, Sample
<1>6. ~Running(j) /\ ~In(j, queue) /\ ~In(j, replies) /\ answer[j] = None /\ at[j] = 0
  BY <1>2, NotStarted
<1>7. /\ pc' \in [Job -> {"idle", "begin", "query", "rollback", "done"}]
      /\ queue' \in Seq(Job) /\ Distinct(queue')
      /\ \A i \in Job \ {j} : pc'[i] = pc[i] /\ (In(i, queue') <=> In(i, queue))
      /\ In(j, queue') => Running(j)'
  <2>1. CASE Post(j, "begin")
    BY <1>6, <2>1, PostQueue DEF Running
  <2>2. CASE UNCHANGED <<pc, queue>>
    BY <1>6, <2>2 DEF TypeInv, TypeOK
  <2>3. QED
    BY <1>5, <2>1, <2>2
<1>8. TypeOK'
  BY <1>2, <1>3, <1>4, <1>7 DEF TypeInv, TypeOK, page, engine, Distinct
<1>9. Waits(j)' /\ (Running(j)' => use'[j] # None)
  <2>1. ~In(j, replies)'
    BY <1>2, <1>6
  <2>2. answer'[j] = None
    BY <1>2, <1>6
  <2>3. QED
    BY <1>3, <1>7, <2>1, <2>2 DEF Waits
<1>10. Others(j)
  BY <1>2, <1>3, <1>7 DEF Others
<1>11. \A i \in Job : Halfway(i)'
  BY <1>2, <1>3, <1>6, <1>7 DEF TypeInv, Halfway, TextOf
<1>12. QED
  BY <1>2, <1>7, <1>8, <1>9, <1>10, <1>11, OthersWait DEF TypeInv

\* Steps that concern no statement.
LEMMA AsideTypeInv ==
  ASSUME TypeInv,
         Connect \/ LoadDatabase \/ BootFails \/ Remount \/ (\E j \in Job : Timeout(j))
           \/ UNCHANGED vars
  PROVE  TypeInv' /\ UNCHANGED <<use, part, overlapped, engine, pc, answer, saw, queue, replies>>
<1>1. UNCHANGED <<use, part, overlapped, engine, pc, at, answer, result, saw, queue, replies>>
  BY DEF Connect, LoadDatabase, BootFails, Remount, Timeout, vars, caller, engine
<1>2. /\ boot' \in {"starting", "loading", "ready", "broken"} /\ conn' \in BOOLEAN
      /\ outcome' \in [Job -> {"rows", "error", "timeout", None}]
      /\ mounted' \subseteq Job
  BY DEF Connect, LoadDatabase, BootFails, Remount, Timeout, vars, caller, page,
         TypeInv, TypeOK
<1>3. TypeOK'
  BY <1>1, <1>2 DEF TypeInv, TypeOK, engine
<1>4. QED
  BY <1>1, <1>3 DEF TypeInv, Waits, Running, Halfway, TextOf

LEMMA NextTypeInv == TypeInv /\ [Next]_vars => TypeInv'
  BY WorkerTypeInv, PageTypeInv, StartTypeInv, AsideTypeInv DEF Next

\* Type correctness: jobs, answers, queues and the transaction hold what their
\* declarations say, and a job has at most one statement posted.
THEOREM TypeCorrect == Spec => []TypeOK
<1>1. Init => TypeInv
  BY InitTypeInv
<1>2. TypeInv /\ [Next]_vars => TypeInv'
  BY NextTypeInv
<1>3. TypeInv => TypeOK
  BY DEF TypeInv
<1>4. QED
  BY <1>1, <1>2, <1>3, PTL DEF Spec

-----------------------------------------------------------------------------
(* The transaction protects the dataset.  The open transaction belongs to  *)
(* the one job that is between the answers to its BEGIN and its ROLLBACK.  *)

InTxn(j) ==
  \/ pc[j] = "begin" /\ answer[j] = "rows"
  \/ pc[j] = "query"
  \/ pc[j] = "rollback" /\ answer[j] = None

Owns(j) == txn # None /\ txn.owner = j

Tame == NoneEnds \/ ~overlapped

JobSafe(j) ==
  /\ \A i \in Job : Running(i) /\ Running(j) /\ ~overlapped => i = j
  /\ Tame /\ InTxn(j) /\ ~EndsTxn(j) => Owns(j)
  /\ Tame => saw[j] \subseteq {j} \cup persisted

TxnSafe ==
  Tame /\ txn # None => InTxn(txn.owner) /\ txn.writes \subseteq {txn.owner}

DataSafe == Tame => \A i \in persisted : use[i] # None /\ EndsTxn(i)

SafeInv ==
  /\ TypeInv
  /\ \A j \in Job : JobSafe(j)
  /\ TxnSafe
  /\ DataSafe

LEMMA InitSafeInv == Init => SafeInv
<1> SUFFICES ASSUME Init PROVE SafeInv
  OBVIOUS
<1>1. \A j \in Job : ~Running(j) /\ ~InTxn(j) /\ saw[j] = {}
  BY DEF Init, Running, InTxn
<1>2. QED
  BY <1>1, InitTypeInv DEF Init, SafeInv, JobSafe, TxnSafe, DataSafe

\* A job in a transaction is running, so it has been started.
LEMMA InTxnRuns ==
  ASSUME TypeInv, NEW j \in Job, InTxn(j)
  PROVE  Running(j) /\ use[j] # None
  BY DEF TypeInv, InTxn, Running

\* In a tame state, a job at its query, or at a ROLLBACK not yet answered, has
\* the transaction to itself.
LEMMA SoleOwner ==
  ASSUME SafeInv, Tame, NEW j \in Job, InTxn(j)
  PROVE  /\ ~EndsTxn(j) => Owns(j)
         /\ txn # None => txn.owner = j
         /\ \A i \in Job : InTxn(i) => i = j
<1>1. ASSUME NoneEnds, NEW i \in Job, InTxn(i)
      PROVE  Owns(i)
  BY <1>1, InTxnRuns DEF SafeInv, JobSafe, Tame, NoneEnds
<1>2. ASSUME ~overlapped, NEW i \in Job, InTxn(i)
      PROVE  i = j
  BY <1>2, InTxnRuns DEF SafeInv, JobSafe
<1>3. txn # None => txn.owner \in Job /\ InTxn(txn.owner)
  BY DEF SafeInv, TypeInv, TypeOK, Transaction, TxnSafe
<1>4. CASE NoneEnds
  BY <1>1, <1>4 DEF Owns
<1>5. CASE ~overlapped
  BY <1>2, <1>3, <1>5 DEF SafeInv, JobSafe
<1>6. QED
  BY <1>4, <1>5 DEF Tame

\* What a job's statement tells of its place.
LEMMA StatementOf ==
  ASSUME TypeInv, NEW j \in Job, Running(j), use[j] # None
  PROVE  /\ Statement(j) \in {"read", "write", "bad", "endless", "commit"} => pc[j] = "query"
         /\ Statement(j) = "begin" => pc[j] \in {"begin", "query"}
         /\ Statement(j) = "rollback" => pc[j] \in {"rollback", "query"}
         /\ pc[j] = "query" => Statement(j) \in Statements(TextOf(j))
         /\ pc[j] = "query" /\ Statement(j) # "read" =>
              part[j] = "own" /\ Statement(j) \in Statements(use[j].sql)
         /\ pc[j] = "query" /\ Statement(j) \in {"commit", "rollback"} => EndsTxn(j)
<1>1. ASSUME pc[j] = "query"
      PROVE  Statement(j) \in Statements(TextOf(j))
  BY <1>1, TextType DEF Statement, Statements
<1>2. Statements(ReadText) = {"read"}
  BY DEF ReadText, Statements
<1>3. ASSUME pc[j] = "query", Statement(j) # "read"
      PROVE  part[j] = "own" /\ Statement(j) \in Statements(use[j].sql)
  BY <1>1, <1>2, <1>3 DEF TextOf
<1>4. ASSUME pc[j] = "query", Statement(j) \in {"commit", "rollback"}
      PROVE  EndsTxn(j)
  BY <1>3, <1>4 DEF EndsTxn
<1>5. pc[j] # "query" => Statement(j) = pc[j] /\ pc[j] \in {"begin", "rollback"}
  BY DEF Statement, Running
<1>6. QED
  BY <1>1, <1>3, <1>4, <1>5

\* The transaction is the same one, with the same changes.
SameTxn ==
  /\ txn' = None <=> txn = None
  /\ txn # None => txn'.owner = txn.owner /\ txn'.writes = txn.writes

LEMMA MayAbortKeeps == TypeOK /\ MayAbort => SameTxn
<1> SUFFICES ASSUME TypeOK, MayAbort PROVE SameTxn
  OBVIOUS
<1>1. CASE UNCHANGED txn
  BY <1>1 DEF SameTxn
<1>2. CASE txn # None /\ txn' = [txn EXCEPT !.aborted = TRUE]
  <2>1. txn \in Transaction
    BY <1>2 DEF TypeOK
  <2>2. /\ txn' \in [owner : Job, writes : SUBSET Job, aborted : BOOLEAN]
        /\ txn'.owner = txn.owner /\ txn'.writes = txn.writes
    BY <1>2, <2>1 DEF Transaction
  <2>3. txn' # None
    BY <2>2, QueryEngineAssumption
  <2>4. QED
    BY <1>2, <2>2, <2>3 DEF SameTxn
<1>3. QED
  BY <1>1, <1>2 DEF MayAbort

\* The worker's steps.
LEMMA WorkerSafe ==
  ASSUME SafeInv, TypeInv', NEW j \in Job, WorkerStep(j)
  PROVE  SafeInv'
<1>1. /\ answer[j] = None /\ Running(j) /\ use[j] # None
      /\ pc[j] # "query" => answer'[j] # None
      /\ \A i \in Job \ {j} : answer'[i] = answer[i]
      /\ UNCHANGED <<use, part, overlapped, pc>>
  BY WorkerMoves DEF SafeInv
<1>2. /\ Tame' <=> Tame
      /\ \A i \in Job : Running(i)' <=> Running(i)
      /\ \A i \in Job : EndsTxn(i)' <=> EndsTxn(i)
      /\ \A i \in Job \ {j} : InTxn(i)' <=> InTxn(i)
      /\ pc[j] = "query" => InTxn(j) /\ InTxn(j)'
  BY <1>1 DEF Tame, NoneEnds, Running, EndsTxn, InTxn
<1>3. SUFFICES ASSUME Tame
               PROVE  /\ \A i \in Job : InTxn(i)' /\ ~EndsTxn(i) => Owns(i)'
                      /\ \A i \in Job : saw'[i] \subseteq {i} \cup persisted'
                      /\ TxnSafe'
                      /\ \A i \in persisted' : use[i] # None /\ EndsTxn(i)
  <2>1. CASE Tame
    <3>1. persisted' \subseteq Job
      BY DEF TypeInv, TypeOK
    <3>2. DataSafe'
      BY <1>1, <1>2, <1>3, <2>1, <3>1 DEF DataSafe
    <3>3. \A i \in Job : JobSafe(i)'
      BY <1>2, <1>3, <1>1, <2>1 DEF SafeInv, JobSafe
    <3>4. QED
      BY <1>3, <2>1, <3>2, <3>3 DEF SafeInv
  <2>2. CASE ~Tame
    BY <1>1, <1>2, <2>2 DEF SafeInv, JobSafe, TxnSafe, DataSafe
  <2>3. QED
    BY <2>1, <2>2
<1>4. /\ persisted \subseteq Job /\ \A i \in persisted : use[i] # None /\ EndsTxn(i)
      /\ txn # None => txn \in Transaction /\ txn.owner \in Job
      /\ \A i \in Job : saw[i] \subseteq {i} \cup persisted
      /\ saw \in [Job -> SUBSET Job]
  BY <1>3 DEF SafeInv, JobSafe, DataSafe, TypeInv, TypeOK, Transaction
<1>5. /\ Statement(j) \in {"read", "write", "bad", "endless", "commit"} => pc[j] = "query"
      /\ Statement(j) = "begin" => pc[j] \in {"begin", "query"}
      /\ Statement(j) = "rollback" => pc[j] \in {"rollback", "query"}
      /\ pc[j] = "query" /\ Statement(j) \in {"commit", "rollback"} => EndsTxn(j)
  BY <1>1, StatementOf DEF SafeInv
<1>6. ASSUME SameTxn, InTxn(j)' <=> InTxn(j), persisted' = persisted,
             \A i \in Job : saw'[i] \subseteq {i} \cup persisted
      PROVE  /\ \A i \in Job : InTxn(i)' /\ ~EndsTxn(i) => Owns(i)'
             /\ \A i \in Job : saw'[i] \subseteq {i} \cup persisted'
             /\ TxnSafe'
             /\ \A i \in persisted' : use[i] # None /\ EndsTxn(i)
  <2>1. \A i \in Job : InTxn(i)' <=> InTxn(i)
    BY <1>2, <1>6
  <2>2. \A i \in Job : InTxn(i)' /\ ~EndsTxn(i) => Owns(i)'
    BY <1>3, <1>6, <2>1 DEF SafeInv, JobSafe, SameTxn, Owns
  <2>3. TxnSafe'
    BY <1>2, <1>3, <1>4, <1>6, <2>1 DEF SafeInv, TxnSafe, SameTxn
  <2>4. QED
    BY <1>4, <1>6, <2>2, <2>3
<1>7. ASSUME MayAbort, Fails(j), UNCHANGED <<persisted, saw>>,
             pc[j] = "query" \/ pc[j] = "begin"
      PROVE  /\ \A i \in Job : InTxn(i)' /\ ~EndsTxn(i) => Owns(i)'
             /\ \A i \in Job : saw'[i] \subseteq {i} \cup persisted'
             /\ TxnSafe'
             /\ \A i \in persisted' : use[i] # None /\ EndsTxn(i)
  <2>1. SameTxn
    BY <1>7, MayAbortKeeps DEF SafeInv, TypeInv
  <2>2. answer'[j] = "error"
    BY <1>7, AnswersQueue DEF Fails, SafeInv
  <2>3. InTxn(j)' <=> InTxn(j)
    BY <1>1, <1>7, <2>2, QueryEngineAssumption DEF InTxn
  <2>4. QED
    BY <1>4, <1>6, <1>7, <2>1, <2>3
<1>8. ASSUME pc[j] = "query"
      PROVE  /\ txn = None => EndsTxn(j)
             /\ txn # None => txn.owner = j /\ txn.writes \subseteq {j}
             /\ \A i \in Job : InTxn(i) => i = j
             /\ \A i \in Job : InTxn(i)' => i = j
             /\ Uncommitted \subseteq {j}
  <2>1. /\ ~EndsTxn(j) => Owns(j)
        /\ txn # None => txn.owner = j
        /\ \A i \in Job : InTxn(i) => i = j
    BY <1>2, <1>3, <1>8, SoleOwner
  <2>2. txn # None => txn.writes \subseteq {j}
    BY <1>3, <2>1 DEF SafeInv, TxnSafe
  <2>3. QED
    BY <1>2, <2>1, <2>2 DEF Owns, Uncommitted
<1>9. CASE Begins(j)
  <2>1. CASE txn = None /\ Succeeds(j)
             /\ txn' = [owner |-> j, writes |-> {}, aborted |-> FALSE]
    <3>1. \A i \in Job : InTxn(i) => EndsTxn(i)
      BY <1>3, <2>1, SoleOwner DEF Owns
    <3>2. InTxn(j)'
      <4>1. CASE pc[j] = "query"
        BY <1>2, <4>1
      <4>2. CASE pc[j] = "begin"
        <5>1. Answers(j, "rows")
          BY <2>1, <4>2 DEF Succeeds, Last
        <5>2. QED
          BY <1>1, <4>2, <5>1, AnswersQueue DEF InTxn, SafeInv
      <4>3. QED
        BY <1>5, <1>9, <4>1, <4>2 DEF Begins
    <3>3. txn' # None /\ txn'.owner = j /\ txn'.writes = {} /\ UNCHANGED <<persisted, saw>>
      <4>1. txn' \in [owner : Job, writes : SUBSET Job, aborted : BOOLEAN]
        BY <2>1
      <4>2. txn' # None
        BY <4>1, QueryEngineAssumption
      <4>3. QED
        BY <1>9, <2>1, <4>2 DEF Begins
    <3>4. \A i \in Job : InTxn(i)' /\ ~EndsTxn(i) => Owns(i)'
      BY <1>2, <3>1, <3>3 DEF Owns
    <3>5. QED
      BY <1>4, <3>2, <3>3, <3>4 DEF TxnSafe
  <2>2. CASE txn # None /\ MayAbort /\ Fails(j)
    BY <1>5, <1>7, <1>9, <2>2 DEF Begins
  <2>3. QED
    BY <1>9, <2>1, <2>2 DEF Begins
<1>10. CASE Reads(j)
  <2>1. pc[j] = "query"
    BY <1>5, <1>10 DEF Reads
  <2>2. CASE UNCHANGED <<txn, persisted>> /\ saw' = [saw EXCEPT ![j] = @ \cup persisted \cup Uncommitted]
    <3>1. \A i \in Job : saw'[i] \subseteq {i} \cup persisted
      BY <1>4, <1>8, <2>1, <2>2
    <3>2. SameTxn
      BY <2>2 DEF SameTxn
    <3>3. QED
      BY <1>2, <1>6, <2>1, <2>2, <3>1, <3>2
  <2>3. CASE MayAbort /\ Fails(j) /\ UNCHANGED <<persisted, saw>>
    BY <1>7, <2>1, <2>3
  <2>4. QED
    BY <1>10, <2>2, <2>3 DEF Reads
<1>11. CASE Writes(j)
  <2>1. pc[j] = "query"
    BY <1>5, <1>11 DEF Writes
  <2>2. CASE txn = None /\ persisted' = persisted \cup {j} /\ UNCHANGED txn
             /\ saw' = [saw EXCEPT ![j] = @ \cup persisted \cup Uncommitted]
    <3>1. \A i \in Job : saw'[i] \subseteq {i} \cup persisted'
      BY <1>4, <1>8, <2>1, <2>2
    <3>2. QED
      BY <1>1, <1>4, <1>8, <2>1, <2>2, <3>1 DEF TxnSafe
  <2>3. CASE txn # None /\ txn' = [txn EXCEPT !.writes = @ \cup {j}] /\ persisted' = persisted
             /\ saw' = [saw EXCEPT ![j] = @ \cup persisted \cup Uncommitted]
    <3>1. txn' # None /\ txn'.owner = j /\ txn'.writes \subseteq {j}
      BY <1>4, <1>8, <2>1, <2>3, QueryEngineAssumption DEF Transaction
    <3>2. \A i \in Job : saw'[i] \subseteq {i} \cup persisted'
      BY <1>4, <1>8, <2>1, <2>3
    <3>3. QED
      BY <1>2, <1>4, <1>8, <2>1, <2>3, <3>1, <3>2 DEF TxnSafe, Owns
  <2>4. CASE MayAbort /\ Fails(j) /\ UNCHANGED <<persisted, saw>>
    BY <1>7, <2>1, <2>4
  <2>5. QED
    BY <1>11, <2>2, <2>3, <2>4 DEF Writes
<1>12. CASE Rejects(j)
  BY <1>5, <1>7, <1>12 DEF Rejects
<1>13. CASE Commits(j)
  <2>1. pc[j] = "query" /\ EndsTxn(j)
    BY <1>5, <1>13 DEF Commits
  <2>2. /\ txn' = None /\ saw' = saw
        /\ persisted \subseteq persisted' /\ persisted' \subseteq persisted \cup {j}
    BY <1>8, <1>13, <2>1 DEF Commits
  <2>3. QED
    BY <1>1, <1>4, <1>8, <2>1, <2>2 DEF TxnSafe
<1>14. CASE RollsBack(j)
  <2>1. txn' = None /\ UNCHANGED <<persisted, saw>>
    BY <1>14 DEF RollsBack
  <2>2. CASE pc[j] = "query"
    <3>1. EndsTxn(j)
      BY <1>5, <1>14, <2>2 DEF RollsBack
    <3>2. QED
      BY <1>4, <1>8, <2>1, <2>2, <3>1 DEF TxnSafe
  <2>3. CASE pc[j] = "rollback"
    <3>1. InTxn(j) /\ ~InTxn(j)'
      BY <1>1, <2>3 DEF InTxn
    <3>2. \A i \in Job : InTxn(i) => i = j
      BY <1>3, <3>1, SoleOwner
    <3>3. QED
      BY <1>2, <1>4, <2>1, <3>1, <3>2 DEF TxnSafe
  <2>4. QED
    BY <1>5, <1>14, <2>2, <2>3 DEF RollsBack
<1>15. QED
  BY <1>9, <1>10, <1>11, <1>12, <1>13, <1>14 DEF WorkerStep

\* Steps of the page leave the transaction alone; what they need to keep is that
\* they end no job's hold on it.
LEMMA HoldKept ==
  ASSUME SafeInv, TypeInv', NEW j \in Job,
         UNCHANGED <<txn, persisted>>,
         Tame' => Tame,
         \A i \in Job \ {j} : pc'[i] = pc[i] /\ answer'[i] = answer[i],
         \A i \in Job : use[i] # None => use'[i] = use[i],
         InTxn(j)' <=> InTxn(j),
         \A i \in Job : saw'[i] = saw[i] \/ saw'[i] = {},
         \A i \in Job : Running(i)' /\ Running(j)' /\ ~overlapped' => i = j,
         ~overlapped' => ~overlapped
  PROVE  SafeInv'
<1>1. \A i \in Job : InTxn(i)' <=> InTxn(i)
  BY DEF InTxn
<1>2. \A i \in Job \ {j} : Running(i)' <=> Running(i)
  BY DEF Running
<1>3. \A i \in Job : InTxn(i) => EndsTxn(i)' <=> EndsTxn(i)
  BY InTxnRuns DEF SafeInv, EndsTxn
<1>4. \A i \in Job : JobSafe(i)'
  <2>1. ASSUME NEW i \in Job
        PROVE  /\ \A k \in Job : Running(k)' /\ Running(i)' /\ ~overlapped' => k = i
               /\ Tame' /\ InTxn(i)' /\ ~EndsTxn(i)' => Owns(i)'
               /\ Tame' => saw'[i] \subseteq {i} \cup persisted'
    <3>1. Tame' /\ InTxn(i)' /\ ~EndsTxn(i)' => Owns(i)'
      BY <1>1, <1>3 DEF SafeInv, JobSafe, Owns
    <3>2. Tame' => saw'[i] \subseteq {i} \cup persisted'
      BY DEF SafeInv, JobSafe
    <3>3. \A k \in Job : Running(k)' /\ Running(i)' /\ ~overlapped' => k = i
      BY <1>2 DEF SafeInv, JobSafe
    <3>4. QED
      BY <3>1, <3>2, <3>3
  <2>2. QED
    BY <2>1 DEF JobSafe
<1>5. TxnSafe'
  <2>1. txn # None => txn.owner \in Job
    BY DEF SafeInv, TypeInv, TypeOK, Transaction
  <2>2. QED
    BY <1>1, <1>3, <2>1 DEF SafeInv, TxnSafe
<1>6. DataSafe'
  BY DEF SafeInv, TypeInv, TypeOK, DataSafe, EndsTxn
<1>7. QED
  BY <1>4, <1>5, <1>6 DEF SafeInv

LEMMA PageSafe ==
  ASSUME SafeInv, TypeInv', NEW j \in Job, PageStep(j)
  PROVE  SafeInv'
<1>1. Takes(j) /\ UNCHANGED <<engine, use, overlapped>>
  BY DEF PageStep, BeginAnswered, QueryAnswered, RollbackAnswered, caller
<1>2. /\ answer[j] \in {"rows", "error"} /\ Running(j)
      /\ answer'[j] = None /\ \A i \in Job \ {j} : answer'[i] = answer[i]
  BY <1>1, TakesQueue DEF SafeInv
<1>3. answer[j] # None
  BY <1>2, QueryEngineAssumption
<1>4. pc \in [Job -> {"idle", "begin", "query", "rollback", "done"}]
  BY DEF SafeInv, TypeInv, TypeOK
<1>5. /\ \A i \in Job \ {j} : pc'[i] = pc[i]
      /\ InTxn(j)' <=> InTxn(j)
      /\ \A i \in Job : saw'[i] = saw[i] \/ saw'[i] = {}
  <2>0. saw \in [Job -> SUBSET Job]
    BY DEF SafeInv, TypeInv, TypeOK
  <2>1. CASE BeginAnswered(j)
    BY <1>2, <1>3, <1>4, <2>1, QueryEngineAssumption DEF BeginAnswered, Post, Settle, InTxn
  <2>2. CASE QueryAnswered(j)
    BY <1>2, <1>3, <1>4, <2>2 DEF QueryAnswered, Post, InTxn
  <2>3. CASE RollbackAnswered(j)
    BY <1>2, <1>3, <1>4, <2>0, <2>3, QueryEngineAssumption
    DEF RollbackAnswered, Post, Settle, InTxn
  <2>4. QED
    BY <2>1, <2>2, <2>3 DEF PageStep
<1>6. \A i \in Job : Running(i)' /\ Running(j)' /\ ~overlapped' => i = j
  BY <1>1, <1>2, <1>5 DEF SafeInv, JobSafe, Running
<1>7. QED
  BY <1>1, <1>2, <1>5, <1>6, HoldKept DEF engine, Tame, NoneEnds, EndsTxn

LEMMA StartSafe ==
  ASSUME SafeInv, TypeInv', NEW j \in Job,
         Sample(j) \/ (\E sql \in Sql : Submit(j, sql) \/ Run(j, sql))
  PROVE  SafeInv'
<1>1. PICK kind \in {"submit", "run", "sample"}, text \in Text : Start(j, kind, text)
  BY QueryEngineAssumption DEF Submit, Run, Sample, Text
<1>2. /\ use[j] = None /\ UNCHANGED <<engine, answer, saw>>
      /\ \A i \in Job \ {j} : use'[i] = use[i]
      /\ overlapped' <=> overlapped \/ \E i \in Job : Running(i)
  <2>1. use \in [Job -> [kind : {"submit", "run", "sample"}, sql : Text] \cup {None}]
    BY DEF SafeInv, TypeInv, TypeOK
  <2>2. QED
    BY <1>1, <2>1 DEF Start
<1>3. ~Running(j) /\ answer[j] = None
  BY <1>2, NotStarted DEF SafeInv
<1>4. Post(j, "begin") \/ UNCHANGED pc
  BY DEF Submit, Run, Sample
<1>5. (\A i \in Job \ {j} : pc'[i] = pc[i]) /\ ~InTxn(j) /\ ~InTxn(j)'
  BY <1>2, <1>3, <1>4, QueryEngineAssumption
  DEF Post, InTxn, Running, SafeInv, TypeInv, TypeOK
<1>6. Tame' => Tame
  BY <1>2 DEF Tame, NoneEnds, EndsTxn
<1>7. \A i \in Job : Running(i)' /\ Running(j)' /\ ~overlapped' => i = j
  BY <1>2, <1>5 DEF Running
<1>8. \A i \in Job : use[i] # None => use'[i] = use[i]
  BY <1>2
<1>9. QED
  BY <1>2, <1>5, <1>6, <1>7, <1>8, HoldKept DEF engine

LEMMA NextSafeInv == SafeInv /\ [Next]_vars => SafeInv'
<1> SUFFICES ASSUME SafeInv, [Next]_vars
             PROVE  SafeInv'
  OBVIOUS
<1>1. TypeInv'
  BY NextTypeInv DEF SafeInv
<1>2. ASSUME Connect \/ LoadDatabase \/ BootFails \/ Remount
               \/ (\E j \in Job : Timeout(j)) \/ UNCHANGED vars
      PROVE  SafeInv'
  <2>1. UNCHANGED <<use, overlapped, txn, persisted, pc, answer, saw>>
    BY <1>2, AsideTypeInv DEF SafeInv, engine
  <2>2. QED
    BY <1>1, <2>1
    DEF SafeInv, JobSafe, TxnSafe, DataSafe, Tame, NoneEnds, Running, InTxn, Owns, EndsTxn
<1>3. QED
  BY <1>1, <1>2, WorkerSafe, PageSafe, StartSafe DEF Next

THEOREM SafeInvAlways == Spec => []SafeInv
  BY InitSafeInv, NextSafeInv, PTL DEF Spec

\* However many jobs overlap, fail or time out, a student's change stays in the
\* dataset only if a text ended the transaction it was made in: the student's
\* own text or, where jobs overlapped, anyone's.
THEOREM DatasetIsKept == Spec => []DatasetKept
<1>1. SafeInv => DatasetKept
  BY DEF SafeInv, DataSafe, DatasetKept, Tame
<1>2. QED
  BY <1>1, SafeInvAlways, PTL

\* No job's rows are computed from changes of another job that were not
\* committed, unless texts that end transactions overlapped with other jobs.
THEOREM RowsAreOwn == Spec => []OwnDataOnly
<1>1. SafeInv => OwnDataOnly
  BY DEF SafeInv, JobSafe, OwnDataOnly, Tame
<1>2. QED
  BY <1>1, SafeInvAlways, PTL
-----------------------------------------------------------------------------
(* Jobs one after the other.  Each finds the engine without a transaction, *)
(* and its own is sound until it has been asked for its rows.              *)

\* Job j may well get an error: it is not plain, or a text has changed the dataset
\* for good.
Excused(j) == ~Plain(use[j].sql) \/ persisted # {}

\* The open transaction has changed nothing and is not aborted.
Clean == txn # None /\ ~txn.aborted /\ txn.writes = {}

\* What a job that started alone finds at each statement, and what it was told.
SoloJob(j) ==
  /\ pc[j] = "begin" /\ answer[j] = None => txn = None
  /\ pc[j] = "begin" /\ answer[j] # None => answer[j] = "rows" /\ Clean
  /\ pc[j] = "query" /\ answer[j] = None => Clean \/ Excused(j)
  /\ pc[j] = "query" /\ answer[j] # None => answer[j] = "rows" \/ Excused(j)
  /\ pc[j] = "rollback" => result[j] = "rows" \/ Excused(j)
  /\ pc[j] = "rollback" /\ answer[j] # None => txn = None
  /\ outcome[j] = "error" => Excused(j)

\* Before the engine has booted nothing has run on it.
Booting ==
  /\ boot \in {"starting", "loading"} =>
       txn = None /\ \A j \in Job : pc[j] = "idle" /\ outcome[j] = None
  /\ boot \in {"loading", "ready"} => conn

Solo ==
  /\ (\A j \in Job : ~Running(j)) => txn = None
  /\ \A j \in Job : SoloJob(j)

\* Nobody is told anything of a job not started.
Told == \A j \in Job : use[j] = None => outcome[j] = None

SoloInv == Booting /\ Told /\ (boot = "ready" /\ ~overlapped => Solo)

LEMMA InitSoloInv == Init => SoloInv
<1> SUFFICES ASSUME Init PROVE SoloInv
  OBVIOUS
<1> QED  BY QueryEngineAssumption DEF Init, SoloInv, Booting, Told

\* Job j alone runs, and the step changes what it has and what the others do not.
LEMMA SoloAlone ==
  ASSUME SafeInv, Solo, ~overlapped, NEW j \in Job, Running(j),
         \A i \in Job \ {j} : /\ pc'[i] = pc[i] /\ outcome'[i] = outcome[i] /\ use'[i] = use[i],
         persisted # {} => persisted' # {},
         SoloJob(j)', Running(j)' \/ txn' = None
  PROVE  Solo'
<1>1. \A i \in Job \ {j} : ~Running(i)
  BY DEF SafeInv, JobSafe
<1>2. \A i \in Job \ {j} : ~Running(i)' /\ (outcome'[i] = "error" => Excused(i)')
  BY <1>1 DEF Solo, SoloJob, Running, Excused
<1>3. \A i \in Job \ {j} : SoloJob(i)'
  BY <1>2 DEF SoloJob, Running
<1> QED  BY <1>3 DEF Solo

\* The worker's steps.
LEMMA WorkerSolo ==
  ASSUME SafeInv, SoloInv, NEW j \in Job, WorkerStep(j)
  PROVE  SoloInv'
<1>1. /\ Moves(j) /\ answer[j] = None /\ Running(j) /\ use[j] # None
      /\ pc[j] # "query" => answer'[j] # None
      /\ UNCHANGED <<boot, conn, use, part, overlapped, pc, outcome, result>>
  BY WorkerMoves DEF SafeInv
<1>2. Booting' /\ Told'
  BY <1>1 DEF SoloInv, Booting, Told, Running
<1>3. SUFFICES ASSUME boot = "ready", ~overlapped PROVE Solo'
  BY <1>1, <1>2 DEF SoloInv
<1>4. Solo /\ SoloJob(j)
  BY <1>3 DEF SoloInv, Solo
<1>5. persisted # {} => persisted' # {}
  BY DEF WorkerStep, Begins, Reads, Writes, Rejects, Commits, RollsBack
<1>6. SUFFICES SoloJob(j)'
  BY <1>1, <1>3, <1>4, <1>5, SoloAlone DEF Running
<1>7. Excused(j) => Excused(j)'
  BY <1>1, <1>5 DEF Excused
<1>8. /\ Statement(j) \in {"read", "write", "bad", "endless", "commit"} => pc[j] = "query"
      /\ Statement(j) = "begin" => pc[j] \in {"begin", "query"}
      /\ Statement(j) = "rollback" => pc[j] \in {"rollback", "query"}
  BY <1>1, StatementOf DEF SafeInv
<1>9. ASSUME NEW a \in {"rows", "error"}, Answers(j, a)
      PROVE  answer'[j] = a /\ a # None
  BY <1>9, AnswersQueue DEF SafeInv
<1>10. CASE pc[j] = "begin"
  <2>1. txn = None /\ Begins(j)
    BY <1>1, <1>4, <1>8, <1>10
    DEF SoloJob, WorkerStep, Reads, Writes, Rejects, Commits, RollsBack
  <2>2. txn' = [owner |-> j, writes |-> {}, aborted |-> FALSE] /\ Answers(j, "rows")
    BY <1>10, <2>1 DEF Begins, Succeeds, Last
  <2>3. txn' # None /\ ~txn'.aborted /\ txn'.writes = {}
    <3>1. txn' \in [owner : Job, writes : SUBSET Job, aborted : BOOLEAN]
      BY <2>2
    <3> QED  BY <2>2, <3>1, QueryEngineAssumption
  <2> QED  BY <1>1, <1>4, <1>7, <1>9, <1>10, <2>2, <2>3 DEF SoloJob, Clean
<1>11. CASE pc[j] = "query" /\ Excused(j)
  BY <1>1, <1>4, <1>7, <1>11 DEF SoloJob
<1>12. CASE pc[j] = "query" /\ ~Excused(j)
  <2>1. Clean /\ persisted = {} /\ Plain(use[j].sql)
    BY <1>1, <1>4, <1>12 DEF SoloJob, Excused
  <2>2. ~Aborted /\ ~Changed
    BY <1>3, <2>1 DEF Clean, Aborted, Changed, Uncommitted
  <2>3. Statement(j) = "read" \/ (Statement(j) = "write" /\ Last(j))
    <3>1. Statement(j) = TextOf(j)[at[j] + 1] /\ at[j] + 1 \in 1 .. Len(TextOf(j))
      BY <1>1, <1>12, TextType DEF Statement, SafeInv
    <3>2. CASE part[j] = "own"
      BY <1>12, <2>1, <3>1, <3>2 DEF TextOf, Plain, Last
    <3>3. CASE part[j] # "own"
      BY <3>1, <3>3 DEF TextOf, ReadText
    <3> QED  BY <3>2, <3>3
  <2>4. CASE Statement(j) = "read"
    <3>1. Succeeds(j) /\ UNCHANGED <<txn, persisted>>
      BY <2>2, <2>4 DEF WorkerStep, Begins, Reads, Writes, Rejects, Commits, RollsBack
    <3>2. Clean'
      BY <2>1, <3>1 DEF Clean
    <3>3. CASE Answers(j, "rows")
      BY <1>1, <1>4, <1>7, <1>9, <1>12, <3>2, <3>3 DEF SoloJob
    <3>4. CASE GoesOn(j)
      BY <1>1, <1>4, <1>7, <1>12, <3>2, <3>4 DEF SoloJob, GoesOn
    <3> QED  BY <3>1, <3>3, <3>4 DEF Succeeds
  <2>5. CASE Statement(j) = "write" /\ Last(j)
    <3>1. Answers(j, "rows")
      BY <2>2, <2>5 DEF WorkerStep, Begins, Reads, Writes, Rejects, Commits, RollsBack, Succeeds
    <3> QED  BY <1>1, <1>4, <1>7, <1>9, <1>12, <3>1 DEF SoloJob
  <2> QED  BY <2>3, <2>4, <2>5
<1>13. CASE pc[j] = "rollback"
  <2>1. txn' = None
    BY <1>8, <1>13 DEF WorkerStep, Begins, Reads, Writes, Rejects, Commits, RollsBack
  <2> QED  BY <1>1, <1>4, <1>7, <1>13, <2>1 DEF SoloJob
<1> QED  BY <1>1, <1>10, <1>11, <1>12, <1>13 DEF Running

\* The page's steps.
LEMMA PageSolo ==
  ASSUME SafeInv, SoloInv, NEW j \in Job, PageStep(j)
  PROVE  SoloInv'
<1>1. Takes(j) /\ UNCHANGED <<boot, conn, txn, persisted, use, overlapped>>
  BY DEF PageStep, BeginAnswered, QueryAnswered, RollbackAnswered, caller, page, engine
<1>2. /\ answer[j] \in {"rows", "error"} /\ answer[j] # None /\ Running(j) /\ answer'[j] = None
      /\ pc \in [Job -> {"idle", "begin", "query", "rollback", "done"}]
      /\ outcome \in [Job -> {"rows", "error", "timeout", None}]
      /\ result \in [Job -> {"rows", "error", None}]
  BY <1>1, TakesQueue, QueryEngineAssumption DEF SafeInv, TypeInv, TypeOK
<1>3. \A i \in Job \ {j} : pc'[i] = pc[i] /\ outcome'[i] = outcome[i] /\ use'[i] = use[i]
  BY <1>1, <1>2 DEF PageStep, BeginAnswered, QueryAnswered, RollbackAnswered, Post, Settle, caller
<1>4. Booting' /\ Told'
  <2>1. boot \notin {"starting", "loading"}
    BY <1>2 DEF SoloInv, Booting, Running
  <2>2. use'[j] # None
    BY <1>1, TakesQueue DEF SafeInv
  <2> QED  BY <1>1, <1>3, <2>1, <2>2 DEF SoloInv, Booting, Told
<1>5. SUFFICES ASSUME boot = "ready", ~overlapped PROVE Solo'
  BY <1>1, <1>4 DEF SoloInv
<1>6. Solo /\ SoloJob(j)
  BY <1>5 DEF SoloInv, Solo
<1>7. SUFFICES SoloJob(j)' /\ (Running(j)' \/ txn' = None)
  BY <1>1, <1>2, <1>3, <1>5, <1>6, SoloAlone
<1>8. (Excused(j)' <=> Excused(j)) /\ (Clean' <=> Clean)
  BY <1>1 DEF Excused, Clean
<1>9. CASE BeginAnswered(j)
  <2>1. pc[j] = "begin" /\ answer[j] = "rows" /\ Clean
    BY <1>2, <1>6, <1>9 DEF BeginAnswered, SoloJob
  <2>2. pc'[j] = "query" /\ outcome'[j] = outcome[j]
    BY <1>2, <1>9, <2>1 DEF BeginAnswered, Post
  <2> QED  BY <1>1, <1>2, <1>6, <1>8, <2>1, <2>2 DEF SoloJob, Running
<1>10. CASE QueryAnswered(j)
  <2>1. pc[j] = "query" /\ pc'[j] = "rollback" /\ result'[j] = answer[j] /\ outcome'[j] = outcome[j]
    BY <1>2, <1>10 DEF QueryAnswered, Post, caller
  <2> QED  BY <1>1, <1>2, <1>6, <1>8, <2>1 DEF SoloJob, Running
<1>11. CASE RollbackAnswered(j)
  <2>1. pc[j] = "rollback" /\ txn = None /\ (result[j] = "rows" \/ Excused(j))
    BY <1>2, <1>6, <1>11 DEF RollbackAnswered, SoloJob
  <2>2. \/ pc'[j] = "begin" /\ outcome'[j] = outcome[j]
        \/ pc'[j] = "done" /\ outcome'[j] \in {outcome[j], result[j]}
    BY <1>2, <1>11 DEF RollbackAnswered, Post, Settle
  <2> QED  BY <1>1, <1>2, <1>6, <1>8, <2>1, <2>2 DEF SoloJob, Running
<1> QED  BY <1>9, <1>10, <1>11 DEF PageStep

\* A job that starts when no other runs finds no transaction.
LEMMA StartSolo ==
  ASSUME SafeInv, SoloInv, NEW j \in Job,
         Sample(j) \/ (\E sql \in Sql : Submit(j, sql) \/ Run(j, sql))
  PROVE  SoloInv'
<1>1. PICK kind \in {"submit", "run", "sample"}, text \in Text : Start(j, kind, text)
  BY QueryEngineAssumption DEF Submit, Run, Sample, Text
<1>2. /\ use[j] = None /\ UNCHANGED <<boot, conn, txn, persisted, answer, result>>
      /\ \A i \in Job \ {j} : use'[i] = use[i]
      /\ overlapped' <=> overlapped \/ \E i \in Job : Running(i)
  BY <1>1 DEF Start, SafeInv, TypeInv, TypeOK, page, engine
<1>3. ~Running(j) /\ answer[j] = None
  BY <1>2, NotStarted DEF SafeInv
<1>4. boot \in {"ready", "broken"}
  BY DEF Submit, Run, Sample
<1>5. Booting' /\ Told'
  <2>1. use'[j] # None
    BY <1>1, QueryEngineAssumption DEF Start, SafeInv, TypeInv, TypeOK
  <2>2. \A i \in Job \ {j} : outcome'[i] = outcome[i]
    BY DEF Submit, Run, Sample, SafeInv, TypeInv, TypeOK
  <2> QED  BY <1>2, <1>4, <2>1, <2>2 DEF SoloInv, Booting, Told
<1>6. SUFFICES ASSUME boot = "ready", ~overlapped, \A i \in Job : ~Running(i) PROVE Solo'
  BY <1>2, <1>5 DEF SoloInv
<1>7. Solo /\ SoloJob(j) /\ txn = None /\ conn
  BY <1>6 DEF SoloInv, Solo, Booting
<1>8. Post(j, "begin") /\ outcome' = outcome
  BY <1>7 DEF Submit, Run, Sample
<1>9. pc'[j] = "begin" /\ \A i \in Job \ {j} : pc'[i] = pc[i]
  BY <1>8 DEF Post, SafeInv, TypeInv, TypeOK
<1>10. outcome[j] # "error"
  BY <1>2, QueryEngineAssumption DEF SoloInv, Told
<1>11. SoloJob(j)'
  BY <1>2, <1>3, <1>7, <1>8, <1>9, <1>10 DEF SoloJob
<1>12. \A i \in Job \ {j} : SoloJob(i)'
  BY <1>2, <1>6, <1>7, <1>8, <1>9 DEF Solo, SoloJob, Excused, Running
<1>13. Running(j)'
  BY <1>9 DEF Running
<1> QED  BY <1>11, <1>12, <1>13 DEF Solo

\* Steps that concern no statement.
LEMMA AsideSolo ==
  ASSUME SafeInv, SoloInv,
         Connect \/ LoadDatabase \/ BootFails \/ Remount \/ (\E j \in Job : Timeout(j))
           \/ UNCHANGED vars
  PROVE  SoloInv'
<1>1. UNCHANGED <<use, part, overlapped, txn, persisted, pc, answer, result>>
  BY DEF Connect, LoadDatabase, BootFails, Remount, Timeout, vars, caller, engine
<1>2. \A j \in Job : \/ outcome'[j] = outcome[j]
                     \/ use[j] # None /\ outcome'[j] = "timeout" /\ Running(j) /\ UNCHANGED <<boot, conn>>
  BY DEF Connect, LoadDatabase, BootFails, Remount, Timeout, vars, caller, page, Waiting,
         SafeInv, TypeInv, TypeOK
<1>3. Told'
  BY <1>1, <1>2 DEF SoloInv, Told
<1>4. CASE boot' = boot
  <2>1. Booting'
    <3>1. UNCHANGED conn \/ boot = "starting"
      BY DEF Connect, LoadDatabase, BootFails, Remount, Timeout, vars, page
    <3>2. boot \in {"starting", "loading"} => \A j \in Job : ~Running(j)
      BY DEF SoloInv, Booting, Running
    <3> QED  BY <1>1, <1>2, <1>4, <3>1, <3>2 DEF SoloInv, Booting
  <2>2. Solo => Solo'
    BY <1>1, <1>2 DEF Solo, SoloJob, Excused, Clean, Running
  <2> QED  BY <1>1, <1>3, <1>4, <2>1, <2>2 DEF SoloInv
<1>5. CASE Connect \/ LoadDatabase \/ BootFails
  <2>1. /\ boot \in {"starting", "loading"} /\ UNCHANGED outcome
        /\ boot' \in {"loading", "ready"} => conn'
    BY <1>5 DEF Connect, LoadDatabase, BootFails, SoloInv, Booting, caller
  <2>2. txn = None /\ \A j \in Job : pc[j] = "idle" /\ outcome[j] = None
    BY <2>1 DEF SoloInv, Booting
  <2>3. Booting'
    BY <1>1, <2>1, <2>2 DEF Booting
  <2>4. Solo'
    BY <1>1, <2>1, <2>2, QueryEngineAssumption DEF Solo, SoloJob
  <2> QED  BY <1>3, <2>3, <2>4 DEF SoloInv
<1> QED  BY <1>4, <1>5 DEF Remount, Timeout, vars, page

LEMMA NextSoloInv == SafeInv /\ SoloInv /\ [Next]_vars => SoloInv'
BY WorkerSolo, PageSolo, StartSolo, AsideSolo DEF Next

\* For any number of jobs: as long as each starts after the one before it has
\* ended, and no text has changed the dataset for good, only a text that holds
\* more than right queries, with one change at its end, is told of an error,
\* whatever failed or timed out before it (db-manager.js:188).
THEOREM SoloJobsServed == Spec => []SoloJobsAnswered
<1>1. SoloInv => SoloJobsAnswered
  BY DEF SoloInv, Solo, SoloJob, Excused, SoloJobsAnswered
<1> QED  BY <1>1, InitSafeInv, NextSafeInv, InitSoloInv, NextSoloInv, PTL DEF Spec
=============================================================================
