-------------------------- MODULE AttemptLogProofs --------------------------
(***************************************************************************)
(* Proofs about AttemptLog, for any numbers of students, attempts,         *)
(* requests and hint fetches: SafeInv, what every handler knows between    *)
(* its awaits; SerialInv, what is exact while a student's requests do not  *)
(* overlap; and the refinement of AttemptLedger.                           *)
(***************************************************************************)
EXTENDS AttemptLog, FiniteSetTheorems, TLAPS

-----------------------------------------------------------------------------
(* Facts about the operators.                                              *)

\* A submission id is a Key.
LEMMA KeyOfAttempt ==
  ASSUME NEW a \in Attempt, NEW p \in Place
  PROVE  SubmissionKey(a, p) \in Key
  BY DEF Key

\* A payload's fields have their types.
LEMMA PayloadOfAttempt == ASSUME NEW a \in Attempt PROVE Payload[a] \in PayloadType
  BY ConstantsAssumption

\* The submission id of an attempt's own problem is a Key; a current client has
\* no other.
LEMMA OwnKeyOfAttempt ==
  ASSUME NEW a \in Attempt
  PROVE  /\ Payload[a].place \in Place
         /\ OwnKey(a) \in Key
         /\ AllCurrent => \A p \in Place : SubmissionKey(a, p) = OwnKey(a)
<1>1. Payload[a].place \in Place
  BY PayloadOfAttempt DEF PayloadType
<1>2. OwnKey(a) \in Key
  BY <1>1, KeyOfAttempt DEF OwnKey
<1>3. AllCurrent => \A p \in Place : SubmissionKey(a, p) = OwnKey(a)
  BY DEF AllCurrent, OwnKey, SubmissionKey
<1>4. QED
  BY <1>1, <1>2, <1>3

\* A new attempt's number is positive.
LEMMA NextAttemptNumberType ==
  ASSUME NEW a \in Attempt, NEW p \in Place
  PROVE  NextAttemptNumber(a, p) \in Nat \ {0}
<1>1. IsFiniteSet(CountedWith(a, p))
  BY ConstantsAssumption, FS_Subset, CountedWith(a, p) \subseteq Request DEF CountedWith
<1>2. Cardinality(CountedWith(a, p)) \in Nat
  BY <1>1, FS_CardinalityType
<1>3. QED
  BY <1>2, PayloadOfAttempt DEF NextAttemptNumber, PayloadType

-----------------------------------------------------------------------------
(* Type correctness.  It needs, beyond types, which locals a handler has   *)
(* set at each of its steps, and that pointers lead to rows.               *)

\* The locals of request q's handler at each of its steps.
ReqShape(q) ==
  /\ req[q].pc = "idle" => req[q].attempt = None
  /\ req[q].pc # "idle" => req[q].attempt \in Attempt /\ req[q].place \in Place
  /\ req[q].kind = "hint" => Mapped(req[q].place)
  /\ req[q].pc \in {"insert"} => req[q].number # 0
  /\ req[q].pc = "commit" /\ req[q].target = None => req[q].number # 0 /\ req[q].id # 0
  /\ req[q].pc \in {"grading", "lookup", "count", "insert"} => req[q].target = None
  /\ req[q].target # None => Logged(req[q].target)

\* The locals of fetch f's handler at each of its steps.
FetchShape(f) ==
  /\ fetch[f].pc \in {"asking", "answered", "loaded"} =>
       fetch[f].hintReq \in Request /\ hintReqs[fetch[f].hintReq] # None
  /\ fetch[f].pc \in {"answered", "loaded"} => fetch[f].resp # None

TypeInv ==
  /\ TypeOK
  /\ \A q \in Request : ReqShape(q)
  /\ \A f \in Fetch : FetchShape(f)
  /\ \A q \in Request : hintReqs[q] # None => Logged(hintReqs[q].log)

LEMMA InitTypeInv == Init => TypeInv
  BY NoneAssumption
  DEF Init, TypeInv, TypeOK, ReqShape, FetchShape, IdleReq, IdleFetch, ReqState,
      FetchState, Request_pc, Fetch_pc

\* Rows written by the two committing actions are rows.
LEMMA ApplyTutorVerdictType ==
  ASSUME NEW row \in Row, NEW loaded, NEW resp \in Ruling \cup {None}
  PROVE  ApplyTutorVerdict(row, loaded, resp) \in Row
  BY DEF ApplyTutorVerdict, Stored, Row, Ruling

LEMMA RecordHintType ==
  ASSUME NEW row \in Row, NEW r \in FetchState, NEW token \in Key, r.resp # None
  PROVE  RecordHint(row, r, token) \in Row
<1>1. Stored(row.hint, r.loadedHint, token) \in Key \cup {None}
  BY DEF Stored, Row
<1>2. RecordedSource(row.source, r.loadedSource, r.resp) \in {"generated", "cached", None}
  BY DEF RecordedSource, Stored, Row, FetchState
<1>3. QED
  BY <1>1, <1>2 DEF RecordHint, Row

LEMMA EnteredType ==
  ASSUME NEW a \in Attempt, NEW p \in Place, NEW kind \in {"hint", "log"},
         NEW retry \in BOOLEAN
  PROVE  Entered(a, p, kind, retry) \in ReqState
  BY DEF Entered, ReqState, Request_pc

LEMMA CommitLogType ==
  ASSUME TypeInv, NEW q \in Request, CommitLog(q)
  PROVE  /\ WrittenRow(q) \in Request
         /\ logs' \in [Request -> Row \cup {None}]
         /\ hintReqs' \in [Request -> HintRow \cup {None}]
         /\ \A p \in Request : Logged(p) => logs'[p] # None
         /\ logs'[WrittenRow(q)] # None
         /\ \A p \in Request : hintReqs[p] # None => hintReqs'[p] # None
<1> DEFINE w == WrittenRow(q)
           row == IF req[q].target = None THEN NewRow(req[q]) ELSE logs[w]
<1>1. /\ req[q] \in ReqState
      /\ req[q].attempt \in Attempt /\ req[q].place \in Place
      /\ req[q].kind = "hint" => Mapped(req[q].place)
      /\ req[q].target # None => Logged(req[q].target)
      /\ req[q].target = None => req[q].number # 0 /\ req[q].id # 0
  BY DEF TypeInv, TypeOK, ReqShape, CommitLog
<1>2. w \in Request
  BY <1>1 DEF WrittenRow, ReqState
<1>3. row \in Row
  <2>1. CASE req[q].target = None
    BY <1>1, <2>1 DEF NewRow, Row, ReqState
  <2>2. CASE req[q].target # None
    BY <1>1, <1>2, <2>2 DEF WrittenRow, Logged, TypeInv, TypeOK
  <2>3. QED
    BY <2>1, <2>2
<1>4. ApplyTutorVerdict(row, req[q].loaded, req[q].resp) \in Row
  BY <1>1, <1>3, ApplyTutorVerdictType DEF ReqState
<1>5. logs' = [logs EXCEPT ![w] = ApplyTutorVerdict(row, req[q].loaded, req[q].resp)]
  BY DEF CommitLog
<1>6. /\ logs' \in [Request -> Row \cup {None}]
      /\ \A p \in Request : Logged(p) => logs'[p] # None
      /\ logs'[w] # None
  BY <1>2, <1>4, <1>5, NoneAssumption DEF TypeInv, TypeOK, Logged
<1> DEFINE h == [log |-> w, token |-> KeyOf(q), tutorProblem |-> req[q].place.tutorProblem]
<1>7. OffersHint(req[q]) => h \in HintRow /\ h # None
  <2>1. KeyOf(q) \in Key
    BY <1>1, KeyOfAttempt DEF KeyOf
  <2>2. OffersHint(req[q]) => req[q].place.tutorProblem \in TutorProblem
    BY <1>1, ConstantsAssumption DEF OffersHint, Mapped
  <2>3. OffersHint(req[q]) => h \in HintRow
    BY <1>2, <2>1, <2>2 DEF HintRow
  <2> HIDE DEF h
  <2>4. QED
    BY <2>3, NoneAssumption
<1>8. hintReqs' = IF OffersHint(req[q]) THEN [hintReqs EXCEPT ![q] = h] ELSE hintReqs
  BY DEF CommitLog
<1> HIDE DEF h
<1>81. hintReqs' \in [Request -> HintRow \cup {None}]
  BY <1>7, <1>8 DEF TypeInv, TypeOK
<1>9. \A p \in Request : hintReqs[p] # None => hintReqs'[p] # None
  BY <1>7, <1>8 DEF TypeInv, TypeOK
<1>10. QED
  BY <1>2, <1>6, <1>81, <1>9

\* Every step of the system keeps the type invariant.
LEMMA NextTypeInv == TypeInv /\ [Next]_vars => TypeInv'
<1> SUFFICES ASSUME TypeInv, [Next]_vars
             PROVE  TypeInv'
  OBVIOUS
<1> USE DEF TypeInv, TypeOK
<1>1. ASSUME NEW q \in Request, NEW a \in Attempt,
             Report(q, a) \/ \E p \in Place : Retry(q, a, p)
      PROVE  TypeInv'
  <2> PICK p \in Place, kind \in {"hint", "log"}, retry \in BOOLEAN :
             Receive(q, a, p, kind, retry) /\ (kind = "hint" => Mapped(p))
    BY <1>1, OwnKeyOfAttempt DEF Report, Retry, Route
  <2>1. /\ req'[q] \in ReqState
        /\ req' = [req EXCEPT ![q] = req'[q]]
        /\ req'[q].attempt = a /\ req'[q].place = p /\ req'[q].kind = kind
        /\ req'[q].pc \in {"grading", "count"}
        /\ req'[q].target = None
    BY EnteredType DEF Receive, Entered
  <2>2. /\ sent' \subseteq Attempt
        /\ UNCHANGED <<fetch, logs, hintReqs, lastId, graded, hinted>>
    BY <1>1 DEF Report, Retry
  <2>3. TypeOK'
    BY <2>1, <2>2
  <2>4. \A r \in Request : ReqShape(r)'
    BY <2>1, <2>2, NoneAssumption DEF ReqShape, Logged
  <2>5. QED
    BY <2>2, <2>3, <2>4 DEF FetchShape, Logged
<1>2. ASSUME NEW q \in Request, TutorGrades(q)
      PROVE  TypeInv'
  <2>1. /\ req[q].attempt \in Attempt /\ req[q].place \in Place
        /\ UNCHANGED <<sent, req, fetch, logs, hintReqs, lastId, hinted>>
    BY <1>2 DEF TutorGrades, ReqShape
  <2>2. PICK o \in TutorOutcome :
          graded' = [graded EXCEPT ![KeyOf(q)] =
                       [verdict |-> o.verdict, hint |-> o.hint,
                        of |-> req[q].place.tutorProblem]]
    BY <1>2 DEF TutorGrades
  <2>3. graded' \in [Key -> Ruling \cup {None}]
    <3>1. [verdict |-> o.verdict, hint |-> o.hint, of |-> req[q].place.tutorProblem] \in Ruling
      BY <1>2, <2>1, ConstantsAssumption DEF TutorGrades, Mapped, Ruling
    <3>2. QED
      BY <2>2, <3>1
  <2>4. QED
    BY <2>1, <2>3 DEF ReqShape, FetchShape, Logged
<1>3. ASSUME NEW q \in Request, GradeAnswered(q) \/ GradeUnanswered(q)
      PROVE  TypeInv'
  <2>1. /\ req[q].attempt \in Attempt /\ req[q].place \in Place
        /\ req[q].pc = "grading"
    BY <1>3 DEF GradeAnswered, GradeUnanswered, ReqShape
  <2>2. graded[KeyOf(q)] \in Ruling \cup {None}
    BY <2>1, KeyOfAttempt DEF KeyOf
  <2>3. req' \in [Request -> ReqState]
    BY <1>3, <2>2
    DEF GradeAnswered, GradeUnanswered, AfterGrade, ReqState, Request_pc
  <2>4. \A p \in Request : ReqShape(p)'
    BY <1>3, <2>1 DEF GradeAnswered, GradeUnanswered, AfterGrade, ReqShape, Logged, ReqState
  <2>5. QED
    BY <1>3, <2>3, <2>4 DEF GradeAnswered, GradeUnanswered, FetchShape, Logged
<1>4. ASSUME NEW q \in Request, LookUp(q)
      PROVE  TypeInv'
  <2>1. \A t \in SameAttempt(req[q].attempt, req[q].place) :
           t \in Request /\ Logged(t) /\ logs[t].verdict \in Verdict \cup {None}
    BY DEF SameAttempt, Logged, Row
  <2>2. ASSUME NEW t \in SameAttempt(req[q].attempt, req[q].place),
               req' = [req EXCEPT ![q].target = t, ![q].loaded = logs[t].verdict,
                                  ![q].pc = "commit"]
        PROVE  /\ req' \in [Request -> ReqState]
               /\ \A p \in Request : ReqShape(p)'
    <3> DEFINE r == [req[q] EXCEPT !.target = t, !.loaded = logs[t].verdict, !.pc = "commit"]
    <3>1. req' = [req EXCEPT ![q] = r]
      BY <2>2
    <3>2. /\ r \in ReqState /\ r.target = t /\ r.pc = "commit"
          /\ r.attempt = req[q].attempt /\ r.place = req[q].place /\ r.kind = req[q].kind
      BY <2>1 DEF ReqState, Request_pc
    <3>3. t # None /\ Logged(t) /\ UNCHANGED logs
      <4>1. UNCHANGED logs
        BY <1>4 DEF LookUp
      <4>2. QED
        BY <2>1, <4>1, NoneAssumption
    <3>4. req[q].attempt \in Attempt /\ req[q].place \in Place
      BY <1>4 DEF LookUp, ReqShape
    <3>5. QED
      BY <3>1, <3>2, <3>3, <3>4 DEF ReqShape, Logged
  <2>3. ASSUME req' = [req EXCEPT ![q].pc = "count"]
        PROVE  /\ req' \in [Request -> ReqState]
               /\ \A p \in Request : ReqShape(p)'
    <3>1. req' \in [Request -> ReqState]
      BY <2>3 DEF ReqState, Request_pc
    <3>2. req[q].pc = "lookup" /\ UNCHANGED logs
      BY <1>4 DEF LookUp
    <3>3. \A p \in Request : /\ req'[p].attempt = req[p].attempt
                             /\ req'[p].place = req[p].place
                             /\ req'[p].kind = req[p].kind
                             /\ req'[p].target = req[p].target
                             /\ req'[p].number = req[p].number
                             /\ req'[p].id = req[p].id
                             /\ req'[p].pc = IF p = q THEN "count" ELSE req[p].pc
      BY <2>3 DEF ReqState
    <3>4. QED
      BY <3>1, <3>2, <3>3 DEF ReqShape, Logged
  <2>4. /\ req' \in [Request -> ReqState]
        /\ \A p \in Request : ReqShape(p)'
    BY <1>4, <2>2, <2>3 DEF LookUp, IsNewest
  <2>5. QED
    BY <1>4, <2>4 DEF LookUp, FetchShape, Logged
<1>5. ASSUME NEW q \in Request, Count(q)
      PROVE  TypeInv'
  <2>1. NextAttemptNumber(req[q].attempt, req[q].place) \in Nat \ {0}
    BY <1>5, NextAttemptNumberType DEF Count, ReqShape
  <2>2. req' \in [Request -> ReqState]
    BY <1>5, <2>1 DEF Count, ReqState, Request_pc
  <2>3. \A p \in Request : ReqShape(p)'
    BY <1>5, <2>1 DEF Count, ReqShape, Logged, ReqState
  <2>4. QED
    BY <1>5, <2>2, <2>3 DEF Count, FetchShape, Logged
<1>6. ASSUME NEW q \in Request, Insert(q)
      PROVE  TypeInv'
  <2>1. req' \in [Request -> ReqState] /\ lastId' \in Nat
    BY <1>6 DEF Insert, ReqState, Request_pc
  <2>2. \A p \in Request : ReqShape(p)'
    BY <1>6 DEF Insert, ReqShape, Logged, ReqState
  <2>3. QED
    BY <1>6, <2>1, <2>2 DEF Insert, FetchShape, Logged
<1>7. ASSUME NEW q \in Request, CommitLog(q)
      PROVE  TypeInv'
  <2>1. /\ WrittenRow(q) \in Request
        /\ logs' \in [Request -> Row \cup {None}]
        /\ hintReqs' \in [Request -> HintRow \cup {None}]
        /\ \A p \in Request : Logged(p) => logs'[p] # None
        /\ logs'[WrittenRow(q)] # None
        /\ \A p \in Request : hintReqs[p] # None => hintReqs'[p] # None
    BY <1>7, CommitLogType
  <2>2. req' \in [Request -> ReqState]
    BY <1>7 DEF CommitLog, ReqState, Request_pc
  <2>3. UNCHANGED <<sent, fetch, lastId, graded, hinted>>
    BY <1>7 DEF CommitLog
  <2>4. \A p \in Request : ReqShape(p)'
    <3>1. req' = [req EXCEPT ![q].pc = "done"]
      BY <1>7 DEF CommitLog
    <3>2. \A p \in Request : /\ req'[p].attempt = req[p].attempt
                             /\ req'[p].place = req[p].place
                             /\ req'[p].kind = req[p].kind
                             /\ req'[p].target = req[p].target
                             /\ req'[p].number = req[p].number
                             /\ req'[p].id = req[p].id
                             /\ req'[p].pc = IF p = q THEN "done" ELSE req[p].pc
      BY <3>1 DEF ReqState
    <3>3. req[q].pc = "commit"
      BY <1>7 DEF CommitLog
    <3>4. \A p \in Request : req[p].target # None => req[p].target \in Request
      BY DEF ReqState
    <3>5. QED
      BY <2>1, <3>2, <3>3, <3>4 DEF ReqShape, Logged
  <2>6. \A p \in Request : hintReqs'[p] # None => logs'[hintReqs'[p].log] # None
    <3>1. ASSUME NEW p \in Request, hintReqs'[p] # None
          PROVE  hintReqs'[p] = hintReqs[p] \/ hintReqs'[p].log = WrittenRow(q)
      BY <1>7, <3>1 DEF CommitLog
    <3>2. \A p \in Request : hintReqs[p] # None => hintReqs[p].log \in Request
      BY DEF HintRow
    <3>3. \A p \in Request : hintReqs[p] # None => logs'[hintReqs[p].log] # None
      BY <2>1, <3>2
    <3>4. QED
      BY <2>1, <3>1, <3>3
  <2>7. \A f \in Fetch : FetchShape(f)'
    BY <2>1, <2>3 DEF FetchShape
  <2>8. QED
    BY <2>1, <2>2, <2>3, <2>4, <2>6, <2>7 DEF Logged
<1>8. ASSUME NEW q \in Request, RequestFails(q)
      PROVE  TypeInv'
  <2>1. req' \in [Request -> ReqState]
    BY <1>8 DEF RequestFails, ReqState, Request_pc
  <2>2. \A p \in Request : ReqShape(p)'
    BY <1>8 DEF RequestFails, ReqShape, Logged, ReqState, InFlight
  <2>3. QED
    BY <1>8, <2>1, <2>2 DEF RequestFails, FetchShape, Logged
<1>9. ASSUME NEW f \in Fetch, NEW h \in Request, AskHint(f, h)
      PROVE  TypeInv'
  <2>1. fetch' \in [Fetch -> FetchState]
    BY <1>9 DEF AskHint, FetchState, Fetch_pc
  <2>2. \A g \in Fetch : FetchShape(g)'
    BY <1>9 DEF AskHint, FetchShape, FetchState
  <2>3. QED
    BY <1>9, <2>1, <2>2 DEF AskHint, ReqShape, Logged
<1>10. ASSUME NEW f \in Fetch, TutorHints(f)
       PROVE  TypeInv'
  <2> DEFINE token == hintReqs[fetch[f].hintReq].token
             answer == IF token \in hinted THEN "cached" ELSE "generated"
  <2>0. /\ hintReqs[fetch[f].hintReq] \in HintRow
        /\ fetch' = [fetch EXCEPT ![f].pc = "answered", ![f].resp = answer]
        /\ hinted' = hinted \cup {token}
    BY <1>10 DEF TutorHints, FetchShape
  <2>1. fetch' \in [Fetch -> FetchState] /\ hinted' \subseteq Key
    <3>1. token \in Key
      BY <2>0 DEF HintRow
    <3>2. [fetch[f] EXCEPT !.pc = "answered", !.resp = answer] \in FetchState
      BY DEF FetchState, Fetch_pc
    <3>3. fetch' = [fetch EXCEPT ![f] = [fetch[f] EXCEPT !.pc = "answered", !.resp = answer]]
      BY <2>0
    <3>4. QED
      BY <2>0, <3>1, <3>2, <3>3
  <2>2. \A g \in Fetch : FetchShape(g)'
    BY <1>10, NoneAssumption DEF TutorHints, FetchShape, FetchState
  <2>3. QED
    BY <1>10, <2>1, <2>2 DEF TutorHints, ReqShape, Logged
<1>11. ASSUME NEW f \in Fetch, FetchFails(f)
       PROVE  TypeInv'
  <2>1. fetch' \in [Fetch -> FetchState]
    BY <1>11 DEF FetchFails, FetchState, Fetch_pc
  <2>2. \A g \in Fetch : FetchShape(g)'
    BY <1>11 DEF FetchFails, FetchShape, FetchState
  <2>3. QED
    BY <1>11, <2>1, <2>2 DEF FetchFails, ReqShape, Logged
<1>12. ASSUME NEW f \in Fetch, LoadRow(f)
       PROVE  TypeInv'
  <2>1. FetchedRow(f) \in Request /\ Logged(FetchedRow(f))
    BY <1>12 DEF LoadRow, FetchShape, FetchedRow, HintRow
  <2>2. logs[FetchedRow(f)] \in Row
    BY <2>1 DEF Logged
  <2>3. fetch' \in [Fetch -> FetchState]
    <3> DEFINE r == [fetch[f] EXCEPT !.pc = "loaded",
                                     !.loadedHint = logs[FetchedRow(f)].hint,
                                     !.loadedSource = logs[FetchedRow(f)].source]
    <3>1. fetch' = [fetch EXCEPT ![f] = r]
      BY <1>12 DEF LoadRow
    <3>2. r \in FetchState
      <4>1. /\ logs[FetchedRow(f)].hint \in Key \cup {None}
            /\ logs[FetchedRow(f)].source \in {"generated", "cached", None}
        BY <2>2 DEF Row
      <4>2. QED
        BY <4>1 DEF FetchState, Fetch_pc
    <3>3. QED
      BY <3>1, <3>2
  <2>4. \A g \in Fetch : FetchShape(g)'
    BY <1>12 DEF LoadRow, FetchShape, FetchState
  <2>5. QED
    BY <1>12, <2>3, <2>4 DEF LoadRow, ReqShape, Logged
<1>13. ASSUME NEW f \in Fetch, CommitHint(f)
       PROVE  TypeInv'
  <2>1. /\ fetch[f].hintReq \in Request
        /\ hintReqs[fetch[f].hintReq] \in HintRow
        /\ fetch[f].resp # None
    BY <1>13 DEF CommitHint, FetchShape, FetchState
  <2>2. FetchedRow(f) \in Request /\ Logged(FetchedRow(f))
    BY <1>13 DEF CommitHint, FetchShape, FetchedRow, HintRow
  <2>3. logs[FetchedRow(f)] \in Row
    BY <2>2 DEF Logged
  <2>4. logs' \in [Request -> Row \cup {None}]
    BY <1>13, <2>1, <2>2, <2>3, RecordHintType DEF CommitHint, HintRow
  <2>5. \A p \in Request : Logged(p) => Logged(p)'
    <3>1. RecordHint(logs[FetchedRow(f)], fetch[f], hintReqs[fetch[f].hintReq].token) \in Row
      BY <2>1, <2>3, RecordHintType DEF HintRow
    <3>2. QED
      BY <1>13, <3>1, NoneAssumption DEF CommitHint, Logged
  <2>6. fetch' \in [Fetch -> FetchState]
    BY <1>13 DEF CommitHint, FetchState, Fetch_pc
  <2>7. \A g \in Fetch : FetchShape(g)'
    BY <1>13 DEF CommitHint, FetchShape, FetchState
  <2>8. \A p \in Request : ReqShape(p)'
    BY <1>13, <2>5 DEF CommitHint, ReqShape, ReqState
  <2>9. QED
    BY <1>13, <2>4, <2>5, <2>6, <2>7, <2>8 DEF CommitHint, HintRow
<1>14. CASE UNCHANGED vars
  BY <1>14 DEF vars, ReqShape, FetchShape, Logged
<1>15. QED
  BY <1>1, <1>2, <1>3, <1>4, <1>5, <1>6, <1>7, <1>8, <1>9, <1>10, <1>11, <1>12,
     <1>13, <1>14
  DEF Next, RequestStep, FetchStep

\* Type correctness: handlers and tables hold what their declarations say.
THEOREM TypeCorrect == Spec => []TypeOK
<1>1. Init => TypeInv
  BY InitTypeInv
<1>2. TypeInv /\ [Next]_vars => TypeInv'
  BY NextTypeInv
<1>3. TypeInv => TypeOK
  BY DEF TypeInv
<1>4. QED
  BY <1>1, <1>2, <1>3, PTL DEF Spec

-----------------------------------------------------------------------------
(* What no step takes back.                                                *)

\* No step removes a row, or changes what it was inserted with, or empties its
\* verdict or hint, or withdraws a ruling of the tutor.
Kept ==
  /\ \A p \in Request : Logged(p) =>
       /\ logs'[p] # None
       /\ logs'[p].attempt = logs[p].attempt /\ logs'[p].place = logs[p].place
       /\ logs'[p].number = logs[p].number
       /\ logs'[p].id = logs[p].id
       /\ logs[p].hint # None => logs'[p].hint # None
       /\ logs[p].verdict # None => logs'[p].verdict # None
       /\ logs[p].source # None => logs'[p].source # None
  /\ \A k \in Key : graded[k] # None => graded'[k] = graded[k]

\* Storing a verdict or a hint keeps the rest of the row.
LEMMA ApplyTutorVerdictKeeps ==
  ASSUME NEW row \in Row, NEW loaded, NEW resp \in Ruling \cup {None}
  PROVE  LET new == ApplyTutorVerdict(row, loaded, resp) IN
         /\ new.attempt = row.attempt /\ new.place = row.place
         /\ new.number = row.number /\ new.id = row.id
         /\ new.hint = row.hint /\ new.source = row.source
         /\ new.verdict = row.verdict \/ (resp # None /\ new.verdict = resp.verdict)
  BY DEF ApplyTutorVerdict, Stored, Row

LEMMA RecordHintKeeps ==
  ASSUME NEW row \in Row, NEW r \in FetchState, NEW token \in Key
  PROVE  LET new == RecordHint(row, r, token) IN
         /\ new.attempt = row.attempt /\ new.place = row.place
         /\ new.number = row.number /\ new.id = row.id
         /\ new.verdict = row.verdict
         /\ new.hint = Stored(row.hint, r.loadedHint, token)
         /\ new.source = RecordedSource(row.source, r.loadedSource, r.resp)
  BY DEF RecordHint, Row

-----------------------------------------------------------------------------
(* The inductive invariant of the safety properties.                       *)

\* A row that request state r may write to: of its own attempt, or for an older
\* client of an attempt with the same query on the tutor problem it is sent under.
Alike(row, r) ==
  /\ Payload[row.attempt].user = Payload[r.attempt].user
  /\ Payload[row.attempt].query = Payload[r.attempt].query
  /\ IF Payload[r.attempt].hasId
       THEN row.attempt = r.attempt
       ELSE row.place.tutorProblem = r.place.tutorProblem

\* Request q's handler: a request for a hint about an EXAM attempt is a retry;
\* its answer is the tutor's ruling; nothing is written before the end.
ReqSafe(q) ==
  /\ req[q].kind = "hint" => /\ req[q].attempt \in Attempt
                             /\ req[q].retry \/ ~Payload[req[q].attempt].exam
  /\ req[q].retry => req[q].kind = "hint"
  /\ req[q].pc = "lookup" => req[q].retry
  /\ req[q].pc \in {"idle", "grading"} => req[q].resp = None
  /\ req[q].resp # None => req[q].resp = graded[KeyOf(q)]
  /\ req[q].pc # "done" => logs[q] = None /\ hintReqs[q] = None
  /\ req[q].target # None => Alike(logs[req[q].target], req[q])

\* The row request q inserted.
LogSafe(q) ==
  Logged(q) =>
    /\ logs[q].attempt = req[q].attempt
    /\ logs[q].place = req[q].place
    /\ AllCurrent => LET k == OwnKey(logs[q].attempt) IN
         /\ logs[q].verdict # None =>
              graded[k] # None /\ graded[k].verdict = logs[q].verdict
         /\ logs[q].hint # None =>
              /\ logs[q].hint = k
              /\ graded[k] # None
              /\ graded[k].hint
              /\ ~Payload[logs[q].attempt].exam \/ Asked(logs[q].attempt)
         /\ logs[q].hint = None <=> logs[q].source = None

\* The hint token request q stored.
HintReqSafe(q) ==
  hintReqs[q] # None =>
    /\ req[q].kind = "hint"
    /\ hintReqs[q].token = KeyOf(q)
    /\ hintReqs[q].tutorProblem = req[q].place.tutorProblem
    /\ graded[KeyOf(q)] # None
    /\ graded[KeyOf(q)].hint
    /\ Alike(logs[hintReqs[q].log], req[q])

\* What the tutor ruled of attempt a.
RulingSafe(a) ==
  AllCurrent /\ graded[OwnKey(a)] # None =>
    graded[OwnKey(a)].of = Payload[a].place.tutorProblem \/ Strayed(a)

\* The copy that fetch f's handler loaded.
FetchSafe(f) ==
  fetch[f].pc = "loaded" =>
    /\ fetch[f].loadedHint # None => logs[FetchedRow(f)].hint # None
    /\ fetch[f].loadedSource # None => logs[FetchedRow(f)].source # None

SafeInv ==
  /\ TypeInv
  /\ \A q \in Request : ReqSafe(q) /\ LogSafe(q) /\ HintReqSafe(q)
  /\ \A f \in Fetch : FetchSafe(f)
  /\ \A a \in Attempt : RulingSafe(a)

LEMMA InitSafeInv == Init => SafeInv
<1> SUFFICES ASSUME Init PROVE SafeInv
  OBVIOUS
<1>1. TypeInv
  BY InitTypeInv
<1>2. \A q \in Request : ReqSafe(q) /\ LogSafe(q) /\ HintReqSafe(q)
  BY NoneAssumption DEF Init, IdleReq, ReqSafe, LogSafe, HintReqSafe, Logged
<1>3. \A f \in Fetch : FetchSafe(f)
  BY DEF Init, IdleFetch, FetchSafe
<1>4. \A a \in Attempt : RulingSafe(a)
  BY OwnKeyOfAttempt DEF Init, RulingSafe
<1>5. QED
  BY <1>1, <1>2, <1>3, <1>4 DEF SafeInv

\* What CommitLog writes, field by field.
LEMMA CommitLogWrites ==
  ASSUME TypeInv, NEW q \in Request, CommitLog(q)
  PROVE  LET w == WrittenRow(q)
             row == IF req[q].target = None THEN NewRow(req[q]) ELSE logs[w]
             new == ApplyTutorVerdict(row, req[q].loaded, req[q].resp)
         IN /\ w \in Request /\ row \in Row /\ new \in Row /\ new # None
            /\ logs' = [logs EXCEPT ![w] = new]
            /\ new.attempt = row.attempt /\ new.place = row.place
            /\ new.number = row.number /\ new.id = row.id
            /\ new.hint = row.hint /\ new.source = row.source
            /\ \/ new.verdict = row.verdict
               \/ req[q].resp # None /\ new.verdict = req[q].resp.verdict
            /\ req[q].attempt \in Attempt /\ req[q].place \in Place
            /\ req[q].target # None => Logged(w)
<1> DEFINE w == WrittenRow(q)
           row == IF req[q].target = None THEN NewRow(req[q]) ELSE logs[w]
           new == ApplyTutorVerdict(row, req[q].loaded, req[q].resp)
<1>1. /\ req[q] \in ReqState
      /\ req[q].attempt \in Attempt /\ req[q].place \in Place
      /\ req[q].kind = "hint" => Mapped(req[q].place)
      /\ req[q].target # None => Logged(req[q].target)
      /\ req[q].target = None => req[q].number # 0 /\ req[q].id # 0
  BY DEF TypeInv, TypeOK, ReqShape, CommitLog
<1>2. w \in Request /\ (req[q].target # None => Logged(w))
  BY <1>1 DEF WrittenRow, ReqState
<1>3. CASE req[q].target = None
  <2>1. row \in Row
    BY <1>1, <1>3 DEF NewRow, Row, ReqState
  <2>2. new \in Row
    BY <1>1, <2>1, ApplyTutorVerdictType DEF ReqState
  <2>3. QED
    BY <1>1, <1>2, <2>1, <2>2, ApplyTutorVerdictKeeps, NoneAssumption
    DEF CommitLog, ReqState
<1>4. CASE req[q].target # None
  <2>1. row \in Row
    BY <1>1, <1>2, <1>4 DEF WrittenRow, Logged, TypeInv, TypeOK
  <2>2. new \in Row
    BY <1>1, <2>1, ApplyTutorVerdictType DEF ReqState
  <2>3. QED
    BY <1>1, <1>2, <2>1, <2>2, ApplyTutorVerdictKeeps, NoneAssumption
    DEF CommitLog, ReqState
<1>5. QED
  BY <1>3, <1>4

\* What CommitHint writes, field by field.
LEMMA CommitHintWrites ==
  ASSUME TypeInv, NEW f \in Fetch, CommitHint(f)
  PROVE  LET w == FetchedRow(f)
             token == hintReqs[fetch[f].hintReq].token
             new == RecordHint(logs[w], fetch[f], token)
         IN /\ w \in Request /\ Logged(w) /\ new \in Row /\ new # None
            /\ token \in Key /\ fetch[f].resp # None
            /\ fetch[f].hintReq \in Request /\ hintReqs[fetch[f].hintReq] # None
            /\ logs' = [logs EXCEPT ![w] = new]
            /\ new.attempt = logs[w].attempt /\ new.place = logs[w].place
            /\ new.number = logs[w].number
            /\ new.id = logs[w].id /\ new.verdict = logs[w].verdict
            /\ new.hint = Stored(logs[w].hint, fetch[f].loadedHint, token)
            /\ new.source =
                 RecordedSource(logs[w].source, fetch[f].loadedSource, fetch[f].resp)
<1>1. /\ fetch[f] \in FetchState
      /\ fetch[f].hintReq \in Request
      /\ hintReqs[fetch[f].hintReq] # None
      /\ fetch[f].resp # None
  BY DEF TypeInv, TypeOK, FetchShape, CommitHint
<1>2. hintReqs[fetch[f].hintReq] \in HintRow
  BY <1>1 DEF TypeInv, TypeOK
<1>3. FetchedRow(f) \in Request /\ Logged(FetchedRow(f))
  BY <1>1, <1>2 DEF FetchedRow, HintRow, TypeInv
<1>4. logs[FetchedRow(f)] \in Row /\ hintReqs[fetch[f].hintReq].token \in Key
  BY <1>2, <1>3 DEF Logged, HintRow, TypeInv, TypeOK
<1>5. RecordHint(logs[FetchedRow(f)], fetch[f], hintReqs[fetch[f].hintReq].token) \in Row
  BY <1>1, <1>4, RecordHintType
<1>6. QED
  BY <1>1, <1>3, <1>4, <1>5, RecordHintKeeps, NoneAssumption DEF CommitHint

\* Every step keeps what is logged.
LEMMA NextKept == SafeInv /\ [Next]_vars => Kept
<1> SUFFICES ASSUME SafeInv, [Next]_vars
             PROVE  Kept
  OBVIOUS
<1>1. ASSUME UNCHANGED <<logs, graded>>
      PROVE  Kept
  BY <1>1 DEF Kept, Logged
<1>2. ASSUME NEW q \in Request, TutorGrades(q)
      PROVE  Kept
  BY <1>2 DEF TutorGrades, Kept, Logged, SafeInv, TypeInv, TypeOK
<1>3. ASSUME NEW q \in Request, CommitLog(q)
      PROVE  Kept
  <2>1. UNCHANGED graded /\ logs \in [Request -> Row \cup {None}]
    BY <1>3 DEF CommitLog, SafeInv, TypeInv, TypeOK
  <2>2. req[q].target = None => ~Logged(q)
    BY <1>3 DEF CommitLog, SafeInv, ReqSafe, Logged
  <2>3. QED
    <3>1. PICK w \in Request, row \in Row, new \in Row :
            /\ w = WrittenRow(q)
            /\ row = IF req[q].target = None THEN NewRow(req[q]) ELSE logs[w]
            /\ logs' = [logs EXCEPT ![w] = new]
            /\ new.attempt = row.attempt /\ new.place = row.place
            /\ new.number = row.number /\ new.id = row.id
            /\ new.hint = row.hint /\ new.source = row.source
            /\ \/ new.verdict = row.verdict
               \/ req[q].resp # None /\ new.verdict = req[q].resp.verdict
      BY <1>3, CommitLogWrites DEF SafeInv
    <3>2. req[q].resp # None => req[q].resp.verdict # None
      BY NoneAssumption DEF SafeInv, TypeInv, TypeOK, ReqState, Ruling
    <3>3. Logged(w) => row = logs[w]
      BY <2>2, <3>1 DEF WrittenRow
    <3>4. QED
      BY <2>1, <3>1, <3>2, <3>3, NoneAssumption DEF Kept, Logged
<1>4. ASSUME NEW f \in Fetch, CommitHint(f)
      PROVE  Kept
  <2>1. UNCHANGED graded /\ logs \in [Request -> Row \cup {None}]
    BY <1>4 DEF CommitHint, SafeInv, TypeInv, TypeOK
  <2>2. /\ fetch[f].loadedHint # None => logs[FetchedRow(f)].hint # None
        /\ fetch[f].loadedSource # None => logs[FetchedRow(f)].source # None
    BY <1>4 DEF CommitHint, SafeInv, FetchSafe
  <2>3. QED
    BY <1>4, <2>1, <2>2, CommitHintWrites, NoneAssumption
    DEF Kept, Logged, Stored, RecordedSource, SafeInv
<1>5. QED
  BY <1>1, <1>2, <1>3, <1>4
  DEF Next, RequestStep, FetchStep, vars, Report, Retry, GradeAnswered, GradeUnanswered,
      LookUp, Count, Insert, RequestFails, AskHint, TutorHints, FetchFails, LoadRow

\* Requests that keep what they report leave what is known of attempts.
LEMMA ReportsKept ==
  ASSUME \A q \in Request :
           req[q].attempt \in Attempt =>
             /\ req'[q].attempt = req[q].attempt
             /\ req'[q].place = req[q].place
             /\ req[q].retry => req'[q].retry
  PROVE  \A a \in Attempt : /\ Strayed(a) => Strayed(a)'
                            /\ Asked(a) => Asked(a)'
  BY DEF Strayed, Asked

\* A step of request q's handler before its commit touches its locals only.
LEMMA HandlerStepSafe ==
  ASSUME SafeInv, TypeInv', NEW q \in Request, req[q].pc # "done",
         UNCHANGED <<logs, hintReqs, graded, fetch>>,
         \A p \in Request \ {q} : req'[p] = req[p],
         req[q].attempt \in Attempt =>
           /\ req'[q].attempt = req[q].attempt
           /\ req'[q].place = req[q].place
           /\ req[q].retry => req'[q].retry,
         ReqSafe(q)'
  PROVE  SafeInv'
<1>0. \A a \in Attempt : (Strayed(a) => Strayed(a)') /\ (Asked(a) => Asked(a)')
  BY ReportsKept
<1>1. \A p \in Request \ {q} : (ReqSafe(p) /\ LogSafe(p) /\ HintReqSafe(p))'
  <2> TAKE p \in Request \ {q}
  <2>1. ReqSafe(p) /\ LogSafe(p) /\ HintReqSafe(p) /\ UNCHANGED req[p]
    BY DEF SafeInv
  <2>2. KeyOf(p)' = KeyOf(p)
    BY <2>1 DEF KeyOf
  <2>3. (ReqSafe(p) /\ HintReqSafe(p))'
    BY <2>1, <2>2 DEF ReqSafe, HintReqSafe, Logged, Alike
  <2>4. Logged(p) => logs[p].attempt \in Attempt
    BY DEF SafeInv, TypeInv, TypeOK, Logged, Row
  <2>5. LogSafe(p)'
    BY <1>0, <2>1, <2>4 DEF LogSafe, Logged, AllCurrent, OwnKey
  <2>6. QED
    BY <2>3, <2>5
<1>2. logs[q] = None /\ hintReqs[q] = None
  BY DEF SafeInv, ReqSafe
<1>3. \A f \in Fetch : FetchSafe(f)'
  BY DEF SafeInv, FetchSafe, FetchedRow
<1>4. \A a \in Attempt : RulingSafe(a)'
  BY <1>0 DEF SafeInv, RulingSafe, AllCurrent, OwnKey
<1>5. QED
  BY <1>1, <1>2, <1>3, <1>4 DEF SafeInv, LogSafe, HintReqSafe, Logged

\* A step of a fetch's handler before its commit, likewise.
LEMMA FetchStepSafe ==
  ASSUME SafeInv, TypeInv', NEW f \in Fetch,
         UNCHANGED <<logs, hintReqs, graded, req>>,
         \A g \in Fetch \ {f} : fetch'[g] = fetch[g],
         FetchSafe(f)'
  PROVE  SafeInv'
<1>1. \A p \in Request : (ReqSafe(p) /\ LogSafe(p) /\ HintReqSafe(p))'
  BY DEF SafeInv, ReqSafe, LogSafe, HintReqSafe, Logged, KeyOf, Asked
<1>2. \A g \in Fetch \ {f} : FetchSafe(g)'
  BY DEF SafeInv, FetchSafe, FetchedRow
<1>3. \A a \in Attempt : RulingSafe(a)'
  BY DEF SafeInv, RulingSafe, Strayed
<1>4. QED
  BY <1>1, <1>2, <1>3 DEF SafeInv

\* A submission id of a current client names one attempt.
LEMMA KeyInjective ==
  ASSUME AllCurrent, NEW a \in Attempt, NEW b \in Attempt, OwnKey(a) = OwnKey(b)
  PROVE  a = b
  BY DEF OwnKey, SubmissionKey, AllCurrent

LEMMA TutorGradesSafe ==
  ASSUME SafeInv, TypeInv', NEW q \in Request, TutorGrades(q)
  PROVE  SafeInv'
<1>1. /\ UNCHANGED <<req, logs, hintReqs, fetch>>
      /\ \A k \in Key : graded[k] # None => graded'[k] = graded[k]
  BY NextKept DEF TutorGrades, Kept, Next
<1>2. \A p \in Request : Logged(p) => OwnKey(logs[p].attempt) \in Key
  BY OwnKeyOfAttempt DEF SafeInv, TypeInv, TypeOK, Row, Logged
<1>3. \A p \in Request : req[p].pc # "idle" => KeyOf(p) \in Key /\ KeyOf(p)' = KeyOf(p)
  BY <1>1, KeyOfAttempt DEF SafeInv, TypeInv, ReqShape, KeyOf
<1>4. \A p \in Request : /\ req[p].resp # None => req[p].pc # "idle"
                         /\ hintReqs[p] # None => req[p].pc # "idle"
  BY DEF SafeInv, ReqSafe
<1>5. \A p \in Request : ReqSafe(p)'
  BY <1>1, <1>3, <1>4 DEF SafeInv, ReqSafe
<1>6. \A p \in Request : LogSafe(p)'
  BY <1>1, <1>2 DEF SafeInv, LogSafe, Logged, Asked
<1>7. \A p \in Request : HintReqSafe(p)'
  BY <1>1, <1>3, <1>4 DEF SafeInv, HintReqSafe
<1>8. ASSUME NEW a \in Attempt, AllCurrent, graded'[OwnKey(a)] # None
      PROVE  graded'[OwnKey(a)].of = Payload[a].place.tutorProblem \/ Strayed(a)
  <2>1. CASE graded[OwnKey(a)] # None
    BY <1>1, <1>8, <2>1, OwnKeyOfAttempt DEF SafeInv, RulingSafe
  <2>2. CASE graded[OwnKey(a)] = None
    <3>1. PICK b \in Attempt : b = req[q].attempt
      BY DEF TutorGrades, SafeInv, TypeInv, ReqShape
    <3>2. req[q].place \in Place
      BY DEF TutorGrades, SafeInv, TypeInv, ReqShape
    <3>3. KeyOf(q) = OwnKey(b) /\ OwnKey(b) \in Key /\ OwnKey(a) \in Key
      BY <1>8, <3>1, <3>2, OwnKeyOfAttempt DEF KeyOf
    <3>4. PICK o \in TutorOutcome :
            graded' = [graded EXCEPT ![KeyOf(q)] =
                         [verdict |-> o.verdict, hint |-> o.hint,
                          of |-> req[q].place.tutorProblem]]
      BY DEF TutorGrades
    <3>5. graded \in [Key -> Ruling \cup {None}]
      BY DEF SafeInv, TypeInv, TypeOK
    <3>6. OwnKey(a) = OwnKey(b)
      BY <1>8, <2>2, <3>3, <3>4, <3>5
    <3>7. a = b
      BY <1>8, <3>6, KeyInjective
    <3>8. graded'[OwnKey(a)].of = req[q].place.tutorProblem
      BY <3>3, <3>4, <3>5, <3>6
    <3>9. QED
      BY <3>1, <3>7, <3>8 DEF Strayed
  <2>3. QED
    BY <2>1, <2>2
<1>9. \A a \in Attempt : RulingSafe(a)'
  BY <1>1, <1>8 DEF RulingSafe, AllCurrent, OwnKey, Strayed
<1>10. QED
  BY <1>1, <1>5, <1>6, <1>7, <1>9 DEF SafeInv, FetchSafe, FetchedRow

LEMMA CommitLogSafe ==
  ASSUME SafeInv, TypeInv', NEW q \in Request, CommitLog(q)
  PROVE  SafeInv'
<1> PICK w \in Request : w = WrittenRow(q)
  BY CommitLogWrites DEF SafeInv
<1> DEFINE row == IF req[q].target = None THEN NewRow(req[q]) ELSE logs[w]
           new == ApplyTutorVerdict(row, req[q].loaded, req[q].resp)
           a == req[q].attempt
<1>1. /\ w \in Request /\ row \in Row /\ new \in Row /\ new # None
      /\ logs' = [logs EXCEPT ![w] = new]
      /\ new.attempt = row.attempt /\ new.place = row.place
      /\ new.hint = row.hint /\ new.source = row.source
      /\ \/ new.verdict = row.verdict
         \/ req[q].resp # None /\ new.verdict = req[q].resp.verdict
      /\ a \in Attempt /\ req[q].place \in Place
      /\ req[q].target # None => Logged(w)
  BY CommitLogWrites DEF SafeInv
<1>2. /\ UNCHANGED <<graded, fetch>>
      /\ req' = [req EXCEPT ![q].pc = "done"]
      /\ req[q].pc = "commit"
      /\ \A p \in Request \ {q} : hintReqs'[p] = hintReqs[p]
      /\ hintReqs'[q] = IF OffersHint(req[q])
                           THEN [log |-> w, token |-> KeyOf(q),
                                 tutorProblem |-> req[q].place.tutorProblem]
                           ELSE hintReqs[q]
  BY DEF CommitLog, SafeInv, TypeInv, TypeOK
<1>3. \A p \in Request : /\ req'[p].attempt = req[p].attempt
                         /\ req'[p].place = req[p].place
                         /\ req'[p].kind = req[p].kind
                         /\ req'[p].retry = req[p].retry
                         /\ req'[p].resp = req[p].resp
                         /\ req'[p].target = req[p].target
                         /\ req'[p].pc = IF p = q THEN "done" ELSE req[p].pc
  BY <1>2 DEF SafeInv, TypeInv, TypeOK, ReqState
<1>31. /\ \A p \in Request : KeyOf(p)' = KeyOf(p)
       /\ \A b \in Attempt : (Strayed(b) => Strayed(b)') /\ (Asked(b) => Asked(b)')
  BY <1>3, ReportsKept DEF KeyOf
<1>4. logs[q] = None /\ hintReqs[q] = None /\ ReqSafe(q)
  BY <1>2 DEF SafeInv, ReqSafe
<1>5. /\ req[q].target = None => w = q /\ row = NewRow(req[q])
      /\ req[q].target # None => w = req[q].target /\ w # q /\ row = logs[w]
  BY <1>1, <1>4 DEF WrittenRow, Logged
<1>6. Alike(row, req[q])
  BY <1>4, <1>5 DEF ReqSafe, NewRow, Alike
<1>7. \A p \in Request : Logged(p) => /\ logs'[p] # None
                                      /\ logs'[p].attempt = logs[p].attempt
                                      /\ logs'[p].place = logs[p].place
  BY <1>1, <1>4, <1>5 DEF Logged, SafeInv, TypeInv, TypeOK
<1>8. logs \in [Request -> Row \cup {None}]
  BY DEF SafeInv, TypeInv, TypeOK
<1>9. \A p \in Request : ReqSafe(p)'
  <2>1. ASSUME NEW p \in Request, req[p].target # None
        PROVE  /\ logs'[req[p].target].attempt = logs[req[p].target].attempt
               /\ logs'[req[p].target].place = logs[req[p].target].place
    BY <1>7, <2>1 DEF SafeInv, TypeInv, TypeOK, ReqShape, ReqState
  <2>2. ASSUME NEW p \in Request, req[p].pc # "done", p # q
        PROVE  p # w /\ logs'[p] = None /\ hintReqs'[p] = None
    <3>1. logs[p] = None /\ hintReqs[p] = None
      BY <2>2 DEF SafeInv, ReqSafe
    <3>2. p # w
      BY <1>1, <1>5, <2>2, <3>1 DEF Logged
    <3>3. QED
      BY <1>1, <1>2, <1>8, <2>2, <3>1, <3>2
  <2>3. \A p \in Request : ReqSafe(p)
    BY DEF SafeInv
  <2>4. QED
    BY <1>2, <1>3, <1>31, <2>1, <2>2, <2>3 DEF ReqSafe, Alike
<1>10. \A p \in Request : LogSafe(p)'
  <2>1. \A p \in Request \ {w} : logs'[p] = logs[p]
    BY <1>1, <1>8
  <2>2. logs'[w] = new
    BY <1>1, <1>8
  <2>3. \A p \in Request \ {w} : LogSafe(p)'
    <3> TAKE p \in Request \ {w}
    <3>1. LogSafe(p) /\ (Logged(p) => logs[p].attempt \in Attempt)
      BY <1>8 DEF SafeInv, Logged, Row
    <3>2. QED
      BY <1>2, <1>3, <1>31, <2>1, <3>1 DEF LogSafe, Logged, AllCurrent, OwnKey
  <2>4. row.attempt = req[w].attempt /\ row.place = req[w].place
    BY <1>1, <1>5 DEF NewRow, SafeInv, LogSafe
  <2>5. ASSUME AllCurrent
        PROVE  LET k == OwnKey(row.attempt) IN
               /\ new.verdict # None => graded[k] # None /\ graded[k].verdict = new.verdict
               /\ row.hint # None => /\ row.hint = k
                                     /\ graded[k] # None
                                     /\ graded[k].hint
                                     /\ \/ ~Payload[row.attempt].exam
                                        \/ Asked(row.attempt)
               /\ row.hint = None <=> row.source = None
    <3>1. row.attempt = a
      BY <1>1, <1>6, <2>5 DEF Alike, AllCurrent
    <3>2. req[q].resp # None => req[q].resp = graded[OwnKey(a)]
      BY <1>1, <1>4, <2>5, OwnKeyOfAttempt DEF ReqSafe, KeyOf
    <3>3. CASE req[q].target = None
      BY <1>1, <1>5, <3>1, <3>2, <3>3 DEF NewRow
    <3>4. CASE req[q].target # None
      BY <1>1, <1>5, <2>5, <3>1, <3>2, <3>4 DEF SafeInv, LogSafe
    <3>5. QED
      BY <3>3, <3>4
  <2>6. LogSafe(w)'
    <3>1. PICK b \in Attempt : b = row.attempt
      BY <1>1 DEF Row
    <3>2. /\ logs'[w].attempt = b /\ logs'[w].attempt = req'[w].attempt
          /\ logs'[w].place = req'[w].place
          /\ logs'[w].verdict = new.verdict
          /\ logs'[w].hint = row.hint /\ logs'[w].source = row.source
      BY <1>1, <1>3, <2>2, <2>4, <3>1
    <3>3. ASSUME AllCurrent
          PROVE  /\ logs'[w].verdict # None =>
                      /\ graded[OwnKey(b)] # None
                      /\ graded[OwnKey(b)].verdict = logs'[w].verdict
                 /\ logs'[w].hint # None =>
                      /\ logs'[w].hint = OwnKey(b)
                      /\ graded[OwnKey(b)] # None
                      /\ graded[OwnKey(b)].hint
                      /\ ~Payload[b].exam \/ Asked(b)
                 /\ logs'[w].hint = None <=> logs'[w].source = None
      <4> HIDE DEF new, row
      <4>1. QED
        BY <2>5, <3>1, <3>2, <3>3
    <3>4. graded' = graded /\ OwnKey(b)' = OwnKey(b) /\ (Asked(b) => Asked(b)')
      BY <1>2, <1>31 DEF OwnKey
    <3> HIDE DEF new, row
    <3>5. QED
      BY <3>2, <3>3, <3>4 DEF LogSafe, Logged, AllCurrent, OwnKey
  <2>7. QED
    BY <2>3, <2>6
<1>11. \A p \in Request : HintReqSafe(p)'
  <2>1. ASSUME NEW p \in Request, p # q
        PROVE  HintReqSafe(p)'
    <3>1. hintReqs[p] # None => hintReqs[p].log \in Request /\ Logged(hintReqs[p].log)
      BY DEF SafeInv, TypeInv, TypeOK, HintRow
    <3>2. HintReqSafe(p)
      BY DEF SafeInv
    <3>3. QED
      BY <1>2, <1>3, <1>31, <1>7, <2>1, <3>1, <3>2 DEF HintReqSafe, Alike
  <2>2. HintReqSafe(q)'
    <3>1. CASE OffersHint(req[q])
      <4>1. /\ hintReqs'[q].log = w /\ hintReqs'[q].token = KeyOf(q)
            /\ hintReqs'[q].tutorProblem = req[q].place.tutorProblem
        BY <1>2, <3>1
      <4>2. logs'[w].attempt = row.attempt /\ logs'[w].place = row.place
        BY <1>1, <1>8
      <4>3. QED
        BY <1>2, <1>3, <1>31, <1>4, <1>6, <3>1, <4>1, <4>2
        DEF OffersHint, ReqSafe, HintReqSafe, Alike
    <3>2. CASE ~OffersHint(req[q])
      BY <1>2, <1>4, <3>2 DEF HintReqSafe
    <3>3. QED
      BY <3>1, <3>2
  <2>3. QED
    BY <2>1, <2>2
<1>12. \A f \in Fetch : FetchSafe(f)'
  <2>1. ASSUME NEW f \in Fetch, fetch[f].pc = "loaded"
        PROVE  /\ hintReqs[fetch[f].hintReq] # None
               /\ fetch[f].hintReq \in Request
               /\ FetchedRow(f) \in Request
               /\ Logged(FetchedRow(f))
    BY <2>1 DEF SafeInv, TypeInv, TypeOK, FetchShape, FetchedRow, HintRow
  <2>2. \A p \in Request : Logged(p) =>
          logs'[p].hint = logs[p].hint /\ logs'[p].source = logs[p].source
    BY <1>1, <1>4, <1>5, <1>8 DEF Logged
  <2>3. ASSUME NEW f \in Fetch, fetch[f].pc = "loaded"
        PROVE  FetchedRow(f)' = FetchedRow(f)
    BY <1>2, <1>4, <2>1, <2>3 DEF FetchedRow
  <2>4. QED
    BY <1>2, <2>1, <2>2, <2>3 DEF SafeInv, FetchSafe
<1>13. \A b \in Attempt : RulingSafe(b)'
  BY <1>2, <1>31 DEF SafeInv, RulingSafe, AllCurrent, OwnKey
<1>14. QED
  BY <1>9, <1>10, <1>11, <1>12, <1>13 DEF SafeInv

LEMMA CommitHintSafe ==
  ASSUME SafeInv, TypeInv', NEW f \in Fetch, CommitHint(f)
  PROVE  SafeInv'
<1> PICK w \in Request : w = FetchedRow(f)
  BY CommitHintWrites DEF SafeInv
<1> DEFINE h == fetch[f].hintReq
           new == RecordHint(logs[w], fetch[f], hintReqs[h].token)
<1>1. /\ w \in Request /\ Logged(w) /\ new \in Row /\ new # None
      /\ hintReqs[h].token \in Key /\ fetch[f].resp # None
      /\ h \in Request /\ hintReqs[h] # None
      /\ logs' = [logs EXCEPT ![w] = new]
      /\ new.attempt = logs[w].attempt /\ new.place = logs[w].place
      /\ new.verdict = logs[w].verdict
      /\ new.hint = Stored(logs[w].hint, fetch[f].loadedHint, hintReqs[h].token)
      /\ new.source = RecordedSource(logs[w].source, fetch[f].loadedSource, fetch[f].resp)
  BY CommitHintWrites DEF SafeInv
<1>2. /\ UNCHANGED <<req, hintReqs, graded>>
      /\ fetch' = [fetch EXCEPT ![f].pc = "done"]
      /\ fetch[f].pc = "loaded"
  BY DEF CommitHint
<1>3. /\ logs \in [Request -> Row \cup {None}]
      /\ \A p \in Request \ {w} : logs'[p] = logs[p]
      /\ logs'[w] = new
  BY <1>1 DEF SafeInv, TypeInv, TypeOK
<1>4. FetchSafe(f) /\ LogSafe(w) /\ HintReqSafe(h) /\ ReqSafe(h)
  BY <1>1 DEF SafeInv
<1>5. new.hint # None /\ new.source # None
  BY <1>1, <1>2, <1>4, NoneAssumption DEF FetchSafe, Stored, RecordedSource
<1>6. LogSafe(w)'
  <2>1. ASSUME AllCurrent
        PROVE  LET k == OwnKey(logs[w].attempt) IN
               /\ hintReqs[h].token = k
               /\ new.hint = k
               /\ graded[k] # None
               /\ graded[k].hint
               /\ ~Payload[logs[w].attempt].exam \/ Asked(logs[w].attempt)
    <3>1. req[h].attempt \in Attempt /\ req[h].place \in Place
      BY <1>1, <1>4 DEF HintReqSafe, ReqSafe, SafeInv, TypeInv, ReqShape
    <3>2. logs[w].attempt = req[h].attempt
      BY <1>1, <1>4, <2>1, <3>1 DEF HintReqSafe, Alike, FetchedRow, AllCurrent
    <3>3. logs[w].hint # None => logs[w].hint = OwnKey(logs[w].attempt)
      BY <1>1, <1>4, <2>1 DEF LogSafe
    <3>4. KeyOf(h) = OwnKey(logs[w].attempt)
      BY <2>1, <3>1, <3>2, OwnKeyOfAttempt DEF KeyOf
    <3>5. ~Payload[logs[w].attempt].exam \/ Asked(logs[w].attempt)
      BY <1>1, <1>4, <3>2 DEF HintReqSafe, ReqSafe, Asked
    <3>6. QED
      BY <1>1, <1>2, <1>4, <3>3, <3>4, <3>5 DEF HintReqSafe, Stored, FetchSafe
  <2>2. QED
    BY <1>1, <1>2, <1>3, <1>4, <1>5, <2>1 DEF LogSafe, Logged, AllCurrent, OwnKey, Asked
<1>7. \A p \in Request : LogSafe(p)'
  BY <1>2, <1>3, <1>6 DEF SafeInv, LogSafe, Logged, Asked
<1>8. \A p \in Request : Logged(p) =>
        /\ logs'[p].attempt = logs[p].attempt
        /\ logs'[p].place = logs[p].place
        /\ logs[p].hint # None => logs'[p].hint # None
        /\ logs[p].source # None => logs'[p].source # None
  BY <1>1, <1>3, <1>5
<1>9. \A p \in Request : logs[p] = None => logs'[p] = None
  BY <1>1, <1>3 DEF Logged
<1>10. \A p \in Request : ReqSafe(p)'
  BY <1>2, <1>8, <1>9 DEF SafeInv, ReqSafe, TypeInv, ReqShape, TypeOK, ReqState, Alike, KeyOf
<1>11. \A p \in Request : HintReqSafe(p)'
  BY <1>2, <1>8 DEF SafeInv, HintReqSafe, TypeInv, TypeOK, HintRow, Alike, KeyOf
<1>12. \A g \in Fetch : FetchSafe(g)'
  <2>1. ASSUME NEW g \in Fetch, fetch'[g].pc = "loaded"
        PROVE  /\ fetch'[g] = fetch[g]
               /\ FetchedRow(g)' = FetchedRow(g)
               /\ FetchedRow(g) \in Request /\ Logged(FetchedRow(g))
    BY <1>2, <2>1 DEF SafeInv, TypeInv, TypeOK, FetchShape, FetchState, FetchedRow, HintRow
  <2>2. QED
    BY <1>8, <2>1 DEF SafeInv, FetchSafe
<1>13. \A a \in Attempt : RulingSafe(a)'
  BY <1>2 DEF SafeInv, RulingSafe, Strayed
<1>14. QED
  BY <1>7, <1>10, <1>11, <1>12, <1>13 DEF SafeInv

LEMMA NextSafeInv == SafeInv /\ [Next]_vars => SafeInv'
<1> SUFFICES ASSUME SafeInv, [Next]_vars
             PROVE  SafeInv'
  OBVIOUS
<1>1. TypeInv' /\ TypeInv
  BY NextTypeInv DEF SafeInv
<1>2. req \in [Request -> ReqState] /\ fetch \in [Fetch -> FetchState]
  BY <1>1 DEF TypeInv, TypeOK
<1>3. ASSUME UNCHANGED vars
      PROVE  SafeInv'
  BY <1>1, <1>3
  DEF vars, SafeInv, ReqSafe, LogSafe, HintReqSafe, FetchSafe, FetchedRow, RulingSafe,
      Logged, KeyOf, Strayed, Asked
<1>4. ASSUME NEW q \in Request, NEW a \in Attempt,
             Report(q, a) \/ \E p \in Place : Retry(q, a, p)
      PROVE  SafeInv'
  <2>1. PICK at \in Place, kind \in {"hint", "log"}, retry \in BOOLEAN :
          /\ Receive(q, a, at, kind, retry)
          /\ kind = "hint" => retry \/ ~Payload[a].exam
          /\ retry => kind = "hint" /\ Mapped(at)
    <3>1. CASE Report(q, a)
      BY <3>1, PayloadOfAttempt DEF Report, Route, PayloadType
    <3>2. CASE \E p \in Place : Retry(q, a, p)
      BY <3>2 DEF Retry
    <3>3. QED
      BY <1>4, <3>1, <3>2
  <2>2. /\ req[q].pc = "idle"
        /\ \A p \in Request \ {q} : req'[p] = req[p]
        /\ req'[q] = Entered(a, at, kind, retry)
        /\ UNCHANGED <<logs, hintReqs, graded, fetch>>
    BY <1>2, <1>4, <2>1 DEF Report, Retry, Receive
  <2>3. logs[q] = None /\ hintReqs[q] = None
    BY <2>2 DEF SafeInv, ReqSafe
  <2>4. ReqSafe(q)'
    BY <2>1, <2>2, <2>3 DEF ReqSafe, Entered
  <2>5. req[q].attempt \notin Attempt
    BY <1>1, <2>2, NoneAssumption DEF TypeInv, ReqShape
  <2>6. QED
    BY <1>1, <2>2, <2>4, <2>5, HandlerStepSafe
<1>5. ASSUME NEW q \in Request, TutorGrades(q)
      PROVE  SafeInv'
  BY <1>1, <1>5, TutorGradesSafe
<1>6. ASSUME NEW q \in Request,
             \/ GradeAnswered(q) \/ GradeUnanswered(q) \/ LookUp(q)
             \/ Count(q) \/ Insert(q) \/ RequestFails(q)
      PROVE  SafeInv'
  <2>1. /\ UNCHANGED <<logs, hintReqs, graded, fetch>>
        /\ \A p \in Request \ {q} : req'[p] = req[p]
        /\ InFlight(q) /\ req[q] \in ReqState
    BY <1>2, <1>6
    DEF GradeAnswered, GradeUnanswered, LookUp, Count, Insert, RequestFails, InFlight
  <2>2. /\ req'[q].attempt = req[q].attempt
        /\ req'[q].place = req[q].place
        /\ req'[q].kind = req[q].kind
        /\ req'[q].retry = req[q].retry
        /\ req'[q].pc \notin {"idle", "grading"}
        /\ req'[q].pc = "lookup" => req[q].retry
        /\ \/ req'[q].resp = req[q].resp
           \/ req'[q].resp = graded[KeyOf(q)]
        /\ \/ req'[q].target = req[q].target
           \/ req'[q].target \in SameAttempt(req[q].attempt, req[q].place)
    <3>1. CASE GradeAnswered(q)
      BY <1>2, <2>1, <3>1 DEF GradeAnswered, AfterGrade, ReqState
    <3>2. CASE GradeUnanswered(q)
      BY <1>2, <2>1, <3>2 DEF GradeUnanswered, AfterGrade, ReqState
    <3>3. CASE LookUp(q)
      <4>1. CASE req' = [req EXCEPT ![q].pc = "count"]
        BY <1>2, <2>1, <3>3, <4>1 DEF LookUp, ReqState
      <4>2. CASE \E t \in SameAttempt(req[q].attempt, req[q].place) :
                   req' = [req EXCEPT ![q].target = t, ![q].loaded = logs[t].verdict,
                                      ![q].pc = "commit"]
        BY <1>2, <2>1, <4>2 DEF ReqState
      <4>3. QED
        BY <3>3, <4>1, <4>2 DEF LookUp
    <3>4. CASE Count(q)
      BY <1>2, <2>1, <3>4 DEF Count, ReqState
    <3>5. CASE Insert(q)
      BY <1>2, <2>1, <3>5 DEF Insert, ReqState
    <3>6. CASE RequestFails(q)
      BY <1>2, <2>1, <3>6 DEF RequestFails, ReqState
    <3>7. QED
      BY <1>6, <3>1, <3>2, <3>3, <3>4, <3>5, <3>6
  <2>3. req[q].attempt \in Attempt
    BY <1>1, <2>1 DEF InFlight, TypeInv, ReqShape
  <2>4. \A t \in SameAttempt(req[q].attempt, req[q].place) : Alike(logs[t], req[q])
    BY <2>3 DEF SameAttempt, Alike
  <2>5. ReqSafe(q) /\ req[q].pc # "done"
    BY <2>1 DEF SafeInv, InFlight
  <2>6. ReqSafe(q)'
    BY <2>1, <2>2, <2>4, <2>5 DEF ReqSafe, Alike, KeyOf
  <2>7. QED
    BY <1>1, <2>1, <2>2, <2>5, <2>6, HandlerStepSafe
<1>7. ASSUME NEW q \in Request, CommitLog(q)
      PROVE  SafeInv'
  BY <1>1, <1>7, CommitLogSafe
<1>8. ASSUME NEW f \in Fetch,
             (\E h \in Request : AskHint(f, h)) \/ TutorHints(f) \/ FetchFails(f)
      PROVE  SafeInv'
  <2>1. /\ UNCHANGED <<logs, hintReqs, graded, req>>
        /\ \A g \in Fetch \ {f} : fetch'[g] = fetch[g]
        /\ fetch'[f].pc # "loaded"
    BY <1>2, <1>8 DEF AskHint, TutorHints, FetchFails, FetchState
  <2>2. FetchSafe(f)'
    BY <2>1 DEF FetchSafe
  <2>3. QED
    BY <1>1, <2>1, <2>2, FetchStepSafe
<1>9. ASSUME NEW f \in Fetch, LoadRow(f)
      PROVE  SafeInv'
  <2>1. /\ UNCHANGED <<logs, hintReqs, graded, req>>
        /\ \A g \in Fetch \ {f} : fetch'[g] = fetch[g]
        /\ fetch'[f].hintReq = fetch[f].hintReq
        /\ fetch'[f].loadedHint = logs[FetchedRow(f)].hint
        /\ fetch'[f].loadedSource = logs[FetchedRow(f)].source
    BY <1>2, <1>9 DEF LoadRow, FetchState
  <2>2. FetchedRow(f)' = FetchedRow(f)
    BY <2>1 DEF FetchedRow
  <2>3. FetchSafe(f)'
    BY <2>1, <2>2 DEF FetchSafe
  <2>4. QED
    BY <1>1, <2>1, <2>3, FetchStepSafe
<1>10. ASSUME NEW f \in Fetch, CommitHint(f)
      PROVE  SafeInv'
  BY <1>1, <1>10, CommitHintSafe
<1>11. QED
  BY <1>3, <1>4, <1>5, <1>6, <1>7, <1>8, <1>9, <1>10 DEF Next, RequestStep, FetchStep

LEMMA SafeInvHolds == Spec => []SafeInv
<1>1. QED
  BY InitSafeInv, NextSafeInv, PTL DEF Spec

-----------------------------------------------------------------------------
(* The safety properties.                                                  *)

\* A hint_requests row points at a logged row of the same student and query, for
\* a current client that of the very attempt; both name one tutor problem unless
\* a retry of the attempt was sent under another, and an EXAM attempt has one only
\* by a retry (submissions.py:123-138, 159-167).
THEOREM HintRequestsOwned == Spec => []HintRequestOwnsRow
<1>1. SafeInv => HintRequestOwnsRow
  <2> SUFFICES ASSUME SafeInv, NEW q \in Request, hintReqs[q] # None
               PROVE  /\ Logged(hintReqs[q].log)
                      /\ LET a == req[q].attempt
                             row == logs[hintReqs[q].log]
                         IN /\ Payload[row.attempt].user = Payload[a].user
                            /\ Payload[row.attempt].query = Payload[a].query
                            /\ Payload[a].hasId => row.attempt = a
                            /\ \/ hintReqs[q].tutorProblem = row.place.tutorProblem
                               \/ Payload[a].hasId /\ Strayed(a)
                            /\ ~Payload[a].exam \/ req[q].retry
    BY DEF HintRequestOwnsRow
  <2>1. HintReqSafe(q) /\ ReqSafe(q)
    BY DEF SafeInv
  <2>2. PICK w \in Request : w = hintReqs[q].log
    BY DEF SafeInv, TypeInv, TypeOK, HintRow
  <2>3. Logged(w) /\ LogSafe(w)
    BY <2>2 DEF SafeInv, TypeInv
  <2>4. /\ req[q].attempt \in Attempt
        /\ Alike(logs[w], req[q])
        /\ ~Payload[req[q].attempt].exam \/ req[q].retry
        /\ hintReqs[q].tutorProblem = req[q].place.tutorProblem
    BY <2>1, <2>2 DEF HintReqSafe, ReqSafe
  <2>5. CASE Payload[req[q].attempt].hasId
    <3>1. logs[w].attempt = req[q].attempt
      BY <2>4, <2>5 DEF Alike
    <3>2. req[w].attempt = req[q].attempt /\ logs[w].place = req[w].place
      BY <2>3, <3>1 DEF LogSafe
    <3>3. \/ hintReqs[q].tutorProblem = logs[w].place.tutorProblem
          \/ Strayed(req[q].attempt)
      BY <2>4, <3>2 DEF Strayed
    <3>4. QED
      BY <2>2, <2>3, <2>4, <2>5, <3>1, <3>3 DEF Alike
  <2>6. CASE ~Payload[req[q].attempt].hasId
    BY <2>2, <2>3, <2>4, <2>6 DEF Alike
  <2>7. QED
    BY <2>5, <2>6
<1>2. QED
  BY <1>1, SafeInvHolds, PTL

\* With current clients a row's verdict is the tutor's ruling on that row's own
\* attempt, whatever retries and late answers interleave, and of the problem the
\* row names unless a retry strayed (submissions.py:80-88).
THEOREM VerdictsAreTutors == Spec => []VerdictIsTutors
<1>1. SafeInv => VerdictIsTutors
  <2> SUFFICES ASSUME SafeInv, AllCurrent, NEW q \in Request,
                      Logged(q), logs[q].verdict # None
               PROVE  LET ruling == graded[OwnKey(logs[q].attempt)] IN
                        /\ ruling # None
                        /\ ruling.verdict = logs[q].verdict
                        /\ \/ ruling.of = logs[q].place.tutorProblem
                           \/ Strayed(logs[q].attempt)
    BY DEF VerdictIsTutors
  <2>1. PICK a \in Attempt : a = logs[q].attempt
    BY DEF SafeInv, TypeInv, TypeOK, Logged, Row
  <2>2. /\ req[q].attempt = a /\ logs[q].place = req[q].place
        /\ graded[OwnKey(a)] # None /\ graded[OwnKey(a)].verdict = logs[q].verdict
    BY <2>1 DEF SafeInv, LogSafe
  <2>3. graded[OwnKey(a)].of = Payload[a].place.tutorProblem \/ Strayed(a)
    BY <2>2 DEF SafeInv, RulingSafe
  <2>4. \/ logs[q].place.tutorProblem = Payload[a].place.tutorProblem
        \/ Strayed(a)
    BY <2>2 DEF Strayed
  <2>5. QED
    BY <2>1, <2>2, <2>3, <2>4
<1>2. QED
  BY <1>1, SafeInvHolds, PTL

\* With current clients a row's hint text is that of its own attempt, one the
\* tutor offered a hint for; an EXAM attempt has one only after a retry
\* (submissions.py:226-236).
THEOREM HintsAreOwn == Spec => []HintIsOwn
<1>1. SafeInv => HintIsOwn
  BY DEF SafeInv, LogSafe, HintIsOwn
<1>2. QED
  BY <1>1, SafeInvHolds, PTL

\* No step removes a row, renumbers it, files it elsewhere, or changes the
\* verdict it has (submissions.py:80-88, 153).
THEOREM RowsAreKept == Spec => RowsKept
<1>1. SafeInv /\ SafeInv' /\ [Next]_vars => [\A q \in Request : RowKept(q)]_vars
  <2> SUFFICES ASSUME SafeInv, SafeInv', [Next]_vars, NEW q \in Request, Logged(q)
               PROVE  RowKept(q)
    BY DEF RowKept
  <2>1. Kept
    BY NextKept
  <2>2. /\ logs'[q] # None /\ logs'[q].attempt = logs[q].attempt
        /\ logs'[q].place = logs[q].place
        /\ logs'[q].number = logs[q].number /\ logs'[q].id = logs[q].id
        /\ logs[q].hint # None => logs'[q].hint # None
        /\ logs[q].verdict # None => logs'[q].verdict # None
    BY <2>1 DEF Kept
  <2>3. PICK a \in Attempt : a = logs[q].attempt
    BY DEF SafeInv, TypeInv, TypeOK, Row, Logged
  <2>4. graded[OwnKey(a)] # None => graded'[OwnKey(a)] = graded[OwnKey(a)]
    BY <2>1, OwnKeyOfAttempt DEF Kept
  <2>5. ASSUME AllCurrent, logs[q].verdict # None
        PROVE  logs'[q].verdict = logs[q].verdict
    <3>1. /\ graded[OwnKey(a)] # None
          /\ graded[OwnKey(a)].verdict = logs[q].verdict
      BY <2>3, <2>5 DEF SafeInv, LogSafe
    <3>2. graded'[OwnKey(a)].verdict = logs'[q].verdict
      <4>1. LogSafe(q)'
        BY DEF SafeInv
      <4>2. QED
        BY <2>2, <2>3, <2>5, <4>1 DEF LogSafe, Logged, AllCurrent, OwnKey
    <3>3. QED
      BY <2>4, <3>1, <3>2
  <2>6. QED
    BY <2>2, <2>5 DEF RowKept
<1>2. QED
  BY <1>1, SafeInvHolds, PTL DEF RowsKept, Spec

-----------------------------------------------------------------------------
(* Attempt numbers.                                                        *)

\* A count that a handler still holds is at most the count it would take now.
CountSafe(q) ==
  /\ req[q].pc \in {"insert", "commit"}
  /\ req[q].target = None
  /\ req[q].place.group # None
  => req[q].number <= Cardinality(CountedWith(req[q].attempt, req[q].place)) + 1

NumberInv == NumberWithinCount /\ \A q \in Request : CountSafe(q)

\* The rows counted with an attempt are finitely many, and a step that keeps
\* the log leaves at least as many.
LEMMA CountGrows ==
  ASSUME Kept, NEW a \in Attempt, NEW at \in Place
  PROVE  /\ CountedWith(a, at) \subseteq CountedWith(a, at)'
         /\ IsFiniteSet(CountedWith(a, at)) /\ IsFiniteSet(CountedWith(a, at)')
         /\ Cardinality(CountedWith(a, at)) \in Nat /\ Cardinality(CountedWith(a, at)') \in Nat
         /\ Cardinality(CountedWith(a, at)) <= Cardinality(CountedWith(a, at)')
<1>1. CountedWith(a, at) \subseteq CountedWith(a, at)'
  BY DEF Kept, CountedWith, Logged
<1>2. CountedWith(a, at) \subseteq Request /\ CountedWith(a, at)' \subseteq Request
  BY DEF CountedWith
<1>3. IsFiniteSet(CountedWith(a, at)) /\ IsFiniteSet(CountedWith(a, at)')
  BY <1>2, ConstantsAssumption, FS_Subset
<1>4. QED
  BY <1>1, <1>3, FS_Subset, FS_CardinalityType

LEMMA InitNumberInv == Init => NumberInv
  BY DEF Init, IdleReq, NumberInv, NumberWithinCount, CountSafe, Logged

LEMMA NextNumberInv == SafeInv /\ SafeInv' /\ NumberInv /\ [Next]_vars => NumberInv'
<1> SUFFICES ASSUME SafeInv, SafeInv', NumberInv, [Next]_vars
             PROVE  NumberInv'
  OBVIOUS
<1>1. Kept
  BY NextKept
<1>2. /\ req \in [Request -> ReqState] /\ req' \in [Request -> ReqState]
      /\ logs \in [Request -> Row \cup {None}] /\ logs' \in [Request -> Row \cup {None}]
  BY DEF SafeInv, TypeInv, TypeOK
\* A handler that keeps its count keeps the bound on it.
<1>3. ASSUME NEW q \in Request,
             /\ req'[q].pc \in {"insert", "commit"} /\ req'[q].target = None
                  => /\ req[q].pc \in {"insert", "commit"} /\ req[q].target = None
                     /\ req'[q].attempt = req[q].attempt /\ req'[q].place = req[q].place
                     /\ req'[q].number = req[q].number
      PROVE  CountSafe(q)'
  <2> SUFFICES ASSUME req'[q].pc \in {"insert", "commit"}, req'[q].target = None
               PROVE  CountSafe(q)'
    BY DEF CountSafe
  <2>1. PICK a \in Attempt, at \in Place :
          /\ req[q].attempt = a /\ req'[q].attempt = a
          /\ req[q].place = at /\ req'[q].place = at
    BY <1>3 DEF SafeInv, TypeInv, ReqShape
  <2>2. req[q].number \in Nat /\ req'[q].number = req[q].number
    BY <1>2, <1>3 DEF ReqState
  <2>3. at.group # None => req[q].number <= Cardinality(CountedWith(a, at)) + 1
    BY <1>3, <2>1 DEF NumberInv, CountSafe
  <2>4. /\ Cardinality(CountedWith(a, at)) \in Nat /\ Cardinality(CountedWith(a, at)') \in Nat
        /\ Cardinality(CountedWith(a, at)) <= Cardinality(CountedWith(a, at)')
    BY <1>1, CountGrows
  <2>5. at.group # None => req'[q].number <= Cardinality(CountedWith(a, at)') + 1
    BY <2>2, <2>3, <2>4
  <2>6. QED
    BY <2>1, <2>5 DEF CountSafe, CountedWith, Logged
\* A row that was there keeps its number.
<1>4. ASSUME NEW q \in Request, Logged(q), NEW a \in Attempt, NEW at \in Place,
             logs'[q].attempt = a, logs'[q].place = at, at.group # None
      PROVE  logs'[q].number <= Cardinality(CountedWith(a, at)')
  <2>1. /\ logs[q].attempt = a /\ logs[q].place = at
        /\ logs'[q].number = logs[q].number /\ logs[q].number \in Nat
    BY <1>1, <1>2, <1>4 DEF Kept, Logged, Row
  <2>2. logs[q].number <= Cardinality(CountedWith(a, at))
    BY <1>4, <2>1 DEF NumberInv, NumberWithinCount
  <2>3. /\ Cardinality(CountedWith(a, at)) \in Nat /\ Cardinality(CountedWith(a, at)') \in Nat
        /\ Cardinality(CountedWith(a, at)) <= Cardinality(CountedWith(a, at)')
    BY <1>1, CountGrows
  <2>4. QED
    BY <2>1, <2>2, <2>3
\* Only CommitLog adds a row, and the row's number is the count it held.
<1>5. ASSUME \A q \in Request : CountSafe(q)',
             NEW q \in Request, logs'[q] # None, ~Logged(q), NEW a \in Attempt, NEW at \in Place,
             logs'[q].attempt = a, logs'[q].place = at, at.group # None,
             logs'[q].number \in Nat,
             logs'[q].number <= Cardinality(CountedWith(a, at)) + 1
      PROVE  logs'[q].number <= Cardinality(CountedWith(a, at)')
  <2>1. q \in CountedWith(a, at)' /\ q \notin CountedWith(a, at)
    BY <1>5 DEF CountedWith, Logged
  <2>2. CountedWith(a, at) \cup {q} \subseteq CountedWith(a, at)'
    BY <1>1, <2>1, CountGrows
  <2>3. /\ IsFiniteSet(CountedWith(a, at)) /\ IsFiniteSet(CountedWith(a, at)')
        /\ Cardinality(CountedWith(a, at)) \in Nat /\ Cardinality(CountedWith(a, at)') \in Nat
    BY <1>1, CountGrows
  <2>4. Cardinality(CountedWith(a, at) \cup {q}) = Cardinality(CountedWith(a, at)) + 1
    BY <2>1, <2>3, FS_AddElement
  <2>5. Cardinality(CountedWith(a, at) \cup {q}) <= Cardinality(CountedWith(a, at)')
    BY <2>2, <2>3, FS_Subset
  <2>6. QED
    BY <1>5, <2>3, <2>4, <2>5
<1>6. ASSUME \A q \in Request : CountSafe(q)',
             \A q \in Request : Logged(q)' =>
               \/ Logged(q)
               \/ /\ req[q].pc = "commit" /\ req[q].target = None
                  /\ logs'[q].attempt = req[q].attempt /\ logs'[q].place = req[q].place
                  /\ logs'[q].number = req[q].number
      PROVE  NumberInv'
  <2> SUFFICES ASSUME NEW q \in Request, NEW a \in Attempt, NEW at \in Place,
                      logs'[q] # None, logs'[q].attempt = a, logs'[q].place = at,
                      at.group # None
               PROVE  logs'[q].number <= Cardinality(CountedWith(a, at)')
    <3>1. \A q \in Request : logs'[q] # None => /\ logs'[q].attempt \in Attempt
                                                /\ logs'[q].place \in Place
      BY <1>2 DEF Row
    <3>2. QED
      BY <1>6, <3>1 DEF NumberInv, NumberWithinCount, Logged, CountedWith
  <2>1. CASE Logged(q)
    BY <1>4, <2>1
  <2>2. CASE ~Logged(q)
    <3>1. /\ req[q].pc = "commit" /\ req[q].target = None
          /\ req[q].attempt = a /\ req[q].place = at /\ logs'[q].number = req[q].number
      BY <1>6, <2>2 DEF Logged
    <3>2. req[q].number <= Cardinality(CountedWith(a, at)) + 1
      BY <3>1 DEF NumberInv, CountSafe
    <3>3. req[q].number \in Nat
      BY <1>2 DEF ReqState
    <3>4. QED
      BY <1>5, <1>6, <2>2, <3>1, <3>2, <3>3
  <2>3. QED
    BY <2>1, <2>2
<1>7. ASSUME UNCHANGED <<req, logs>>
      PROVE  NumberInv'
  BY <1>3, <1>6, <1>7 DEF Logged
<1>8. ASSUME NEW q \in Request,
             \/ \E a \in Attempt : Report(q, a) \/ \E at \in Place : Retry(q, a, at)
             \/ GradeAnswered(q) \/ GradeUnanswered(q)
             \/ LookUp(q) \/ Insert(q) \/ RequestFails(q)
      PROVE  NumberInv'
  <2>1. UNCHANGED logs /\ \A p \in Request \ {q} : req'[p] = req[p]
    BY <1>2, <1>8
    DEF Report, Retry, Receive, GradeAnswered, GradeUnanswered, LookUp, Insert, RequestFails
  <2>2. CASE \E a \in Attempt : Report(q, a) \/ \E at \in Place : Retry(q, a, at)
    <3>1. req'[q].pc \notin {"insert", "commit"}
      BY <1>2, <2>2 DEF Report, Retry, Receive, Entered
    <3>2. QED
      BY <1>3, <1>6, <2>1, <3>1 DEF Logged
  <2>3. CASE Insert(q)
    <3>1. /\ req[q].pc = "insert" /\ req'[q].target = req[q].target
          /\ req'[q].attempt = req[q].attempt /\ req'[q].place = req[q].place /\ req'[q].number = req[q].number
      BY <1>2, <2>3 DEF Insert, ReqState
    <3>2. QED
      BY <1>3, <1>6, <2>1, <3>1 DEF Logged
  <2>4. CASE LookUp(q)
    <3>1. req'[q].pc \notin {"insert", "commit"} \/ req'[q].target # None
      <4>1. CASE req' = [req EXCEPT ![q].pc = "count"]
        BY <1>2, <4>1 DEF ReqState
      <4>2. CASE \E t \in SameAttempt(req[q].attempt, req[q].place) :
                   req' = [req EXCEPT ![q].target = t, ![q].loaded = logs[t].verdict,
                                      ![q].pc = "commit"]
        BY <1>2, <4>2, NoneAssumption DEF ReqState, SameAttempt
      <4>3. QED
        BY <2>4, <4>1, <4>2 DEF LookUp
    <3>2. QED
      BY <1>3, <1>6, <2>1, <3>1 DEF Logged
  <2>5. CASE GradeAnswered(q) \/ GradeUnanswered(q) \/ RequestFails(q)
    <3>1. req'[q].pc \notin {"insert", "commit"}
      BY <1>2, <2>5 DEF GradeAnswered, GradeUnanswered, RequestFails, AfterGrade, ReqState
    <3>2. QED
      BY <1>3, <1>6, <2>1, <3>1 DEF Logged
  <2>6. QED
    BY <1>8, <2>2, <2>3, <2>4, <2>5
<1>9. ASSUME NEW q \in Request, Count(q)
      PROVE  NumberInv'
  <2>1. /\ UNCHANGED logs /\ \A p \in Request \ {q} : req'[p] = req[p]
        /\ req'[q].attempt = req[q].attempt /\ req'[q].place = req[q].place
        /\ req'[q].number = NextAttemptNumber(req[q].attempt, req[q].place)
    BY <1>2, <1>9 DEF Count, ReqState
  <2>2. PICK a \in Attempt, at \in Place : req[q].attempt = a /\ req[q].place = at
    BY <1>9 DEF Count, SafeInv, TypeInv, ReqShape
  <2>3. Cardinality(CountedWith(a, at)') = Cardinality(CountedWith(a, at))
    BY <2>1 DEF CountedWith, Logged
  <2>4. Cardinality(CountedWith(a, at)) \in Nat
    BY <1>1, CountGrows
  <2>5. CountSafe(q)'
    BY <2>1, <2>2, <2>3, <2>4 DEF CountSafe, NextAttemptNumber, CountedWith, Logged
  <2>6. QED
    BY <1>3, <1>6, <2>1, <2>5 DEF Logged
<1>10. ASSUME NEW q \in Request, CommitLog(q)
       PROVE  NumberInv'
  <2>1. /\ \A p \in Request \ {q} : req'[p] = req[p]
        /\ req'[q].pc = "done"
        /\ req[q].pc = "commit"
    BY <1>2, <1>10 DEF CommitLog, ReqState
  <2>2. PICK w \in Request, row \in Row, new \in Row :
          /\ w = WrittenRow(q)
          /\ row = IF req[q].target = None THEN NewRow(req[q]) ELSE logs[w]
          /\ logs' = [logs EXCEPT ![w] = new]
          /\ new.attempt = row.attempt /\ new.place = row.place /\ new.number = row.number
          /\ req[q].target # None => Logged(w)
    BY <1>10, CommitLogWrites DEF SafeInv
  <2>3. \A p \in Request : Logged(p)' =>
          \/ Logged(p)
          \/ /\ p = q /\ req[q].target = None
             /\ logs'[q].attempt = req[q].attempt /\ logs'[q].place = req[q].place
             /\ logs'[q].number = req[q].number
    BY <1>2, <2>2 DEF WrittenRow, NewRow, Logged
  <2>4. \A p \in Request : CountSafe(p)'
    BY <1>3, <2>1
  <2>5. QED
    BY <1>6, <2>1, <2>3, <2>4
<1>11. ASSUME NEW f \in Fetch, CommitHint(f)
       PROVE  NumberInv'
  <2>1. UNCHANGED req
    BY <1>11 DEF CommitHint
  <2>2. \A p \in Request : Logged(p)' => Logged(p)
    BY <1>2, <1>11, CommitHintWrites DEF Logged, SafeInv
  <2>3. QED
    BY <1>3, <1>6, <2>1, <2>2
<1>12. QED
  BY <1>7, <1>8, <1>9, <1>10, <1>11
  DEF Next, RequestStep, FetchStep, vars, TutorGrades, AskHint, TutorHints, FetchFails, LoadRow

\* However requests interleave, no row is numbered past the student's rows of
\* its problem and mode (submissions.py:26-41).
THEOREM NumbersWithinCount == Spec => []NumberWithinCount
<1>1. NumberInv => NumberWithinCount
  BY DEF NumberInv
<1>2. QED
  BY <1>1, SafeInvHolds, InitNumberInv, NextNumberInv, PTL DEF Spec

-----------------------------------------------------------------------------
(* The log of students whose requests do not overlap.                      *)

\* Request q's handler will insert a row: it is the attempt's first report, or
\* a retry that found none.
Writing(q) == req[q].pc \in {"insert", "commit"} /\ req[q].target = None

Fresh(q) ==
  \/ req[q].pc = "grading" /\ ~req[q].retry
  \/ req[q].pc = "count"
  \/ Writing(q)

\* One request per student is in flight.
OneInFlight ==
  \A p, q \in Request :
    /\ InFlight(p) /\ InFlight(q)
    /\ Payload[req[p].attempt].user = Payload[req[q].attempt].user
    => p = q

\* While it is, what its handler read of the student's rows stays true: its
\* attempt has none, its count is exact, and its row will be the newest.
ReqSerial(q) ==
  LET a == req[q].attempt
      at == req[q].place
  IN
  /\ req[q].pc # "idle" => a \in sent
  /\ AllCurrent /\ Fresh(q) => \A p \in Request : Logged(p) => logs[p].attempt # a
  /\ Writing(q) /\ at.group # None =>
       req[q].number = Cardinality(CountedWith(a, at)) + 1
  /\ req[q].pc = "commit" /\ req[q].target = None =>
       /\ req[q].id <= lastId
       /\ \A p \in Request :
            Logged(p) /\ Payload[logs[p].attempt].user = Payload[a].user =>
              logs[p].id < req[q].id

NumberExact(p) ==
  Logged(p) /\ logs[p].place.group # None =>
    logs[p].number = Cardinality(UpTo(p))

IdsTaken == \A q \in Request : Logged(q) => logs[q].id <= lastId

SerialInv ==
  /\ OneInFlight
  /\ \A q \in Request : ReqSerial(q)
  /\ IdsTaken
  /\ OneRowPerAttempt
  /\ \A p \in Request : NumberExact(p)

LEMMA InitSerialInv == Init => SerialInv
  BY DEF Init, IdleReq, SerialInv, OneInFlight, InFlight, ReqSerial, Fresh, Writing,
         IdsTaken, OneRowPerAttempt, NumberExact, Logged

\* A step that neither adds a row nor moves one: only the counts and guesses of
\* the one request it serves can change.
RowsSame ==
  \A p \in Request :
    /\ logs'[p] # None <=> logs[p] # None
    /\ Logged(p) => /\ logs'[p].attempt = logs[p].attempt
                    /\ logs'[p].place = logs[p].place
                    /\ logs'[p].number = logs[p].number
                    /\ logs'[p].id = logs[p].id

LEMMA SameCounts ==
  ASSUME RowsSame
  PROVE  /\ \A a \in Attempt, at \in Place : CountedWith(a, at)' = CountedWith(a, at)
         /\ \A p \in Request : Logged(p) => UpTo(p)' = UpTo(p)
<1>1. ASSUME NEW a \in Attempt, NEW at \in Place
      PROVE  CountedWith(a, at)' = CountedWith(a, at)
  <2>1. \A p \in Request : p \in CountedWith(a, at)' <=> p \in CountedWith(a, at)
    BY DEF RowsSame, CountedWith, Logged
  <2>2. QED
    BY <2>1 DEF CountedWith
<1>2. ASSUME NEW p \in Request, Logged(p)
      PROVE  UpTo(p)' = UpTo(p)
  <2>1. \A q \in Request : q \in UpTo(p)' <=> q \in UpTo(p)
    BY <1>2 DEF RowsSame, UpTo, CountedWith, Logged
  <2>2. UpTo(p)' \subseteq Request /\ UpTo(p) \subseteq Request
    BY DEF UpTo, CountedWith
  <2>3. QED
    BY <2>1, <2>2
<1>3. QED
  BY <1>1, <1>2

LEMMA RowsSameSerial ==
  ASSUME SafeInv, SafeInv', SerialInv, RowsSame, NEW q \in Request,
         \A p \in Request \ {q} : req'[p] = req[p],
         sent \subseteq sent', lastId \in Nat, lastId' \in Nat, lastId <= lastId',
         ReqSerial(q)',
         InFlight(q)' =>
           \/ InFlight(q) /\ req'[q].attempt = req[q].attempt
           \/ \A p \in Request : InFlight(p) =>
                Payload[req[p].attempt].user # Payload[req'[q].attempt].user
  PROVE  SerialInv'
<1>1. OneInFlight'
  BY DEF SerialInv, OneInFlight, InFlight
<1>2. ASSUME NEW p \in Request \ {q}
      PROVE  ReqSerial(p)'
  <2>1. ReqSerial(p) /\ req'[p] = req[p]
    BY DEF SerialInv
  <2>2. CASE req[p].pc = "idle"
    BY <2>1, <2>2 DEF ReqSerial, Fresh, Writing
  <2>3. CASE req[p].pc # "idle"
    <3>1. PICK a \in Attempt, at \in Place : req[p].attempt = a /\ req[p].place = at
      BY <2>3 DEF SafeInv, TypeInv, ReqShape
    <3>2. CountedWith(a, at)' = CountedWith(a, at)
      BY SameCounts
    <3>3. a \in sent'
      BY <2>1, <2>3, <3>1 DEF ReqSerial
    <3>4. AllCurrent /\ Fresh(p) => \A r \in Request : logs'[r] # None => logs'[r].attempt # a
      BY <2>1, <3>1 DEF ReqSerial, RowsSame, Logged
    <3>5. Writing(p) /\ at.group # None =>
            req[p].number = Cardinality(CountedWith(a, at)') + 1
      BY <2>1, <3>1, <3>2 DEF ReqSerial
    <3>6. req[p].id \in Nat
      BY DEF SafeInv, TypeInv, TypeOK, ReqState
    <3>7. req[p].pc = "commit" /\ req[p].target = None =>
            /\ req[p].id <= lastId'
            /\ \A r \in Request :
                 logs'[r] # None /\ Payload[logs'[r].attempt].user = Payload[a].user =>
                   logs'[r].id < req[p].id
      BY <2>1, <3>1, <3>6 DEF ReqSerial, RowsSame, Logged
    <3>8. QED
      BY <2>1, <3>1, <3>3, <3>4, <3>5, <3>7
      DEF ReqSerial, Fresh, Writing, Logged, CountedWith, AllCurrent
  <2>4. QED
    BY <2>2, <2>3
<1>3. IdsTaken'
  <2>1. ASSUME NEW p \in Request, logs'[p] # None
        PROVE  logs'[p].id <= lastId'
    <3>1. Logged(p) /\ logs'[p].id = logs[p].id /\ logs[p].id <= lastId
      BY <2>1 DEF RowsSame, Logged, SerialInv, IdsTaken
    <3>2. logs[p].id \in Nat
      BY <3>1 DEF SafeInv, TypeInv, TypeOK, Row, Logged
    <3>3. QED
      BY <3>1, <3>2
  <2>2. QED
    BY <2>1 DEF IdsTaken, Logged
<1>4. OneRowPerAttempt'
  BY DEF SerialInv, OneRowPerAttempt, AllCurrent, RowsSame, Logged
<1>5. ASSUME NEW p \in Request
      PROVE  NumberExact(p)'
  <2>1. logs'[p] # None => Logged(p) /\ UpTo(p)' = UpTo(p)
    BY SameCounts DEF RowsSame, Logged
  <2>2. QED
    BY <2>1 DEF SerialInv, NumberExact, RowsSame, Logged
<1>6. QED
  BY <1>1, <1>2, <1>3, <1>4, <1>5 DEF SerialInv
\* The commit of a new row: it is the newest of its student's, so no row's
\* place changes, and its own place is the count its handler held.
LEMMA NewRowSerial ==
  ASSUME SafeInv, SafeInv', SerialInv, NEW q \in Request, CommitLog(q), ~Overlap,
         req[q].target = None
  PROVE  SerialInv'
<1>1. /\ req \in [Request -> ReqState] /\ req[q].pc = "commit"
      /\ logs \in [Request -> Row \cup {None}] /\ logs[q] = None
      /\ lastId \in Nat
      /\ UNCHANGED <<sent, lastId>>
  BY DEF CommitLog, SafeInv, TypeInv, TypeOK, ReqSafe
<1>2. /\ \A p \in Request : /\ req'[p].attempt = req[p].attempt
                            /\ req'[p].place = req[p].place
                            /\ req'[p].target = req[p].target
                            /\ req'[p].retry = req[p].retry
                            /\ req'[p].number = req[p].number
                            /\ req'[p].id = req[p].id
      /\ \A p \in Request \ {q} : req'[p] = req[p]
      /\ req'[q].pc = "done"
  BY <1>1 DEF CommitLog, ReqState
<1>3. PICK a \in Attempt, at \in Place : req[q].attempt = a /\ req[q].place = at
  BY <1>1 DEF SafeInv, TypeInv, ReqShape
<1>4. /\ logs'[q] # None
      /\ logs'[q].attempt = a /\ logs'[q].place = at
      /\ logs'[q].id = req[q].id /\ logs'[q].number = req[q].number
      /\ \A p \in Request \ {q} : logs'[p] = logs[p]
  BY <1>1, <1>3, CommitLogWrites DEF SafeInv, WrittenRow, NewRow
<1>5. /\ InFlight(q) /\ Writing(q) /\ Fresh(q)
      /\ ReqSerial(q)
  BY <1>1 DEF InFlight, Writing, Fresh, SerialInv
<1>6. /\ \A b \in Attempt, bt \in Place :
           Payload[b].user # Payload[a].user => CountedWith(b, bt)' = CountedWith(b, bt)
      /\ CountedWith(a, at)' = CountedWith(a, at) \cup {q}
      /\ q \notin CountedWith(a, at)
  <2>1. \A b \in Attempt, bt \in Place : \A p \in Request \ {q} :
          p \in CountedWith(b, bt)' <=> p \in CountedWith(b, bt)
    BY <1>4 DEF CountedWith, Logged
  <2>2. \A b \in Attempt, bt \in Place :
          /\ q \notin CountedWith(b, bt)
          /\ q \in CountedWith(b, bt)' => Payload[b].user = Payload[a].user
    BY <1>1, <1>4 DEF CountedWith, Logged
  <2>3. q \in CountedWith(a, at)'
    BY <1>4 DEF CountedWith, Logged
  <2>4. \A b \in Attempt, bt \in Place :
          CountedWith(b, bt) \subseteq Request /\ CountedWith(b, bt)' \subseteq Request
    BY DEF CountedWith
  <2>5. ASSUME NEW b \in Attempt, NEW bt \in Place, Payload[b].user # Payload[a].user
        PROVE  CountedWith(b, bt)' = CountedWith(b, bt)
    <3>1. q \notin CountedWith(b, bt) /\ q \notin CountedWith(b, bt)'
      BY <2>2, <2>5
    <3>2. \A p \in Request \ {q} : p \in CountedWith(b, bt)' <=> p \in CountedWith(b, bt)
      BY <2>1
    <3>3. CountedWith(b, bt) \subseteq Request /\ CountedWith(b, bt)' \subseteq Request
      BY <2>4
    <3>4. \A p \in Request : p \in CountedWith(b, bt)' <=> p \in CountedWith(b, bt)
      BY <3>1, <3>2
    <3>5. QED
      BY <3>3, <3>4
  <2>6. CountedWith(a, at)' = CountedWith(a, at) \cup {q}
    <3>1. \A p \in Request \ {q} : p \in CountedWith(a, at)' <=> p \in CountedWith(a, at)
      BY <2>1
    <3>2. QED
      BY <2>3, <2>4, <3>1
  <2>7. QED
    BY <2>2, <2>5, <2>6
<1>7. OneInFlight'
  BY <1>2 DEF SerialInv, OneInFlight, InFlight
<1>8. ASSUME NEW p \in Request
      PROVE  ReqSerial(p)'
  <2>1. CASE ~InFlight(p) \/ p = q
    BY <1>1, <1>2, <2>1
    DEF SerialInv, ReqSerial, InFlight, Fresh, Writing, ReqState, Request_pc
  <2>2. CASE InFlight(p) /\ p # q
    <3>1. PICK b \in Attempt, bt \in Place : req[p].attempt = b /\ req[p].place = bt
      BY <2>2 DEF InFlight, SafeInv, TypeInv, ReqShape
    <3>2. Payload[b].user # Payload[a].user /\ b # a
      BY <1>3, <1>5, <2>2, <3>1 DEF SerialInv, OneInFlight
    <3>3. CountedWith(b, bt)' = CountedWith(b, bt)
      BY <1>6, <3>2
    <3>4. ReqSerial(p) /\ req'[p] = req[p]
      BY <1>2, <2>2 DEF SerialInv
    <3>5. AllCurrent /\ Fresh(p) => \A r \in Request : logs'[r] # None => logs'[r].attempt # b
      BY <1>4, <3>1, <3>2, <3>4 DEF ReqSerial, Logged
    <3>6. Writing(p) /\ bt.group # None =>
            req[p].number = Cardinality(CountedWith(b, bt)') + 1
      BY <3>1, <3>3, <3>4 DEF ReqSerial
    <3>7. req[p].pc = "commit" /\ req[p].target = None =>
            /\ req[p].id <= lastId'
            /\ \A r \in Request :
                 logs'[r] # None /\ Payload[logs'[r].attempt].user = Payload[b].user =>
                   logs'[r].id < req[p].id
      BY <1>1, <1>4, <3>1, <3>2, <3>4 DEF ReqSerial, Logged
    <3>8. b \in sent'
      BY <1>1, <2>2, <3>1, <3>4 DEF ReqSerial, InFlight
    <3>9. QED
      BY <3>1, <3>4, <3>5, <3>6, <3>7, <3>8
      DEF ReqSerial, Fresh, Writing, Logged, CountedWith, AllCurrent
  <2>3. QED
    BY <2>1, <2>2
<1>9. IdsTaken'
  BY <1>1, <1>4, <1>5 DEF SerialInv, IdsTaken, ReqSerial, Logged
<1>10. OneRowPerAttempt'
  BY <1>3, <1>4, <1>5 DEF SerialInv, OneRowPerAttempt, ReqSerial, AllCurrent, Logged
<1>11. ASSUME NEW p \in Request, logs'[p] # None, logs'[p].place.group # None
       PROVE  logs'[p].number = Cardinality(UpTo(p)')
  <2>1. \A r \in CountedWith(a, at) : logs[r].id < req[q].id /\ logs[r].id \in Nat /\ r # q
    BY <1>1, <1>3, <1>5, <1>6 DEF ReqSerial, CountedWith, Logged, Row
  <2>2. req[q].id \in Nat
    BY <1>1 DEF ReqState
  <2>3. CASE p = q
    <3>1. UpTo(q)' = {r \in CountedWith(a, at)' : logs'[r].id <= logs'[q].id}
      BY <1>4 DEF UpTo, CountedWith, Logged
    <3>2. UpTo(q)' = CountedWith(a, at) \cup {q}
      BY <1>4, <1>6, <2>1, <2>2, <3>1 DEF CountedWith
    <3>3. IsFiniteSet(CountedWith(a, at))
      BY ConstantsAssumption, FS_Subset, CountedWith(a, at) \subseteq Request DEF CountedWith
    <3>4. Cardinality(UpTo(q)') = Cardinality(CountedWith(a, at)) + 1
      BY <1>6, <3>2, <3>3, FS_AddElement
    <3>5. req[q].number = Cardinality(CountedWith(a, at)) + 1
      BY <1>3, <1>4, <1>5, <1>11, <2>3 DEF ReqSerial
    <3>6. QED
      BY <1>4, <2>3, <3>4, <3>5
  <2>4. CASE p # q
    <3>1. /\ logs'[p] = logs[p] /\ Logged(p)
          /\ logs[p].attempt \in Attempt /\ logs[p].place \in Place
      BY <1>1, <1>4, <1>11, <2>4 DEF Logged, Row
    <3>2. PICK b \in Attempt, bt \in Place : logs[p].attempt = b /\ logs[p].place = bt
      BY <3>1
    <3>3. UpTo(p) = {r \in CountedWith(b, bt) : logs[r].id <= logs[p].id}
      BY <3>2 DEF UpTo
    <3>4. UpTo(p)' = {r \in CountedWith(b, bt)' : logs'[r].id <= logs[p].id}
      BY <3>1, <3>2 DEF UpTo, CountedWith, Logged
    <3>5. \A r \in Request \ {q} : r \in CountedWith(b, bt)' <=> r \in CountedWith(b, bt)
      BY <1>4 DEF CountedWith, Logged
    <3>6. q \notin CountedWith(b, bt) /\ CountedWith(b, bt) \subseteq Request
      BY <1>1 DEF CountedWith, Logged
    <3>7. q \in CountedWith(b, bt)' => logs[p].id < req[q].id /\ logs[p].id \in Nat
      BY <1>1, <1>3, <1>4, <1>5, <3>1, <3>2 DEF CountedWith, ReqSerial, Row, Logged
    <3>8. CountedWith(b, bt)' \subseteq Request
      BY DEF CountedWith
    <3>9. UpTo(p)' = UpTo(p)
      BY <1>4, <2>2, <3>3, <3>4, <3>5, <3>6, <3>7, <3>8
    <3>10. NumberExact(p)
      BY DEF SerialInv
    <3>11. QED
      BY <1>11, <3>1, <3>9, <3>10 DEF NumberExact
  <2>5. QED
    BY <2>3, <2>4
<1>12. \A p \in Request : NumberExact(p)'
  BY <1>11 DEF NumberExact, Logged
<1>13. QED
  BY <1>7, <1>8, <1>9, <1>10, <1>12 DEF SerialInv
LEMMA NextSerialInv ==
  SafeInv /\ SafeInv' /\ ~Overlap /\ SerialInv /\ [Next]_vars => SerialInv'
<1> SUFFICES ASSUME SafeInv, SafeInv', ~Overlap, SerialInv, [Next]_vars
             PROVE  SerialInv'
  OBVIOUS
<1>1. /\ req \in [Request -> ReqState] /\ req' \in [Request -> ReqState]
      /\ logs \in [Request -> Row \cup {None}] /\ logs' \in [Request -> Row \cup {None}]
      /\ lastId \in Nat /\ lastId' \in Nat
  BY DEF SafeInv, TypeInv, TypeOK
<1>2. ASSUME UNCHANGED logs
      PROVE  RowsSame
  BY <1>2 DEF RowsSame
<1>3. ASSUME NEW q \in Request, RowsSame, UNCHANGED <<sent, lastId, req>>
      PROVE  SerialInv'
  <2>1. ReqSerial(q)'
    <3>1. CASE req[q].pc = "idle"
      BY <1>3, <3>1 DEF ReqSerial, Fresh, Writing
    <3>2. CASE req[q].pc # "idle"
      <4>1. PICK a \in Attempt, at \in Place : req[q].attempt = a /\ req[q].place = at
        BY <3>2 DEF SafeInv, TypeInv, ReqShape
      <4>2. CountedWith(a, at)' = CountedWith(a, at)
        BY <1>3, SameCounts
      <4>3. ReqSerial(q)
        BY DEF SerialInv
      <4>4. /\ a \in sent
            /\ AllCurrent /\ Fresh(q) =>
                 \A r \in Request : logs'[r] # None => logs'[r].attempt # a
            /\ Writing(q) /\ at.group # None =>
                 req[q].number = Cardinality(CountedWith(a, at)') + 1
            /\ req[q].pc = "commit" /\ req[q].target = None =>
                 /\ req[q].id <= lastId
                 /\ \A r \in Request :
                      logs'[r] # None /\ Payload[logs'[r].attempt].user = Payload[a].user =>
                        logs'[r].id < req[q].id
        BY <1>3, <3>2, <4>1, <4>2, <4>3 DEF ReqSerial, RowsSame, Logged
      <4>5. QED
        BY <1>3, <4>1, <4>4 DEF ReqSerial, Fresh, Writing, Logged, CountedWith, AllCurrent
    <3>3. QED
      BY <3>1, <3>2
  <2>2. QED
    BY <1>1, <1>3, <2>1, RowsSameSerial DEF InFlight
\* A step of q's handler that leaves the tables alone.
<1>4. ASSUME NEW q \in Request, UNCHANGED <<logs, sent>>,
             \A p \in Request \ {q} : req'[p] = req[p],
             lastId <= lastId', req'[q].attempt = req[q].attempt, InFlight(q),
             ReqSerial(q)'
      PROVE  SerialInv'
  BY <1>1, <1>2, <1>4, RowsSameSerial
<1>5. ASSUME NEW q \in Request, NEW a \in Attempt,
             Report(q, a) \/ \E at \in Place : Retry(q, a, at)
      PROVE  SerialInv'
  <2>1. /\ UNCHANGED <<logs, lastId>>
        /\ \A p \in Request \ {q} : req'[p] = req[p]
        /\ sent \subseteq sent' /\ a \in sent'
        /\ req'[q].attempt = a /\ req'[q].pc \in {"grading", "count"}
        /\ \A p \in Request : InFlight(p) => Payload[req[p].attempt].user # Payload[a].user
    BY <1>1, <1>5 DEF Report, Retry, Receive, Entered, MaySend
  <2>2. Fresh(q)' => a \notin sent
    <3>1. CASE Report(q, a)
      BY <3>1 DEF Report
    <3>2. CASE \E at \in Place : Retry(q, a, at)
      <4>1. req'[q].pc = "grading" /\ req'[q].retry
        BY <1>1, <3>2 DEF Retry, Receive, Entered
      <4>2. QED
        BY <4>1 DEF Fresh, Writing
    <3>3. QED
      BY <1>5, <3>1, <3>2
  <2>3. \A p \in Request : Logged(p) => logs[p].attempt \in sent
    BY DEF SafeInv, LogSafe, ReqSafe, SerialInv, ReqSerial, Logged
  <2>4. ReqSerial(q)'
    BY <2>1, <2>2, <2>3 DEF ReqSerial, Writing, Logged
  <2>5. QED
    BY <1>1, <1>2, <2>1, <2>4, RowsSameSerial
<1>6. ASSUME NEW q \in Request, GradeAnswered(q) \/ GradeUnanswered(q)
      PROVE  SerialInv'
  <2>1. /\ UNCHANGED <<logs, sent, lastId>>
        /\ \A p \in Request \ {q} : req'[p] = req[p]
        /\ req'[q].attempt = req[q].attempt /\ req'[q].place = req[q].place /\ InFlight(q)
        /\ req[q].pc = "grading"
        /\ req'[q].pc = AfterGrade(req[q])
    BY <1>1, <1>6 DEF GradeAnswered, GradeUnanswered, InFlight, ReqState
  <2>2. Fresh(q)' => Fresh(q)
    BY <2>1 DEF Fresh, Writing, AfterGrade
  <2>3. ReqSerial(q)'
    BY <2>1, <2>2 DEF SerialInv, ReqSerial, Writing, Logged, AfterGrade, AllCurrent
  <2>4. QED
    BY <1>1, <1>4, <2>1, <2>3
<1>7. ASSUME NEW q \in Request, LookUp(q)
      PROVE  SerialInv'
  <2>1. /\ UNCHANGED <<logs, sent, lastId>>
        /\ \A p \in Request \ {q} : req'[p] = req[p]
        /\ InFlight(q)
    BY <1>1, <1>7 DEF LookUp, InFlight
  <2>2. PICK a \in Attempt, at \in Place : req[q].attempt = a /\ req[q].place = at
    BY <1>7 DEF LookUp, SafeInv, TypeInv, ReqShape
  <2>3. a \in sent
    BY <1>7, <2>2 DEF LookUp, SerialInv, ReqSerial
  <2>4. CASE SameAttempt(a, at) = {} /\ req' = [req EXCEPT ![q].pc = "count"]
    <3>1. req'[q].attempt = a /\ req'[q].place = at /\ req'[q].pc = "count"
      BY <1>1, <2>2, <2>4 DEF ReqState
    <3>2. AllCurrent => \A p \in Request : Logged(p) => logs[p].attempt # a
      BY <2>4 DEF SameAttempt, AllCurrent
    <3>3. ReqSerial(q)'
      BY <2>1, <2>3, <3>1, <3>2 DEF ReqSerial, Writing, Logged, AllCurrent
    <3>4. QED
      BY <1>1, <1>4, <2>1, <2>2, <3>1, <3>3
  <2>5. ASSUME NEW t \in SameAttempt(a, at),
               req' = [req EXCEPT ![q].target = t, ![q].loaded = logs[t].verdict,
                                  ![q].pc = "commit"]
        PROVE  SerialInv'
    <3>1. /\ req'[q].attempt = a /\ req'[q].place = at
          /\ req'[q].pc = "commit" /\ req'[q].target = t
      BY <1>1, <2>2, <2>5 DEF ReqState
    <3>2. t # None
      BY NoneAssumption DEF SameAttempt
    <3>3. ReqSerial(q)'
      BY <2>1, <2>3, <3>1, <3>2 DEF ReqSerial, Fresh, Writing
    <3>4. QED
      BY <1>1, <1>4, <2>1, <2>2, <3>1, <3>3
  <2>6. QED
    BY <1>7, <2>2, <2>4, <2>5 DEF LookUp, IsNewest
<1>8. ASSUME NEW q \in Request, Count(q)
      PROVE  SerialInv'
  <2>1. /\ UNCHANGED <<logs, sent, lastId>>
        /\ \A p \in Request \ {q} : req'[p] = req[p]
        /\ req'[q].attempt = req[q].attempt /\ req'[q].place = req[q].place
        /\ req'[q].number = NextAttemptNumber(req[q].attempt, req[q].place)
        /\ req[q].pc = "count" /\ req'[q].pc = "insert"
        /\ InFlight(q)
    BY <1>1, <1>8 DEF Count, InFlight, ReqState
  <2>2. PICK a \in Attempt, at \in Place : req[q].attempt = a /\ req[q].place = at
    BY <2>1 DEF SafeInv, TypeInv, ReqShape
  <2>3. Cardinality(CountedWith(a, at)') = Cardinality(CountedWith(a, at))
    BY <2>1 DEF CountedWith, Logged
  <2>4. a \in sent /\ (AllCurrent => \A p \in Request : Logged(p) => logs[p].attempt # a)
    BY <2>1, <2>2 DEF SerialInv, ReqSerial, Fresh
  <2>5. ReqSerial(q)'
    BY <2>1, <2>2, <2>3, <2>4
    DEF ReqSerial, NextAttemptNumber, CountedWith, Logged, AllCurrent
  <2>6. QED
    BY <1>1, <1>4, <2>1, <2>5
<1>9. ASSUME NEW q \in Request, Insert(q)
      PROVE  SerialInv'
  <2>1. /\ UNCHANGED <<logs, sent>> /\ lastId' = lastId + 1
        /\ \A p \in Request \ {q} : req'[p] = req[p]
        /\ req'[q].attempt = req[q].attempt /\ req'[q].place = req[q].place /\ req'[q].target = req[q].target
        /\ req'[q].number = req[q].number /\ req'[q].id = lastId + 1
        /\ req[q].pc = "insert" /\ req'[q].pc = "commit"
        /\ InFlight(q)
    BY <1>1, <1>9 DEF Insert, InFlight, ReqState
  <2>2. PICK a \in Attempt, at \in Place : req[q].attempt = a /\ req[q].place = at
    BY <2>1 DEF SafeInv, TypeInv, ReqShape
  <2>3. Cardinality(CountedWith(a, at)') = Cardinality(CountedWith(a, at))
    BY <2>1 DEF CountedWith, Logged
  <2>4. req[q].target = None
    BY <2>1 DEF SafeInv, TypeInv, ReqShape
  <2>5. /\ a \in sent
        /\ AllCurrent => \A p \in Request : Logged(p) => logs[p].attempt # a
        /\ at.group # None => req[q].number = Cardinality(CountedWith(a, at)) + 1
    BY <2>1, <2>2, <2>4 DEF SerialInv, ReqSerial, Fresh, Writing
  <2>6. \A p \in Request : Logged(p) => logs[p].id < lastId + 1
    BY <1>1 DEF SerialInv, IdsTaken, Logged, Row
  <2>7. ReqSerial(q)'
    BY <1>1, <2>1, <2>2, <2>3, <2>5, <2>6
    DEF ReqSerial, CountedWith, Logged, AllCurrent
  <2>8. QED
    BY <1>1, <1>4, <2>1, <2>7
<1>10. ASSUME NEW q \in Request, RequestFails(q)
       PROVE  SerialInv'
  <2>1. /\ UNCHANGED <<logs, sent, lastId>>
        /\ \A p \in Request \ {q} : req'[p] = req[p]
        /\ req'[q].attempt = req[q].attempt /\ req'[q].place = req[q].place /\ req'[q].pc = "failed"
        /\ InFlight(q)
    BY <1>1, <1>10 DEF RequestFails, ReqState
  <2>2. ReqSerial(q)'
    BY <2>1 DEF SerialInv, ReqSerial, Fresh, Writing, InFlight
  <2>3. QED
    BY <1>1, <1>4, <2>1, <2>2
<1>11. ASSUME NEW q \in Request, CommitLog(q), req[q].target # None
       PROVE  SerialInv'
  <2>1. /\ UNCHANGED <<sent, lastId>>
        /\ \A p \in Request \ {q} : req'[p] = req[p]
        /\ req'[q].attempt = req[q].attempt /\ req'[q].place = req[q].place /\ req'[q].pc = "done"
        /\ req[q].pc = "commit" /\ InFlight(q)
    BY <1>1, <1>11 DEF CommitLog, InFlight, ReqState
  <2>2. RowsSame
    BY <1>1, <1>11, CommitLogWrites DEF SafeInv, RowsSame, Logged
  <2>3. ReqSerial(q)'
    BY <2>1 DEF SerialInv, ReqSerial, Fresh, Writing
  <2>4. QED
    BY <1>1, <2>1, <2>2, <2>3, RowsSameSerial
<1>12. ASSUME NEW f \in Fetch, CommitHint(f)
       PROVE  SerialInv'
  <2>1. RowsSame /\ UNCHANGED <<sent, lastId, req>>
    BY <1>1, <1>12, CommitHintWrites DEF SafeInv, RowsSame, Logged, CommitHint
  <2>2. Request # {}
    BY <1>12, CommitHintWrites DEF SafeInv
  <2>3. QED
    BY <1>3, <2>1, <2>2
<1>13. ASSUME UNCHANGED <<logs, sent, lastId, req>>
       PROVE  SerialInv'
  <2>1. CASE Request = {}
    BY <2>1 DEF SerialInv, OneInFlight, IdsTaken, OneRowPerAttempt, AllCurrent
  <2>2. CASE Request # {}
    BY <1>2, <1>3, <1>13, <2>2
  <2>3. QED
    BY <2>1, <2>2
<1>14. ASSUME NEW q \in Request, CommitLog(q)
       PROVE  SerialInv'
  BY <1>11, <1>14, NewRowSerial
<1>15. QED
  BY <1>5, <1>6, <1>7, <1>8, <1>9, <1>10, <1>12, <1>13, <1>14
  DEF Next, RequestStep, FetchStep, vars, TutorGrades, AskHint, TutorHints, FetchFails, LoadRow

\* When a student's requests do not overlap, one row is logged per attempt and
\* its number is its place among the student's rows of that problem and mode:
\* concurrency alone makes a row double or a number repeat (submissions.py:26-41,
\* 141-151).
THEOREM SerialLog == Spec => []SerialLogExact
<1>1. Init => (~Overlap => SerialInv)
  BY InitSerialInv
<1>2. SafeInv /\ SafeInv' /\ (~Overlap => SerialInv) /\ [Next]_vars
        => (~Overlap => SerialInv')
  BY NextSerialInv
<1>3. (~Overlap => SerialInv) => SerialLogExact
  BY DEF SerialInv, NumberExact, SerialLogExact
<1>4. QED
  <2> DEFINE I == ~Overlap => SerialInv
  <2>1. Init => I
    BY <1>1
  <2>2. SafeInv /\ SafeInv' /\ I /\ [Next]_vars => I'
    BY <1>2
  <2>3. I => SerialLogExact
    BY <1>3
  <2> HIDE DEF I
  <2>4. QED
    BY <2>1, <2>2, <2>3, SafeInvHolds, PTL DEF Spec
-----------------------------------------------------------------------------
(* The attempt log implements the ledger: every step of the handlers and   *)
(* of the tutor is a step of AttemptLedger or changes nothing it shows.    *)
(* Only current clients are covered: an older client's submission id may   *)
(* name two attempts, and the tutor then replays one's ruling to the other.*)

\* The three variables of the ledger.
RulingOf == [a \in Attempt |-> graded[OwnKey(a)]]
RowsOf == [q \in Request |-> LedgerRow(q)]

\* A row that is logged is an entry of the ledger.
LEMMA EntryNotNone ==
  ASSUME NEW q \in Request, logs[q] # None, logs \in [Request -> Row \cup {None}]
  PROVE  RowsOf[q] # None
<1>1. logs[q].attempt \in Attempt /\ logs[q].verdict \in Verdict \cup {None}
  BY DEF Row
<1>2. RowsOf[q] \in LedgerEntry
  BY <1>1 DEF RowsOf, LedgerRow, LedgerEntry
<1>3. QED
  BY <1>2, NoneAssumption

LEMMA InitLedger == Init => Ledger!Init
<1> SUFFICES ASSUME Init PROVE Ledger!Init
  OBVIOUS
<1>1. RulingOf = [a \in Attempt |-> None]
  BY OwnKeyOfAttempt DEF Init, RulingOf
<1>2. RowsOf = [q \in Request |-> None]
  BY DEF Init, RowsOf, LedgerRow
<1>3. Offered = {}
  BY DEF Init, Offered
<1>4. QED
  BY <1>1, <1>2, <1>3 DEF Ledger!Init, RulingOf, RowsOf

LEMMA TutorGradesRules ==
  ASSUME SafeInv, AllCurrent, NEW q \in Request, TutorGrades(q)
  PROVE  Ledger!Next
<1>1. PICK a \in Attempt : a = req[q].attempt
  BY DEF TutorGrades, SafeInv, TypeInv, ReqShape
<1>2. KeyOf(q) = OwnKey(a) /\ \A b \in Attempt : OwnKey(b) \in Key
  <2>1. req[q].place \in Place
    BY DEF TutorGrades, SafeInv, TypeInv, ReqShape
  <2>2. QED
    BY <1>1, <2>1, OwnKeyOfAttempt DEF KeyOf
<1>3. PICK o \in Ruling : graded' = [graded EXCEPT ![OwnKey(a)] = o]
  <2>1. PICK u \in TutorOutcome :
          graded' = [graded EXCEPT ![KeyOf(q)] =
                       [verdict |-> u.verdict, hint |-> u.hint,
                        of |-> req[q].place.tutorProblem]]
    BY DEF TutorGrades
  <2>2. [verdict |-> u.verdict, hint |-> u.hint, of |-> req[q].place.tutorProblem] \in Ruling
    <3>1. req[q].place \in Place /\ Mapped(req[q].place)
      BY DEF TutorGrades, SafeInv, TypeInv, ReqShape
    <3>2. req[q].place.tutorProblem \in TutorProblem
      BY <3>1, ConstantsAssumption DEF Mapped
    <3>3. u.verdict \in Verdict /\ u.hint \in BOOLEAN
      BY ConstantsAssumption
    <3>4. QED
      BY <3>2, <3>3 DEF Ruling
  <2>3. QED
    BY <1>2, <2>1, <2>2
<1>4. /\ graded[OwnKey(a)] = None
      /\ UNCHANGED <<logs, hintReqs>>
      /\ RulingOf' = [RulingOf EXCEPT ![a] = o]
  <2>1. /\ graded[OwnKey(a)] = None
        /\ UNCHANGED <<logs, hintReqs>>
        /\ graded \in [Key -> Ruling \cup {None}]
    BY <1>2 DEF TutorGrades, SafeInv, TypeInv, TypeOK
  <2>2. \A b \in Attempt \ {a} : graded'[OwnKey(b)] = graded[OwnKey(b)]
    BY <1>2, <1>3, <2>1, KeyInjective
  <2>3. graded'[OwnKey(a)] = o
    BY <1>2, <1>3, <2>1
  <2>4. \A b \in Attempt : OwnKey(b)' = OwnKey(b)
    BY DEF OwnKey
  <2>5. QED
    BY <2>1, <2>2, <2>3, <2>4 DEF RulingOf
<1>5. UNCHANGED <<RowsOf, Offered>>
  BY <1>4 DEF RowsOf, LedgerRow, Offered
<1>6. Ledger!Rule(a)
  BY <1>2, <1>4, <1>5 DEF Ledger!Rule, RulingOf, RowsOf
<1>7. QED
  BY <1>6 DEF Ledger!Next

LEMMA CommitLogSettles ==
  ASSUME SafeInv, SafeInv', AllCurrent, NEW q \in Request, CommitLog(q)
  PROVE  Ledger!Next
<1>1. PICK w \in Request, row \in Row, new \in Row, a \in Attempt :
        /\ w = WrittenRow(q)
        /\ row = IF req[q].target = None THEN NewRow(req[q]) ELSE logs[w]
        /\ logs' = [logs EXCEPT ![w] = new]
        /\ new.attempt = row.attempt
        /\ new.hint = row.hint
        /\ \/ new.verdict = row.verdict
           \/ req[q].resp # None /\ new.verdict = req[q].resp.verdict
        /\ a = req[q].attempt
        /\ req[q].target # None => Logged(w)
  BY CommitLogWrites DEF SafeInv
<1>2. /\ ReqSafe(q)
      /\ logs[q] = None /\ hintReqs[q] = None
      /\ UNCHANGED graded
      /\ logs \in [Request -> Row \cup {None}]
      /\ hintReqs \in [Request -> HintRow \cup {None}]
  BY DEF CommitLog, SafeInv, ReqSafe, TypeInv, TypeOK
<1>3. row.attempt = a
  BY <1>1, <1>2 DEF ReqSafe, Alike, NewRow, WrittenRow, AllCurrent
<1>31. KeyOf(q) = OwnKey(a) /\ OwnKey(a) \in Key
  <2>1. req[q].place \in Place
    BY DEF CommitLog, SafeInv, TypeInv, ReqShape
  <2>2. QED
    BY <1>1, <2>1, OwnKeyOfAttempt DEF KeyOf
<1>4. new.verdict = row.verdict \/ new.verdict \in Ledger!Known(a)
  BY <1>1, <1>2, <1>31 DEF ReqSafe, Ledger!Known
<1>5. UNCHANGED RulingOf
  BY <1>2 DEF RulingOf
<1>6. Ledger!MayOffer(w, a)
  <2>1. CASE OffersHint(req[q])
    <3> DEFINE h == [log |-> w, token |-> KeyOf(q),
                     tutorProblem |-> req[q].place.tutorProblem]
    <3>1. hintReqs' = [hintReqs EXCEPT ![q] = h]
      BY <1>1, <2>1 DEF CommitLog
    <3>2. Offered' = Offered \cup {w}
      <4>1. h \in HintRow
        <5>1. req[q].place \in Place /\ Mapped(req[q].place)
          BY <2>1 DEF OffersHint, CommitLog, SafeInv, TypeInv, ReqShape
        <5>2. req[q].place.tutorProblem \in TutorProblem
          BY <5>1, ConstantsAssumption DEF Mapped
        <5>3. QED
          BY <1>31, <5>2 DEF HintRow
      <4>2. hintReqs'[q] = h /\ h # None /\ h.log = w
        BY <1>2, <3>1, <4>1, NoneAssumption
      <4>3. \A p \in Request \ {q} : hintReqs'[p] = hintReqs[p]
        BY <1>2, <3>1
      <4> HIDE DEF h
      <4>4. QED
        BY <1>2, <4>2, <4>3 DEF Offered
    <3>3. graded[OwnKey(a)] # None /\ graded[OwnKey(a)].hint
      BY <1>1, <1>2, <1>31, <2>1 DEF OffersHint, ReqSafe
    <3>4. QED
      BY <3>2, <3>3 DEF Ledger!MayOffer, Ledger!Offers
  <2>2. CASE ~OffersHint(req[q])
    <3>1. UNCHANGED Offered
      BY <2>2 DEF CommitLog, Offered
    <3>2. QED
      BY <3>1 DEF Ledger!MayOffer
  <2>3. QED
    BY <2>1, <2>2
<1>7. CASE req[q].target = None
  <2>1. w = q /\ row = NewRow(req[q])
    BY <1>1, <1>7 DEF WrittenRow
  <2>2. row.verdict = None /\ row.hint = None /\ new # None
    <3>1. new # None
      BY NoneAssumption
    <3>2. QED
      BY <2>1, <3>1 DEF NewRow
  <2>3. RowsOf' = [RowsOf EXCEPT ![q] = Ledger!Entry(a, new.verdict, FALSE)]
    BY <1>1, <1>2, <1>3, <2>1, <2>2 DEF RowsOf, LedgerRow, Ledger!Entry
  <2>4. new.verdict \in Ledger!Known(a)
    BY <1>4, <2>2 DEF Ledger!Known
  <2>5. RowsOf[q] = None
    BY <1>2 DEF RowsOf, LedgerRow
  <2>6. Ledger!Log(q, a)
    BY <1>5, <1>6, <2>1, <2>3, <2>4, <2>5 DEF Ledger!Log, RowsOf, RulingOf
  <2>7. QED
    BY <2>6 DEF Ledger!Next
<1>8. CASE req[q].target # None
  <2>1. row = logs[w] /\ logs[w] # None /\ new # None
    BY <1>1, <1>8, NoneAssumption DEF Logged
  <2>2. /\ RowsOf[w] = [attempt |-> a, verdict |-> row.verdict, hint |-> row.hint # None]
        /\ RowsOf[w] # None
    <3>1. RowsOf[w] = [attempt |-> a, verdict |-> row.verdict, hint |-> row.hint # None]
      BY <1>3, <2>1 DEF RowsOf, LedgerRow
    <3>2. RowsOf[w] # None
      BY <1>2, <2>1, EntryNotNone
    <3>3. QED
      BY <3>1, <3>2
  <2>3. RowsOf' = [RowsOf EXCEPT ![w] =
                     [attempt |-> a, verdict |-> new.verdict, hint |-> row.hint # None]]
    BY <1>1, <1>2, <1>3, <2>1 DEF RowsOf, LedgerRow
  <2>4. CASE new.verdict = row.verdict
    <3>1. UNCHANGED RowsOf
      BY <2>2, <2>3, <2>4 DEF RowsOf
    <3>2. Ledger!Settle(w)
      BY <1>5, <1>6, <2>2, <3>1 DEF Ledger!Settle, RowsOf, RulingOf
    <3>3. QED
      BY <3>2 DEF Ledger!Next
  <2>5. CASE new.verdict # row.verdict
    <3>1. row.verdict = None
      <4>1. LogSafe(w) /\ LogSafe(w)
        BY DEF SafeInv
      <4>2. row.verdict # None => row.verdict = graded[OwnKey(a)].verdict
        BY <1>3, <2>1, <4>1 DEF LogSafe, Logged
      <4>3. new.verdict = graded[OwnKey(a)].verdict
        BY <1>1, <1>2, <1>31, <2>5 DEF ReqSafe
      <4>4. QED
        BY <2>5, <4>2, <4>3
    <3>2. new.verdict \in Ledger!Known(a)
      BY <1>4, <2>5
    <3>3. RowsOf' = [RowsOf EXCEPT ![w] =
                       Ledger!Entry(RowsOf[w].attempt, new.verdict, RowsOf[w].hint)]
      BY <2>2, <2>3 DEF Ledger!Entry
    <3>4. RowsOf[w] # None /\ RowsOf[w].attempt = a /\ RowsOf[w].verdict = None
      BY <2>2, <3>1
    <3>5. Ledger!Settle(w)
      BY <1>5, <1>6, <3>2, <3>3, <3>4 DEF Ledger!Settle, RowsOf, RulingOf
    <3>6. QED
      BY <3>5 DEF Ledger!Next
  <2>6. QED
    BY <2>4, <2>5
<1>9. QED
  BY <1>7, <1>8

LEMMA CommitHintShows ==
  ASSUME SafeInv, NEW f \in Fetch, CommitHint(f)
  PROVE  Ledger!Next
<1>1. PICK w \in Request, new \in Row :
        /\ w = FetchedRow(f)
        /\ Logged(w) /\ new # None
        /\ fetch[f].hintReq \in Request /\ hintReqs[fetch[f].hintReq] # None
        /\ logs' = [logs EXCEPT ![w] = new]
        /\ new.attempt = logs[w].attempt /\ new.verdict = logs[w].verdict
        /\ new.hint = Stored(logs[w].hint, fetch[f].loadedHint,
                             hintReqs[fetch[f].hintReq].token)
        /\ hintReqs[fetch[f].hintReq].token \in Key
  BY CommitHintWrites DEF SafeInv
<1>2. /\ UNCHANGED <<graded, hintReqs>>
      /\ logs \in [Request -> Row \cup {None}]
  BY DEF CommitHint, SafeInv, TypeInv, TypeOK
<1>3. new.hint # None
  <2>1. fetch[f].loadedHint # None => logs[w].hint # None
    BY <1>1 DEF CommitHint, SafeInv, FetchSafe
  <2>2. QED
    BY <1>1, <2>1, NoneAssumption DEF Stored
<1>4. RowsOf' = [RowsOf EXCEPT ![w] =
                   Ledger!Entry(RowsOf[w].attempt, RowsOf[w].verdict, TRUE)]
  <2>1. RowsOf[w] = [attempt |-> logs[w].attempt, verdict |-> logs[w].verdict,
                     hint |-> logs[w].hint # None]
    BY <1>1 DEF RowsOf, LedgerRow, Logged
  <2>2. RowsOf' = [RowsOf EXCEPT ![w] = [attempt |-> logs[w].attempt,
                                         verdict |-> logs[w].verdict, hint |-> TRUE]]
    BY <1>1, <1>2, <1>3 DEF RowsOf, LedgerRow
  <2>3. QED
    BY <2>1, <2>2 DEF Ledger!Entry
<1>5. w \in Offered /\ UNCHANGED <<Offered, RulingOf>>
  BY <1>1, <1>2 DEF Offered, FetchedRow, RulingOf
<1>6. Ledger!Show(w)
  BY <1>4, <1>5 DEF Ledger!Show, RowsOf, RulingOf
<1>7. QED
  BY <1>6 DEF Ledger!Next

LEMMA StepImplementsLedger ==
  ASSUME SafeInv, SafeInv', AllCurrent, [Next]_vars
  PROVE  [Ledger!Next]_(Ledger!ledger)
<1>1. ASSUME UNCHANGED <<logs, hintReqs, graded>>
      PROVE  UNCHANGED Ledger!ledger
  BY <1>1 DEF Ledger!ledger, LedgerRow, Offered
<1>2. ASSUME NEW q \in Request, TutorGrades(q) \/ CommitLog(q)
      PROVE  Ledger!Next
  BY <1>2, TutorGradesRules, CommitLogSettles
<1>3. ASSUME NEW f \in Fetch, CommitHint(f)
      PROVE  Ledger!Next
  BY <1>3, CommitHintShows
<1>4. QED
  BY <1>1, <1>2, <1>3
  DEF Next, RequestStep, FetchStep, vars, Report, Retry, GradeAnswered, GradeUnanswered,
      LookUp, Count, Insert, RequestFails, AskHint, TutorHints, FetchFails, LoadRow

\* With current clients the handlers and the tutor together implement the
\* ledger, for any numbers of students, attempts, requests and hint fetches
\* (submissions.py:110-237).
THEOREM LogImplementsLedger == AllCurrent => (Spec => ImplementsLedger)
<1> SUFFICES ASSUME AllCurrent PROVE Spec => ImplementsLedger
  OBVIOUS
<1>1. SafeInv /\ SafeInv' /\ [Next]_vars => [Ledger!Next]_(Ledger!ledger)
  BY StepImplementsLedger
<1>2. QED
  BY <1>1, InitLedger, SafeInvHolds, PTL DEF Spec, ImplementsLedger, Ledger!Spec
=============================================================================
