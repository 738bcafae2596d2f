--------------------------- MODULE TeachingProofs ---------------------------
(***************************************************************************)
(* What holds of the teaching consoles and of the exam gate, for every     *)
(* schedule, limit, number of consoles and items, and length of exam.      *)
(*                                                                         *)
(* GateHolds is not inductive: it says how late a submission was, not why. *)
(* GateInv adds what the gate knows.  An open gate is at most one second   *)
(* old, or two while this second's turn is still to come; and a clock that *)
(* has had its turn shows what the rules say.  Nothing is needed of the    *)
(* lists of items, so their types are left out of it.                      *)
(*                                                                         *)
(* TeachInv is about the lists: the types, that the consoles agree, and    *)
(* what an open editor holds.  It holds a deleted item only if the         *)
(* crossing has been noted, and a schedule that differs from the one it    *)
(* was opened on in the rule that was typed.                               *)
(*                                                                         *)
(* What becomes of a list under Array.filter is proved by least numbers:   *)
(* a claim about its first 0, 1, ... items that fails has a least one that *)
(* it fails for.                                                           *)
(***************************************************************************)
EXTENDS Teaching, WellFoundedInduction, TLAPS

Closable == Schedule \cup {None}

\* A console is a record whose copy of the schedule and whose open editor of
\* it are schedules; its list may be anything.
ConsoleOK(c) ==
  /\ c = [view |-> c.view, cfg |-> c.cfg, draft |-> c.draft, sched |-> c.sched]
  /\ c.cfg \in Closable /\ c.sched \in Change \cup {None}

GateType ==
  /\ config \in Closable
  /\ con = [t \in Consoles |-> con[t]] /\ \A t \in Consoles : ConsoleOK(con[t])
  /\ now \in Time /\ due \subseteq {"gate", "bar"} /\ started \in Time \cup {None}
  /\ userData \in BOOLEAN /\ page \in {"course", "entering", "exam"} /\ fresh \in BOOLEAN
  /\ bar \in BOOLEAN
  /\ shut \in 0 .. 3 /\ late \in 0 .. 3

\* shut counts from the moment the rules close the exam.
ShutTells == shut = 0 <=> OpenByRules(config, started, now)

\* An open gate lags behind the rules by at most the second it looked at.
GateLag ==
  userData /\ page = "exam" /\ gate = "open" => shut <= 1 \/ (shut = 2 /\ "gate" \in due)

\* A clock that has had its turn of the second shows what it looked up.
GateSeen == userData /\ page = "exam" /\ fresh /\ "gate" \notin due => gate = Reason(config, started)
BarSeen  == userData /\ page = "exam" /\ "bar" \notin due => bar = BarUp

GateInv ==
  /\ GateType /\ ShutTells /\ GateLag /\ GateSeen /\ BarSeen
  /\ userData => late <= 2

-----------------------------------------------------------------------------
(* Consoles.                                                               *)

ConsolesOK == con = [t \in Consoles |-> con[t]] /\ \A t \in Consoles : ConsoleOK(con[t])

\* Replacing one console by a well-formed one.
LEMMA ReplacedOK ==
  ASSUME ConsolesOK, NEW t \in Consoles, NEW c, ConsoleOK(c), con' = [con EXCEPT ![t] = c]
  PROVE  ConsolesOK'
BY DEF ConsolesOK, ConsoleOK

\* What the editor of the schedule holds is a schedule.
LEMMA ShownIsSchedule ==
  ASSUME NEW cfg \in Closable, NEW change \in Typed
  PROVE  [Shown(cfg) EXCEPT ![change[1]] = change[2]] \in Schedule
<1>1. Shown(cfg) \in Schedule
  BY TeachingAssumption DEF Shown, Closable, Schedule
<1>2. change[1] \in Rules /\ change[2] \in Time \cup {0}
  BY TeachingAssumption
<1>3. Legacy \in Nat /\ MaxTime \in Nat
  BY TeachingAssumption
<1> QED  BY <1>1, <1>2, <1>3 DEF Schedule, Rules, Time

\* What a step of a console leaves of the others' view of it: the consoles
\* keep their shape, and the schedule is changed by its two writers only.
LEMMA ConsoleStep ==
  ASSUME GateInv, NEW t \in Consoles,
         \/ Deliver(t) \/ Reopen(t) \/ Cancel(t)
         \/ \E b \in Bodies : OpenNew(t, b) \/ \E i \in 1 .. Len(con[t].view) : OpenEdit(t, i, b)
         \/ \E id \in Ids : Save(t, id) \/ Remove(t, id)
         \/ \E ch \in Typed : OpenSchedule(t, ch[1], ch[2])
  PROVE  ConsolesOK' /\ UNCHANGED <<config, student, shut>>
<1> USE DEF ConsoleOK
<1>0. ConsolesOK /\ config \in Closable /\ ConsoleOK(con[t])
  BY DEF GateInv, GateType, ConsolesOK
<1>1. CASE Deliver(t)
  <2>1. con' = [con EXCEPT ![t] = [con[t] EXCEPT !.view = items, !.cfg = config]]
    BY <1>0, <1>1 DEF Deliver, ConsolesOK
  <2>2. ConsoleOK([con[t] EXCEPT !.view = items, !.cfg = config])
    <3> DEFINE c == [con[t] EXCEPT !.view = items]
    <3>1. ConsoleOK(c)
      BY <1>0
    <3> HIDE DEF c
    <3>2. ConsoleOK([c EXCEPT !.cfg = config])
      BY <1>0, <3>1
    <3> QED  BY <3>2 DEF c
  <2>3. UNCHANGED <<config, student, shut>>
    BY <1>1 DEF Deliver
  <2> QED  BY <1>0, <2>1, <2>2, <2>3, ReplacedOK
<1>2. CASE Reopen(t)
  <2>1. ConsoleOK([view |-> items, cfg |-> config, draft |-> None, sched |-> None])
    BY <1>0
  <2> QED  BY <1>0, <1>2, <2>1, ReplacedOK DEF Reopen
<1>3. CASE Cancel(t)
  <2>1. con' = [con EXCEPT ![t] = [con[t] EXCEPT !.draft = None, !.sched = None]]
    BY <1>0, <1>3 DEF Cancel, ConsolesOK
  <2>2. ConsoleOK([con[t] EXCEPT !.draft = None, !.sched = None])
    <3> DEFINE c == [con[t] EXCEPT !.draft = None]
    <3>1. ConsoleOK(c)
      BY <1>0
    <3> HIDE DEF c
    <3>2. ConsoleOK([c EXCEPT !.sched = None])
      BY <3>1
    <3> QED  BY <3>2 DEF c
  <2>3. UNCHANGED <<config, student, shut>>
    BY <1>3 DEF Cancel
  <2> QED  BY <1>0, <2>1, <2>2, <2>3, ReplacedOK
<1>4. ASSUME NEW b \in Bodies, OpenNew(t, b)
      PROVE  ConsolesOK' /\ UNCHANGED <<config, student, shut>>
  <2>1. con' = [con EXCEPT ![t] = [con[t] EXCEPT !.draft = [id |-> None, body |-> b]]]
    BY <1>4 DEF OpenNew
  <2>2. ConsoleOK([con[t] EXCEPT !.draft = [id |-> None, body |-> b]])
    BY <1>0
  <2> QED  BY <1>0, <1>4, <2>1, <2>2, ReplacedOK DEF OpenNew
<1>5. ASSUME NEW b \in Bodies, NEW i \in 1 .. Len(con[t].view), OpenEdit(t, i, b)
      PROVE  ConsolesOK' /\ UNCHANGED <<config, student, shut>>
  <2> DEFINE d == [id |-> con[t].view[i].id, body |-> b]
  <2>1. con' = [con EXCEPT ![t] = [con[t] EXCEPT !.draft = d]]
    BY <1>5 DEF OpenEdit
  <2>2. ConsoleOK([con[t] EXCEPT !.draft = d])
    BY <1>0
  <2> QED  BY <1>0, <1>5, <2>1, <2>2, ReplacedOK DEF OpenEdit
<1>6. ASSUME NEW id \in Ids, Save(t, id) \/ Remove(t, id)
      PROVE  ConsolesOK' /\ UNCHANGED <<config, student, shut>>
  <2>1. Write(t) /\ UNCHANGED <<config, student, shut>>
    BY <1>6 DEF Save, Remove
  <2>2. ConsoleOK([view |-> items', cfg |-> config', draft |-> None, sched |-> None])
    BY <1>0, <2>1
  <2> QED  BY <1>0, <2>1, <2>2, ReplacedOK DEF Write, Refreshed
<1>7. ASSUME NEW ch \in Typed, OpenSchedule(t, ch[1], ch[2])
      PROVE  ConsolesOK' /\ UNCHANGED <<config, student, shut>>
  <2> DEFINE s == [Shown(con[t].cfg) EXCEPT ![ch[1]] = ch[2]]
             x == [rules |-> s, typed |-> ch[1], shown |-> con[t].cfg]
  <2>1. con' = [con EXCEPT ![t] = [con[t] EXCEPT !.sched = x]]
    BY <1>7 DEF OpenSchedule
  <2>2. x \in Change
    BY <1>0, ShownIsSchedule, TeachingAssumption DEF Change, Closable
  <2>3. ConsoleOK([con[t] EXCEPT !.sched = x])
    BY <1>0, <2>2
  <2>4. UNCHANGED <<config, student, shut>>
    BY <1>7 DEF OpenSchedule
  <2> HIDE DEF x
  <2> QED  BY <1>0, <2>1, <2>3, <2>4, ReplacedOK
<1> QED  BY <1>1, <1>2, <1>3, <1>4, <1>5, <1>6, <1>7

\* The two writers of the schedule leave a schedule, or none.
LEMMA ScheduleStep ==
  ASSUME GateInv, NEW t \in Consoles, SaveSchedule(t) \/ ClearSchedule(t)
  PROVE  /\ ConsolesOK' /\ config' \in Closable /\ Shuts /\ fresh' = FALSE
         /\ UNCHANGED <<now, due, started, userData, page, gate, bar, late>>
<1>1. ConsolesOK /\ ConsoleOK(con[t])
  BY DEF GateInv, GateType, ConsolesOK
<1>2. config' \in Closable
  <2>1. CASE SaveSchedule(t)
    <3>1. con[t].sched \in Change
      BY <1>1, <2>1 DEF SaveSchedule, ConsoleOK
    <3> QED  BY <2>1, <3>1 DEF SaveSchedule, Change, Closable
  <2> QED  BY <2>1 DEF ClearSchedule, Closable
<1>3. ConsoleOK([view |-> items', cfg |-> config', draft |-> None, sched |-> None])
  BY <1>2 DEF ConsoleOK
<1>4. Write(t)
  BY DEF SaveSchedule, ClearSchedule
<1>5. ConsolesOK'
  BY <1>1, <1>3, <1>4, ReplacedOK DEF Write, Refreshed
<1> QED  BY <1>2, <1>5 DEF SaveSchedule, ClearSchedule

-----------------------------------------------------------------------------
(* The clocks.                                                             *)

\* The gate shows "open" exactly while the rules have the exam open.
LEMMA ReasonIsRule ==
  ASSUME NEW cfg \in Closable, NEW start \in Time \cup {None}, now \in Time
  PROVE  Reason(cfg, start) = "open" <=> OpenByRules(cfg, start, now)
<1>1. start # None => start \in Nat
  BY DEF Time
<1>2. now \in Nat /\ Legacy \in Nat /\ None \notin Schedule
  BY TeachingAssumption DEF Time
<1>3. CASE cfg = None
  BY <1>1, <1>2, <1>3 DEF Reason, OpenByRules
<1>4. CASE cfg # None
  <2>1. cfg.open \in Nat /\ cfg.close \in Nat /\ cfg.limit \in Nat
    BY <1>4, TeachingAssumption DEF Closable, Schedule, Time
  <2> QED  BY <1>1, <1>2, <1>4, <2>1 DEF Reason, OpenByRules
<1> QED  BY <1>3, <1>4

\* Where no schedule is set, the gate and the bar follow one rule.
LEMMA BarIsGate ==
  ASSUME userData, config = None
  PROVE  BarUp <=> Reason(config, started) = "time_up"
BY DEF BarUp, Reason, Seen

\* shut is 0 exactly while the rules leave the exam open, and grows by one
\* when a second passes.
LEMMA ShutCounts ==
  ASSUME GateInv, Shuts, now' \in Time
  PROVE  /\ ShutTells' /\ shut' \in 0 .. 3
         /\ now' = now => shut' <= shut \/ shut' <= 1
         /\ shut' <= shut + 1
BY DEF GateInv, GateType, Shuts, ShutTells

\* What a step does that changes nothing the clocks read.
LEMMA IdleStep ==
  ASSUME GateInv, ConsolesOK', UNCHANGED <<config, student, shut>>
  PROVE  GateInv'
BY DEF GateInv, GateType, ConsolesOK, ShutTells, GateLag, GateSeen, BarSeen, student,
       Reason, BarUp, Seen

-----------------------------------------------------------------------------
(* The invariant.                                                          *)

LEMMA GateInit == Init => GateInv
<1> SUFFICES ASSUME Init PROVE GateInv
  OBVIOUS
<1>1. config \in Closable /\ now \in Time /\ shut \in 0 .. 3 /\ late \in 0 .. 3
  BY TeachingAssumption DEF Init, Closable, Time
<1>2. con = [t \in Consoles |-> con[t]] /\ \A t \in Consoles : ConsoleOK(con[t])
  BY <1>1 DEF Init, ConsoleOK
<1>3. GateType
  BY <1>1, <1>2 DEF Init, GateType
<1>4. ShutTells /\ GateLag /\ GateSeen /\ BarSeen /\ late <= 2
  BY DEF Init, ShutTells, GateLag, GateSeen, BarSeen
<1> QED  BY <1>3, <1>4 DEF GateInv

LEMMA GateNext == GateInv /\ [Next]_vars => GateInv'
<1> SUFFICES ASSUME GateInv, [Next]_vars PROVE GateInv'
  OBVIOUS
<1>0. GateType /\ ConsolesOK /\ ShutTells /\ now \in Nat /\ MaxTime \in Nat
  BY TeachingAssumption DEF GateInv, GateType, ConsolesOK, Time
<1>1. ASSUME NEW t \in Consoles,
             \/ Deliver(t) \/ Reopen(t) \/ Cancel(t)
             \/ \E b \in Bodies : OpenNew(t, b) \/ \E i \in 1 .. Len(con[t].view) : OpenEdit(t, i, b)
             \/ \E id \in Ids : Save(t, id) \/ Remove(t, id)
             \/ \E ch \in Typed : OpenSchedule(t, ch[1], ch[2])
      PROVE  GateInv'
  BY <1>1, ConsoleStep, IdleStep
<1>2. ASSUME NEW t \in Consoles, SaveSchedule(t) \/ ClearSchedule(t)
      PROVE  GateInv'
  <2>1. /\ ConsolesOK' /\ config' \in Closable /\ Shuts /\ fresh' = FALSE
        /\ UNCHANGED <<now, due, started, userData, page, gate, bar, late>>
    BY <1>2, ScheduleStep
  <2>2. /\ ShutTells' /\ shut' \in 0 .. 3
        /\ shut' <= shut \/ shut' <= 1
    BY <1>0, <2>1, ShutCounts DEF GateType
  <2>3. GateLag'
    BY <2>1, <2>2 DEF GateInv, GateType, GateLag
  <2>4. GateSeen' /\ BarSeen'
    BY <2>1 DEF GateInv, GateSeen, BarSeen, BarUp, Seen
  <2> QED  BY <1>0, <2>1, <2>2, <2>3, <2>4 DEF GateInv, GateType, ConsolesOK
<1>3. CASE StartExam
  <2>1. ShutTells' /\ shut' \in 0 .. 3
    BY <1>0, <1>3, ShutCounts DEF StartExam, GateType
  <2>2. ConsolesOK' /\ UNCHANGED config
    BY <1>0, <1>3 DEF StartExam, teach, ConsolesOK
  <2> QED  BY <1>0, <1>3, <2>1, <2>2 DEF StartExam, GateInv, GateType, ConsolesOK,
              GateLag, GateSeen, BarSeen
<1>4. CASE Arrive
  <2>1. ConsolesOK' /\ UNCHANGED <<config, now, started, userData, late, fresh, shut>>
    BY <1>0, <1>4 DEF Arrive, teach, ConsolesOK
  <2>2. userData => gate' = Reason(config, started)
    BY <1>4 DEF Arrive, Seen
  <2>3. userData /\ gate' = "open" => shut = 0
    BY <1>0, <2>2, ReasonIsRule DEF GateType, ShutTells
  <2>4. GateSeen' /\ BarSeen'
    BY <1>4, <2>1, <2>2 DEF Arrive, GateSeen, BarSeen, Reason, BarUp, Seen
  <2> QED  BY <1>0, <1>4, <2>1, <2>3, <2>4 DEF Arrive, GateInv, GateType, ConsolesOK,
              ShutTells, GateLag, BarUp
<1>5. CASE Leave
  <2>1. ConsolesOK' /\ UNCHANGED <<config, now, started, userData, late, fresh, shut>>
    BY <1>0, <1>5 DEF Leave, teach, ConsolesOK
  <2>2. page' = "course" /\ due' = {} /\ bar' = FALSE
    BY <1>5 DEF Leave
  <2>3. ShutTells' /\ GateLag' /\ GateSeen' /\ BarSeen'
    BY <1>0, <2>1, <2>2 DEF ShutTells, GateLag, GateSeen, BarSeen
  <2> QED  BY <1>0, <2>1, <2>2, <2>3 DEF GateInv, GateType, ConsolesOK
<1>6. CASE Tick
  <2>1. ConsolesOK' /\ UNCHANGED <<config, started, userData, page, gate, bar, late>>
    BY <1>0, <1>6 DEF Tick, teach, ConsolesOK
  <2>2. now' \in Time
    BY <1>0, <1>6 DEF Tick, GateType, Time
  <2>3. ShutTells' /\ shut' \in 0 .. 3 /\ shut' <= shut + 1
    BY <1>6, <2>2, ShutCounts DEF Tick
  <2>4. GateLag'
    BY <1>0, <1>6, <2>1, <2>3 DEF Tick, GateInv, GateType, GateLag
  <2> QED  BY <1>0, <1>6, <2>1, <2>2, <2>3, <2>4 DEF Tick, GateInv, GateType, ConsolesOK,
              GateSeen, BarSeen
<1>7. CASE EvaluateGate
  <2>1. ConsolesOK' /\ UNCHANGED <<config, now, started, userData, page, bar, late, fresh, shut>>
    BY <1>0, <1>7 DEF EvaluateGate, teach, ConsolesOK
  <2>2. userData => gate' = Reason(config, started)
    BY <1>7 DEF EvaluateGate, Seen
  <2>3. userData /\ gate' = "open" => shut = 0
    BY <1>0, <2>2, ReasonIsRule DEF GateType, ShutTells
  <2>4. GateSeen' /\ BarSeen'
    BY <1>7, <2>1, <2>2 DEF EvaluateGate, GateInv, GateSeen, BarSeen, Reason, BarUp, Seen
  <2> QED  BY <1>0, <1>7, <2>1, <2>3, <2>4 DEF EvaluateGate, GateInv, GateType, ConsolesOK,
              ShutTells, GateLag
<1>8. CASE EvaluateBar
  <2>1. ConsolesOK' /\ UNCHANGED <<config, now, started, userData, page, gate, late, fresh, shut>>
    BY <1>0, <1>8 DEF EvaluateBar, teach, ConsolesOK
  <2>2. GateSeen' /\ BarSeen'
    BY <1>8, <2>1 DEF EvaluateBar, GateInv, GateSeen, BarSeen, Reason, BarUp, Seen
  <2> QED  BY <1>0, <1>8, <2>1, <2>2 DEF EvaluateBar, GateInv, GateType, ConsolesOK,
              ShutTells, GateLag, BarUp
<1>9. CASE Submit
  <2>1. ConsolesOK' /\ UNCHANGED <<config, now, due, started, userData, page, gate, bar, fresh, shut>>
    BY <1>0, <1>9 DEF Submit, teach, ConsolesOK
  <2>2. late' \in 0 .. 3 /\ (userData => late' <= 2)
    BY <1>0, <1>9 DEF Submit, GateInv, GateType, GateLag
  <2>3. GateSeen' /\ BarSeen'
    BY <2>1 DEF GateInv, GateSeen, BarSeen, Reason, BarUp, Seen
  <2> QED  BY <1>0, <2>1, <2>2, <2>3 DEF GateInv, GateType, ConsolesOK, ShutTells, GateLag
<1>10. CASE LoseUserData
  <2>1. ConsolesOK' /\ UNCHANGED <<config, now, due, started, page, gate, bar, late, fresh, shut>>
    BY <1>0, <1>10 DEF LoseUserData, teach, ConsolesOK
  <2> QED  BY <1>0, <1>10, <2>1 DEF LoseUserData, GateInv, GateType, ConsolesOK,
              ShutTells, GateLag, GateSeen, BarSeen
<1>11. CASE UNCHANGED vars
  BY <1>0, <1>11, IdleStep DEF vars, teach, ConsolesOK
<1> QED  BY <1>1, <1>2, <1>3, <1>4, <1>5, <1>6, <1>7, <1>8, <1>9, <1>10, <1>11 DEF Next

\* However a schedule is edited while students work, and whatever its times, a
\* submission that the gate lets through has at most this second and the one
\* before of closed exam behind it, and without a schedule gate and time bar
\* run out together (RightPanel.jsx:75-100, LeftPanel.jsx's TimerBar), for as
\* long as userData is there.
THEOREM ExamGateHolds == Spec => []GateHolds
<1>1. GateInv => GateHolds
  <2> SUFFICES ASSUME GateInv, userData PROVE
        /\ late <= 2
        /\ (page = "exam" /\ due = {} /\ fresh /\ config = None) => (bar <=> gate = "time_up")
    BY DEF GateHolds
  <2>1. ASSUME page = "exam", due = {}, fresh, config = None
        PROVE  bar <=> gate = "time_up"
    BY <2>1, BarIsGate DEF GateInv, GateSeen, BarSeen
  <2> QED  BY <2>1 DEF GateInv
<1> QED  BY <1>1, GateInit, GateNext, PTL DEF Spec
-----------------------------------------------------------------------------
(* Filtered lists.  What a step of an induction needs of a list is that    *)
(* its length is a number; the items may be anything with an id.           *)

\* A set of numbers has a least one.
LEMMA Least ==
  ASSUME NEW T \in SUBSET Nat, T # {}
  PROVE  \E m \in T : \A k \in T : m <= k
<1> DEFINE R == OpToRel(<, Nat)
<1>1. IsWellFoundedOn(R, Nat)
  BY NatLessThanWellFounded
<1>2. \A k, m \in Nat : k < m => <<k, m>> \in R
  BY DEF OpToRel
<1> HIDE DEF R
<1>3. PICK m \in T : \A k \in T : ~ (<<k, m>> \in R)
  BY <1>1, WFMin
<1>4. ASSUME NEW k \in T PROVE m <= k
  <2>1. k \in Nat /\ m \in Nat
    OBVIOUS
  <2>2. ~ (k < m)
    BY <1>2, <1>3, <2>1
  <2> QED  BY <2>1, <2>2
<1> QED  BY <1>4

\* A set that has 0 and with each number up to n its successor has them all.
LEMMA Climb ==
  ASSUME NEW n \in Nat, NEW S, 0 \in S, \A k \in 0 .. n : k \in S /\ k < n => k + 1 \in S
  PROVE  \A k \in 0 .. n : k \in S
<1> DEFINE T == {k \in 0 .. n : k \notin S}
<1>1. ASSUME T # {} PROVE FALSE
  <2>1. T \in SUBSET Nat
    OBVIOUS
  <2>2. PICK m \in T : \A k \in T : m <= k
    <3> HIDE DEF T
    <3> QED  BY <1>1, <2>1, Least
  <2>3. m # 0 /\ m - 1 \in 0 .. n /\ m - 1 \in S /\ m - 1 < n
    BY <2>2
  <2> QED  BY <2>2, <2>3
<1> QED  BY <1>1

\* The recursive definition of Filtering has the values it says.
LEMMA FilterStep ==
  ASSUME NEW list, Len(list) \in Nat, NEW ids
  PROVE  LET f == Filtering(list, ids) IN
         /\ f[0] = <<>>
         /\ \A n \in 1 .. Len(list) :
              f[n] = IF list[n].id \in ids THEN Append(f[n - 1], list[n]) ELSE f[n - 1]
<1> DEFINE N == Len(list)
           Step(n, before) == IF n = 0 THEN <<>>
                              ELSE IF list[n].id \in ids THEN Append(before, list[n]) ELSE before
           Is(g, m) == g = [n \in 0 .. m |-> Step(n, g[n - 1])]
           S == {m \in 0 .. N : \E g : Is(g, m)}
<1>1. 0 \in S
  <2> DEFINE h == [n \in 0 .. 0 |-> <<>>]
  <2>1. Is(h, 0)
    OBVIOUS
  <2> HIDE DEF Is, h
  <2> QED  BY <2>1
<1>2. ASSUME NEW m \in 0 .. N, m \in S, m < N PROVE m + 1 \in S
  <2>1. PICK g : Is(g, m)
    BY <1>2
  <2> DEFINE h == [n \in 0 .. m + 1 |-> IF n = m + 1 THEN Step(n, g[m]) ELSE g[n]]
  <2> HIDE DEF Step
  <2>2. \A n \in 0 .. m + 1 : h[n] = Step(n, h[n - 1])
    <3>1. \A n \in 0 .. m : g[n] = Step(n, g[n - 1])
      BY <2>1
    <3>2. ASSUME NEW n \in 0 .. m + 1 PROVE h[n] = Step(n, h[n - 1])
      <4>1. CASE n = m + 1
        BY <4>1
      <4>2. CASE n # m + 1 /\ n # 0
        BY <3>1, <4>2
      <4>3. CASE n = 0
        BY <3>1, <4>3 DEF Step
      <4> QED  BY <4>1, <4>2, <4>3
    <3> QED  BY <3>2
  <2>3. Is(h, m + 1)
    BY <2>2
  <2> HIDE DEF Is, h
  <2> QED  BY <1>2, <2>3
<1>3. N \in S
  <2> HIDE DEF S
  <2>1. \A k \in 0 .. N : k \in S
    BY <1>1, <1>2, Climb
  <2> QED  BY <2>1
<1> DEFINE f == Filtering(list, ids)
<1>4. Is(f, N)
  <2>1. \E g : Is(g, N)
    BY <1>3
  <2>2. f = CHOOSE g : Is(g, N)
    BY DEF Filtering
  <2> HIDE DEF f, Is
  <2> QED  BY <2>1, <2>2
<1> HIDE DEF f
<1>5. \A n \in 0 .. N : f[n] = Step(n, f[n - 1])
  BY <1>4
<1>6. f[0] = <<>> /\ \A n \in 1 .. N :
        f[n] = IF list[n].id \in ids THEN Append(f[n - 1], list[n]) ELSE f[n - 1]
  BY <1>5
<1> QED  BY <1>6 DEF f
\* The first n items filtered: items of the list, with the ids asked for, each
\* from a place of its own.
LEMMA FilterType ==
  ASSUME NEW list \in Seq(Item), NEW ids
  PROVE  LET f == Filtering(list, ids) IN
         \A n \in 0 .. Len(list) :
           /\ f[n] \in Seq(Item)
           /\ \A j \in 1 .. Len(f[n]) :
                f[n][j].id \in ids /\ \E i \in 1 .. n : f[n][j] = list[i]
<1> DEFINE f == Filtering(list, ids)
           P(n) == /\ f[n] \in Seq(Item)
                   /\ \A j \in 1 .. Len(f[n]) :
                        f[n][j].id \in ids /\ \E i \in 1 .. n : f[n][j] = list[i]
           S == {n \in 0 .. Len(list) : P(n)}
<1>0. Len(list) \in Nat
  OBVIOUS
<1>1. /\ f[0] = <<>>
      /\ \A n \in 1 .. Len(list) :
           f[n] = IF list[n].id \in ids THEN Append(f[n - 1], list[n]) ELSE f[n - 1]
  BY <1>0, FilterStep
<1> HIDE DEF f
<1>2. P(0)
  BY <1>1
<1>3. ASSUME NEW n \in 0 .. Len(list), P(n), n < Len(list) PROVE P(n + 1)
  <2>1. n + 1 \in 1 .. Len(list) /\ (n + 1) - 1 = n /\ list[n + 1] \in Item
    BY <1>3
  <2>2. f[n + 1] = IF list[n + 1].id \in ids THEN Append(f[n], list[n + 1]) ELSE f[n]
    BY <1>1, <2>1
  <2>3. CASE list[n + 1].id \in ids
    <3>1. f[n + 1] = Append(f[n], list[n + 1])
      BY <2>2, <2>3
    <3>2. f[n + 1] \in Seq(Item) /\ Len(f[n + 1]) = Len(f[n]) + 1
      BY <1>3, <2>1, <3>1
    <3>3. ASSUME NEW j \in 1 .. Len(f[n + 1])
          PROVE  f[n + 1][j].id \in ids /\ \E i \in 1 .. n + 1 : f[n + 1][j] = list[i]
      <4>1. CASE j = Len(f[n]) + 1
        <5>1. f[n + 1][j] = list[n + 1]
          BY <1>3, <3>1, <4>1
        <5> QED  BY <2>1, <2>3, <5>1
      <4>2. CASE j # Len(f[n]) + 1
        <5>1. j \in 1 .. Len(f[n]) /\ f[n + 1][j] = f[n][j]
          BY <1>3, <3>1, <3>2, <4>2
        <5>2. f[n][j].id \in ids /\ \E i \in 1 .. n : f[n][j] = list[i]
          BY <1>3, <5>1
        <5> QED  BY <5>1, <5>2
      <4> QED  BY <4>1, <4>2
    <3> QED  BY <3>2, <3>3
  <2>4. CASE list[n + 1].id \notin ids
    <3>1. f[n + 1] = f[n]
      BY <2>2, <2>4
    <3> QED  BY <1>3, <3>1
  <2> QED  BY <2>3, <2>4
<1> HIDE DEF P
<1>4. \A n \in 0 .. Len(list) : n \in S
  <2>1. 0 \in S /\ \A n \in 0 .. Len(list) : n \in S /\ n < Len(list) => n + 1 \in S
    BY <1>0, <1>2, <1>3
  <2> HIDE DEF S
  <2> QED  BY <1>0, <2>1, Climb
<1> QED  BY <1>4 DEF P, f

TakenFrom(g, list, ids) ==
  /\ g \in Seq(Item)
  /\ \A j \in 1 .. Len(g) :
       g[j].id \in ids /\ \E i \in 1 .. Len(list) : g[j] = list[i]

LEMMA FilteredType ==
  ASSUME NEW list \in Seq(Item), NEW ids
  PROVE  TakenFrom(Filtered(list, ids), list, ids)
<1>1. Len(list) \in 0 .. Len(list)
  OBVIOUS
<1> DEFINE f == Filtering(list, ids)
<1>2. \A n \in 0 .. Len(list) :
        /\ f[n] \in Seq(Item)
        /\ \A j \in 1 .. Len(f[n]) :
             f[n][j].id \in ids /\ \E i \in 1 .. n : f[n][j] = list[i]
  BY FilterType
<1>3. Filtered(list, ids) = f[Len(list)]
  BY DEF Filtered
<1> HIDE DEF f
<1> QED  BY <1>1, <1>2, <1>3 DEF TakenFrom

\* Lists that agree on the items asked for filter alike.
LEMMA FilterSame ==
  ASSUME NEW one, NEW two, NEW ids, NEW n \in Nat,
         Len(one) \in Nat, Len(two) \in Nat, n <= Len(one), n <= Len(two),
         \A k \in 1 .. n : one[k] = two[k] \/ (one[k].id \notin ids /\ two[k].id \notin ids)
  PROVE  Filtering(one, ids)[n] = Filtering(two, ids)[n]
<1> DEFINE f == Filtering(one, ids)
           g == Filtering(two, ids)
           S == {k \in 0 .. n : f[k] = g[k]}
<1>1. /\ f[0] = <<>>
      /\ \A k \in 1 .. Len(one) :
           f[k] = IF one[k].id \in ids THEN Append(f[k - 1], one[k]) ELSE f[k - 1]
  BY FilterStep
<1>2. /\ g[0] = <<>>
      /\ \A k \in 1 .. Len(two) :
           g[k] = IF two[k].id \in ids THEN Append(g[k - 1], two[k]) ELSE g[k - 1]
  BY FilterStep
<1> HIDE DEF f, g
<1>3. 0 \in S
  BY <1>1, <1>2
<1>4. ASSUME NEW k \in 0 .. n, f[k] = g[k], k < n PROVE f[k + 1] = g[k + 1]
  <2>1. k + 1 \in 1 .. n /\ k + 1 \in 1 .. Len(one) /\ k + 1 \in 1 .. Len(two) /\ (k + 1) - 1 = k
    BY <1>4
  <2> QED  BY <1>1, <1>2, <1>4, <2>1
<1>5. \A k \in 0 .. n : k \in S
  <2>1. \A k \in 0 .. n : k \in S /\ k < n => k + 1 \in S
    BY <1>4
  <2> HIDE DEF S
  <2> QED  BY <1>3, <2>1, Climb
<1> QED  BY <1>5 DEF f, g

\* Nothing is left where nothing has an id that was asked for.
LEMMA FilterNone ==
  ASSUME NEW list, NEW ids, Len(list) \in Nat, NEW n \in 0 .. Len(list),
         \A k \in 1 .. n : list[k].id \notin ids
  PROVE  Filtering(list, ids)[n] = <<>>
<1> DEFINE f == Filtering(list, ids)
           S == {k \in 0 .. n : f[k] = <<>>}
<1>0. n \in Nat
  OBVIOUS
<1>1. /\ f[0] = <<>>
      /\ \A k \in 1 .. Len(list) :
           f[k] = IF list[k].id \in ids THEN Append(f[k - 1], list[k]) ELSE f[k - 1]
  BY FilterStep
<1> HIDE DEF f
<1>2. ASSUME NEW k \in 0 .. n, f[k] = <<>>, k < n PROVE f[k + 1] = <<>>
  <2>1. k + 1 \in 1 .. n /\ k + 1 \in 1 .. Len(list) /\ (k + 1) - 1 = k
    BY <1>2
  <2> QED  BY <1>1, <1>2, <2>1
<1>3. \A k \in 0 .. n : k \in S
  <2>1. 0 \in S /\ \A k \in 0 .. n : k \in S /\ k < n => k + 1 \in S
    BY <1>1, <1>2
  <2> HIDE DEF S
  <2> QED  BY <1>0, <2>1, Climb
<1> QED  BY <1>3 DEF f

\* An item at the end is filtered at the end.
LEMMA FilterAppend ==
  ASSUME NEW list \in Seq(Item), NEW x \in Item, NEW ids
  PROVE  Filtered(Append(list, x), ids) =
           IF x.id \in ids THEN Append(Filtered(list, ids), x) ELSE Filtered(list, ids)
<1> DEFINE more == Append(list, x)
           n == Len(list)
<1>1. /\ n \in Nat /\ Len(more) = n + 1 /\ more[n + 1] = x
      /\ \A k \in 1 .. n : more[k] = list[k]
  OBVIOUS
<1> HIDE DEF more, n
<1>2. Filtering(more, ids)[n] = Filtering(list, ids)[n]
  BY <1>1, FilterSame DEF n
<1>3. Filtering(more, ids)[n + 1] =
        IF x.id \in ids THEN Append(Filtering(more, ids)[n], x) ELSE Filtering(more, ids)[n]
  <2>1. Len(more) \in Nat /\ n + 1 \in 1 .. Len(more) /\ (n + 1) - 1 = n
    BY <1>1
  <2> QED  BY <1>1, <2>1, FilterStep
<1>4. Filtered(more, ids) =
        IF x.id \in ids THEN Append(Filtered(list, ids), x) ELSE Filtered(list, ids)
  BY <1>1, <1>2, <1>3 DEF Filtered, n
<1> QED  BY <1>4 DEF more

\* Filtering twice asks for the ids that both ask for.
LEMMA FilterTwice ==
  ASSUME NEW list \in Seq(Item), NEW ids, NEW those
  PROVE  Filtered(Filtered(list, ids), those) = Filtered(list, ids \cap those)
<1> DEFINE f == Filtering(list, ids)
           g == Filtering(list, ids \cap those)
           N == Len(list)
           S == {n \in 0 .. N : Filtered(f[n], those) = g[n]}
<1>0. N \in Nat
  OBVIOUS
<1>1. /\ f[0] = <<>>
      /\ \A n \in 1 .. N :
           f[n] = IF list[n].id \in ids THEN Append(f[n - 1], list[n]) ELSE f[n - 1]
  BY <1>0, FilterStep
<1>2. /\ g[0] = <<>>
      /\ \A n \in 1 .. N :
           g[n] = IF list[n].id \in ids \cap those THEN Append(g[n - 1], list[n]) ELSE g[n - 1]
  BY <1>0, FilterStep
<1>3. \A n \in 0 .. N : f[n] \in Seq(Item)
  BY FilterType
<1> HIDE DEF f, g
<1>4. Filtered(f[0], those) = g[0]
  <2>1. Len(<<>>) = 0 /\ Len(<<>>) \in Nat
    OBVIOUS
  <2>2. Filtering(<<>>, those)[0] = <<>>
    BY <2>1, FilterStep
  <2> QED  BY <1>1, <1>2, <2>1, <2>2 DEF Filtered
<1>5. ASSUME NEW n \in 0 .. N, Filtered(f[n], those) = g[n], n < N
      PROVE  Filtered(f[n + 1], those) = g[n + 1]
  <2>1. n + 1 \in 1 .. N /\ (n + 1) - 1 = n /\ list[n + 1] \in Item
    BY <1>5
  <2>2. f[n + 1] = IF list[n + 1].id \in ids THEN Append(f[n], list[n + 1]) ELSE f[n]
    BY <1>1, <2>1
  <2>3. g[n + 1] = IF list[n + 1].id \in ids \cap those THEN Append(g[n], list[n + 1]) ELSE g[n]
    BY <1>2, <2>1
  <2>4. Filtered(Append(f[n], list[n + 1]), those) =
          IF list[n + 1].id \in those THEN Append(Filtered(f[n], those), list[n + 1])
          ELSE Filtered(f[n], those)
    BY <1>3, <2>1, FilterAppend
  <2> QED  BY <1>5, <2>2, <2>3, <2>4
<1>6. \A n \in 0 .. N : n \in S
  <2>1. 0 \in S /\ \A n \in 0 .. N : n \in S /\ n < N => n + 1 \in S
    BY <1>0, <1>4, <1>5
  <2> HIDE DEF S, N
  <2> QED  BY <1>0, <2>1, Climb
<1>7. Filtered(f[N], those) = g[N]
  BY <1>0, <1>6
<1>8. Filtered(list, ids) = f[N]
  BY DEF Filtered, f
<1>9. Filtered(list, ids \cap those) = g[N]
  BY DEF Filtered, g
<1> QED  BY <1>7, <1>8, <1>9
\* Two lists of items with the same items are one.
LEMMA SameList ==
  ASSUME NEW one \in Seq(Item), NEW two \in Seq(Item), Len(one) = Len(two),
         \A k \in 1 .. Len(one) : one[k] = two[k]
  PROVE  one = two
OBVIOUS

\* A list that replaces the first item with an id by x, and no other.
Replaces(new, list, i, id, x) ==
  /\ new \in Seq(Item) /\ Len(new) = Len(list) /\ new[i] = x
  /\ \A k \in 1 .. Len(list) : k # i => new[k] = list[k]
  /\ \A ids : id \notin ids => Filtered(new, ids) = Filtered(list, ids)
  /\ 1 \in DOMAIN Filtered(list, {id})
  /\ Filtered(new, {id}) = [Filtered(list, {id}) EXCEPT ![1] = x]

\* Giving the first item with an id another body replaces the first of the
\* id's items, and none of the others.
LEMMA FilterReplace ==
  ASSUME NEW list \in Seq(Item), NEW i \in 1 .. Len(list), NEW b \in Bodies,
         \A k \in 1 .. Len(list) : list[k].id = list[i].id => i <= k
  PROVE  Replaces([list EXCEPT ![i].body = b], list, i, list[i].id,
                  [id |-> list[i].id, body |-> b])
<1> DEFINE id  == list[i].id
           x   == [id |-> id, body |-> b]
           new == [list EXCEPT ![i].body = b]
           N   == Len(list)
           f   == Filtering(list, {id})
           g   == Filtering(new, {id})
<1>0. /\ N \in Nat /\ i \in 1 .. N /\ i - 1 \in 0 .. N /\ (i - 1) + 1 = i
      /\ Len(list) = N
  OBVIOUS
<1>1. list[i] \in Item /\ id \in Ids /\ x \in Item
  <2>1. list[i] \in Item
    OBVIOUS
  <2> QED  BY <2>1 DEF Item
<1>2. [list[i] EXCEPT !.body = b] = x
  BY <1>1 DEF Item
<1>3. /\ new \in Seq(Item) /\ Len(new) = N /\ new[i] = x
      /\ \A k \in 1 .. N : k # i => new[k] = list[k]
  <2>1. new = [list EXCEPT ![i] = x]
    BY <1>2
  <2> HIDE DEF x, new
  <2> QED  BY <1>1, <2>1
<1>4. /\ f[0] = <<>>
      /\ \A n \in 1 .. N : f[n] = IF list[n].id \in {id} THEN Append(f[n - 1], list[n]) ELSE f[n - 1]
  BY <1>0, FilterStep
<1>5. /\ g[0] = <<>>
      /\ \A n \in 1 .. N : g[n] = IF new[n].id \in {id} THEN Append(g[n - 1], new[n]) ELSE g[n - 1]
  <2> HIDE DEF new, N, g
  <2>1. Len(new) \in Nat
    BY <1>0, <1>3
  <2> QED  BY <1>3, <2>1, FilterStep DEF g
<1>6. \A n \in 0 .. N : f[n] \in Seq(Item)
  BY FilterType
<1>7. \A n \in 0 .. N : g[n] \in Seq(Item)
  <2> HIDE DEF new, N, g
  <2> QED  BY <1>3, FilterType DEF g
<1>8. x.id = id /\ x.body = b
  OBVIOUS
<1>9. \A k \in 1 .. N : list[k].id = id => i <= k
  OBVIOUS
<1>10. f[i - 1] = <<>>
  <2>1. \A k \in 1 .. i - 1 : list[k].id \notin {id}
    BY <1>0, <1>9
  <2> HIDE DEF id
  <2> QED  BY <1>0, <2>1, FilterNone
<1>11. g[i - 1] = <<>>
  <2>1. \A k \in 1 .. i - 1 : new[k].id \notin {id}
    <3> HIDE DEF new
    <3> QED  BY <1>0, <1>3, <1>9
  <2> HIDE DEF id, new
  <2> QED  BY <1>0, <1>3, <2>1, FilterNone
<1>12. \A ids : id \notin ids => Filtered(new, ids) = Filtered(list, ids)
  <2> HIDE DEF new
  <2>1. ASSUME NEW ids, id \notin ids PROVE Filtered(new, ids) = Filtered(list, ids)
    <3>1. \A k \in 1 .. N : new[k] = list[k] \/ (new[k].id \notin ids /\ list[k].id \notin ids)
      BY <1>3, <1>8, <2>1
    <3>2. Filtering(new, ids)[N] = Filtering(list, ids)[N]
      <4> HIDE DEF N
      <4> QED  BY <1>0, <1>3, <3>1, FilterSame
    <3> QED  BY <1>3, <3>2 DEF Filtered
  <2> QED  BY <2>1
<1> DEFINE P(n) == /\ Len(f[n]) >= 1 /\ Len(g[n]) = Len(f[n])
                   /\ g[n][1] = x /\ \A j \in 2 .. Len(f[n]) : g[n][j] = f[n][j]
           S == {n \in 0 .. N : n < i \/ P(n)}
<1> HIDE DEF f, g, new, x, id, N
<1>13. P(i)
  <2>1. f[i] = Append(<<>>, list[i]) /\ g[i] = Append(<<>>, x)
    BY <1>0, <1>3, <1>4, <1>5, <1>8, <1>10, <1>11 DEF id
  <2> QED  BY <2>1
<1>14. ASSUME NEW n \in 0 .. N, n < i \/ P(n), n < N PROVE n + 1 < i \/ P(n + 1)
  <2>1. n + 1 \in 1 .. N /\ (n + 1) - 1 = n
    BY <1>0, <1>14
  <2>2. CASE n < i
    <3>1. n + 1 < i \/ n + 1 = i
      BY <1>0, <2>2
    <3> QED  BY <1>13, <3>1
  <2>3. CASE n >= i
    <3>1. new[n + 1] = list[n + 1] /\ P(n)
      BY <1>0, <1>3, <1>14, <2>1, <2>3
    <3>2. CASE list[n + 1].id \notin {id}
      <4>1. f[n + 1] = f[n] /\ g[n + 1] = g[n]
        BY <1>4, <1>5, <2>1, <3>1, <3>2
      <4> QED  BY <3>1, <4>1
    <3>3. CASE list[n + 1].id \in {id}
      <4>1. f[n + 1] = Append(f[n], list[n + 1]) /\ g[n + 1] = Append(g[n], list[n + 1])
        BY <1>4, <1>5, <2>1, <3>1, <3>3
      <4>2. f[n] \in Seq(Item) /\ g[n] \in Seq(Item)
        BY <1>6, <1>7
      <4>3. Len(f[n]) >= 1 /\ Len(g[n]) = Len(f[n]) /\ g[n][1] = x
            /\ \A j \in 2 .. Len(f[n]) : g[n][j] = f[n][j]
        BY <3>1
      <4> HIDE DEF P
      <4>4. /\ Len(f[n + 1]) = Len(f[n]) + 1 /\ Len(g[n + 1]) = Len(f[n]) + 1
            /\ \A j \in 1 .. Len(f[n]) : f[n + 1][j] = f[n][j] /\ g[n + 1][j] = g[n][j]
            /\ f[n + 1][Len(f[n]) + 1] = list[n + 1] /\ g[n + 1][Len(f[n]) + 1] = list[n + 1]
        BY <4>1, <4>2, <4>3
      <4>5. PICK m \in Nat : Len(f[n]) = m
        BY <4>2
      <4>6. ASSUME NEW j \in 2 .. m + 1 PROVE g[n + 1][j] = f[n + 1][j]
        <5>1. j \in 2 .. m \/ j = m + 1
          BY <4>5
        <5> QED  BY <4>3, <4>4, <4>5, <5>1
      <4>7. g[n + 1][1] = x
        BY <4>3, <4>4, <4>5
      <4>8. Len(f[n + 1]) >= 1 /\ Len(f[n + 1]) = m + 1 /\ Len(g[n + 1]) = Len(f[n + 1])
        BY <4>4, <4>5
      <4>9. P(n + 1)
        BY <4>6, <4>7, <4>8 DEF P
      <4> QED  BY <4>9
    <3> QED  BY <3>2, <3>3
  <2> QED  BY <1>0, <2>2, <2>3
<1> HIDE DEF P
<1>15. \A n \in 0 .. N : n \in S
  <2>1. 0 \in S /\ \A n \in 0 .. N : n \in S /\ n < N => n + 1 \in S
    BY <1>0, <1>14
  <2> HIDE DEF S
  <2> QED  BY <1>0, <2>1, Climb
<1>16. P(N)
  BY <1>0, <1>15
<1>17. Filtered(list, {id}) = f[N] /\ Filtered(new, {id}) = g[N]
  BY <1>3 DEF Filtered, f, g, N
<1>18. /\ f[N] \in Seq(Item) /\ g[N] \in Seq(Item) /\ 1 \in DOMAIN f[N]
       /\ g[N] = [f[N] EXCEPT ![1] = x]
  <2>1. f[N] \in Seq(Item) /\ g[N] \in Seq(Item)
    BY <1>0, <1>6, <1>7
  <2>2. 1 \in 1 .. Len(f[N]) /\ DOMAIN f[N] = 1 .. Len(f[N])
    BY <1>16, <2>1 DEF P
  <2> DEFINE h == [f[N] EXCEPT ![1] = x]
  <2>3. h \in Seq(Item) /\ Len(h) = Len(f[N])
    BY <1>1, <2>1, <2>2 DEF x, id
  <2>4. \A j \in 1 .. Len(g[N]) : g[N][j] = h[j]
    BY <1>16, <2>1, <2>2 DEF P
  <2>5. g[N] = h
    <3> HIDE DEF h
    <3> QED  BY <1>16, <2>1, <2>3, <2>4, SameList DEF P
  <2> QED  BY <2>1, <2>2, <2>5
<1> QED  BY <1>3, <1>12, <1>17, <1>18 DEF Replaces, id, x, new, N

\* The same of a list that is said to be the new one.
LEMMA FilterReplaced ==
  ASSUME NEW list \in Seq(Item), NEW i \in 1 .. Len(list), NEW b \in Bodies,
         NEW id, list[i].id = id, \A k \in 1 .. Len(list) : list[k].id = id => i <= k,
         NEW new, new = [list EXCEPT ![i].body = b]
  PROVE  Replaces(new, list, i, id, [id |-> id, body |-> b])
<1>1. \A k \in 1 .. Len(list) : list[k].id = list[i].id => i <= k
  OBVIOUS
<1>2. Replaces([list EXCEPT ![i].body = b], list, i, list[i].id, [id |-> list[i].id, body |-> b])
  BY <1>1, FilterReplace
<1> QED  BY <1>2

-----------------------------------------------------------------------------
(* The lists and the consoles.                                             *)
(*                                                                         *)
(* ConsolesAgree is not inductive: an editor still open on a deleted item  *)
(* would bring it back unnoticed.  TeachInv adds that such a crossing has  *)
(* been noted, and what an editor of the schedule was opened on.           *)

Console == [view : Seq(Item), cfg : Schedule \cup {None}, draft : Draft \cup {None},
            sched : Change \cup {None}]

\* An editor holds a deleted item only if the crossing is noted.
DraftsNoted ==
  \A t \in Consoles :
    con[t].draft # None /\ con[t].draft.id \in gone => "overtaken" \in odd

\* What is typed is one rule of the schedule that was shown.
OneRuleTyped(sched) ==
  sched # None => \A r \in Rules \ {sched.typed} : sched.rules[r] = Shown(sched.shown)[r]

ListInv ==
  /\ ConsolesAgree /\ DraftsNoted
  /\ \A t \in Consoles : OneRuleTyped(con[t].sched)

TeachInv == TypeOK /\ ListInv

\* The first place of a set.
LEMMA FirstOf ==
  ASSUME NEW n \in Nat, NEW S \in SUBSET (1 .. n), S # {}
  PROVE  LET i == CHOOSE i \in S : \A k \in S : i <= k IN i \in S /\ \A k \in S : i <= k
<1>1. S \in SUBSET Nat
  OBVIOUS
<1>2. \E i \in S : \A k \in S : i <= k
  BY <1>1, Least
<1> QED  BY <1>2

\* Save appends an item of a new id, or gives the first of its id a new body.
LEMMA SaveIs ==
  ASSUME TypeOK, NEW t \in Consoles, NEW id \in Ids, Save(t, id)
  PROVE  LET d == con[t].draft
             x == [id |-> id, body |-> d.body]
         IN /\ d \in Draft /\ d.body \in Bodies /\ x \in Item /\ d.id \in {None, id}
            /\ \/ /\ items' = Append(items, x)
                  /\ d.id # None => id \notin IdsOf(items)
               \/ /\ d.id = id
                  /\ \E i \in 1 .. Len(items) :
                       /\ items[i].id = id
                       /\ \A k \in 1 .. Len(items) : items[k].id = id => i <= k
                       /\ items' = [items EXCEPT ![i].body = d.body]
<1> DEFINE d == con[t].draft
           x == [id |-> id, body |-> d.body]
           same == {i \in DOMAIN items : items[i].id = d.id}
           first == CHOOSE i \in same : \A k \in same : i <= k
<1>1. d \in Draft /\ d.body \in Bodies /\ d.id \in {None, id} /\ None \notin Ids
  <2>1. con[t].draft \in Draft \cup {None} /\ con[t].draft # None
    BY DEF TypeOK, Save
  <2>2. d.id \in {None, id}
    BY DEF Save
  <2> QED  BY <2>1, <2>2, TeachingAssumption DEF Draft
<1>2. x \in Item
  BY <1>1 DEF Item
<1>3. items \in Seq(Item) /\ Len(items) \in Nat /\ DOMAIN items = 1 .. Len(items)
  BY DEF TypeOK
<1>4. items' = IF same # {} THEN [items EXCEPT ![first].body = d.body]
               ELSE Append(items, x)
  BY DEF Save, Saved
<1>5. CASE same = {}
  <2>1. d.id # None => id \notin IdsOf(items)
    BY <1>1, <1>5 DEF IdsOf
  <2> QED  BY <1>1, <1>2, <1>4, <1>5, <2>1
<1>6. CASE same # {}
  <2>1. same \in SUBSET (1 .. Len(items))
    BY <1>3
  <2>2. first \in same /\ \A k \in same : first <= k
    <3> HIDE DEF same
    <3> QED  BY <1>3, <1>6, <2>1, FirstOf
  <2>3. items[first].id \in Ids
    <3>1. items[first] \in Item
      BY <1>3, <2>2
    <3> QED  BY <3>1 DEF Item
  <2>4. d.id = id
    BY <1>1, <2>2, <2>3
  <2>5. PICK i \in 1 .. Len(items) : i = first
    BY <2>1, <2>2
  <2>6. /\ items[i].id = id
        /\ \A k \in 1 .. Len(items) : items[k].id = id => i <= k
    BY <1>3, <2>2, <2>4, <2>5
  <2>7. items' = [items EXCEPT ![i].body = d.body]
    BY <1>4, <1>6, <2>5
  <2> HIDE DEF first, same
  <2> QED  BY <1>1, <1>2, <2>4, <2>6, <2>7
<1> QED  BY <1>5, <1>6

\* What Save does to the stored ids: one item more of a new id, or none.
LEMMA SaveIds ==
  ASSUME TypeOK, NEW t \in Consoles, NEW id \in Ids, Save(t, id)
  PROVE  /\ items' \in Seq(Item)
         /\ IdsOf(items') = IdsOf(items) \cup {id}
         /\ \/ id \in IdsOf(items) /\ con[t].draft.id = None
            \/ (\A i, k \in DOMAIN items : items[i].id = items[k].id => i = k) =>
               (\A i, k \in DOMAIN items' : items'[i].id = items'[k].id => i = k)
<1> DEFINE d == con[t].draft
           x == [id |-> id, body |-> d.body]
<1>1. /\ x \in Item /\ d.body \in Bodies /\ d.id \in {None, id} /\ x.id = id
      /\ items \in Seq(Item) /\ Len(items) \in Nat /\ DOMAIN items = 1 .. Len(items)
  BY SaveIs DEF TypeOK
<1>2. CASE items' = Append(items, x) /\ (d.id # None => id \notin IdsOf(items))
  <2> HIDE DEF x
  <2>1. /\ items' \in Seq(Item) /\ DOMAIN items' = 1 .. Len(items) + 1
        /\ \A k \in 1 .. Len(items) : items'[k] = items[k]
        /\ items'[Len(items) + 1] = x
    BY <1>1, <1>2
  <2>2. IdsOf(items') = IdsOf(items) \cup {id}
    <3>1. ASSUME NEW k \in DOMAIN items' PROVE items'[k].id \in IdsOf(items) \cup {id}
      BY <1>1, <2>1, k \in 1 .. Len(items) \/ k = Len(items) + 1 DEF IdsOf
    <3>2. ASSUME NEW k \in DOMAIN items PROVE items[k].id \in IdsOf(items')
      BY <1>1, <2>1, k \in 1 .. Len(items) + 1 DEF IdsOf
    <3>3. id \in IdsOf(items')
      BY <1>1, <2>1, Len(items) + 1 \in 1 .. Len(items) + 1 DEF IdsOf
    <3> QED  BY <3>1, <3>2, <3>3 DEF IdsOf
  <2>3. ASSUME id \notin IdsOf(items),
               \A i, k \in DOMAIN items : items[i].id = items[k].id => i = k,
               NEW i \in DOMAIN items', NEW k \in DOMAIN items', items'[i].id = items'[k].id
        PROVE  i = k
    <3>1. \A m \in 1 .. Len(items) : items[m].id # id
      BY <1>1, <2>3 DEF IdsOf
    <3>2. (i \in 1 .. Len(items) \/ i = Len(items) + 1) /\ (k \in 1 .. Len(items) \/ k = Len(items) + 1)
      BY <1>1, <2>1
    <3> QED  BY <1>1, <2>1, <2>3, <3>1, <3>2
  <2>4. (id \in IdsOf(items) /\ d.id = None) \/ id \notin IdsOf(items)
    BY <1>1, <1>2
  <2> QED  BY <2>1, <2>2, <2>3, <2>4
<1>3. ASSUME NEW i \in 1 .. Len(items), items[i].id = id,
             \A k \in 1 .. Len(items) : items[k].id = id => i <= k,
             items' = [items EXCEPT ![i].body = d.body]
      PROVE  /\ items' \in Seq(Item)
             /\ IdsOf(items') = IdsOf(items) \cup {id}
             /\ (\A j, k \in DOMAIN items : items[j].id = items[k].id => j = k) =>
                (\A j, k \in DOMAIN items' : items'[j].id = items'[k].id => j = k)
  <2>1. /\ items' \in Seq(Item) /\ Len(items') = Len(items) /\ items'[i] = x
        /\ \A k \in 1 .. Len(items) : k # i => items'[k] = items[k]
    <3>1. Replaces(items', items, i, id, x)
      BY <1>1, <1>3, FilterReplaced
    <3> QED  BY <3>1 DEF Replaces
  <2>2. DOMAIN items' = 1 .. Len(items) /\ \A k \in 1 .. Len(items) : items'[k].id = items[k].id
    BY <1>1, <1>3, <2>1
  <2>3. IdsOf(items') = IdsOf(items) /\ id \in IdsOf(items)
    BY <1>1, <1>3, <2>2 DEF IdsOf
  <2> QED  BY <1>1, <2>1, <2>2, <2>3
<1>4. \/ items' = Append(items, x) /\ (d.id # None => id \notin IdsOf(items))
      \/ \E i \in 1 .. Len(items) :
           /\ items[i].id = id
           /\ \A k \in 1 .. Len(items) : items[k].id = id => i <= k
           /\ items' = [items EXCEPT ![i].body = d.body]
  BY SaveIs
<1> QED  BY <1>2, <1>3, <1>4

\* An id that names one item of a list names at most one of the items filtered.
LEMMA FilterUnique ==
  ASSUME NEW list \in Seq(Item), NEW ids,
         \A i, k \in 1 .. Len(list) : list[i].id = list[k].id => i = k
  PROVE  \A j, k \in DOMAIN Filtered(list, ids) :
           Filtered(list, ids)[j].id = Filtered(list, ids)[k].id => j = k
<1> DEFINE f == Filtering(list, ids)
           N == Len(list)
           P(n) == \A j, k \in 1 .. Len(f[n]) : f[n][j].id = f[n][k].id => j = k
           S == {n \in 0 .. N : P(n)}
<1>0. N \in Nat
  OBVIOUS
<1>1. /\ f[0] = <<>>
      /\ \A n \in 1 .. N :
           f[n] = IF list[n].id \in ids THEN Append(f[n - 1], list[n]) ELSE f[n - 1]
  BY <1>0, FilterStep
<1>2. \A n \in 0 .. N :
        /\ f[n] \in Seq(Item)
        /\ \A j \in 1 .. Len(f[n]) : \E i \in 1 .. n : f[n][j] = list[i]
  BY FilterType
<1> HIDE DEF f
<1>3. P(0)
  BY <1>1
<1>4. ASSUME NEW n \in 0 .. N, P(n), n < N PROVE P(n + 1)
  <2>1. n + 1 \in 1 .. N /\ (n + 1) - 1 = n
    BY <1>4
  <2>2. CASE list[n + 1].id \notin ids
    <3>1. f[n + 1] = f[n]
      BY <1>1, <2>1, <2>2
    <3> QED  BY <1>4, <3>1
  <2>3. CASE list[n + 1].id \in ids
    <3>1. f[n + 1] = Append(f[n], list[n + 1]) /\ f[n] \in Seq(Item)
      BY <1>1, <1>2, <2>1, <2>3
    <3>2. PICK m \in Nat : Len(f[n]) = m
      BY <3>1
    <3>3. /\ Len(f[n + 1]) = m + 1 /\ f[n + 1][m + 1] = list[n + 1]
          /\ \A j \in 1 .. m : f[n + 1][j] = f[n][j]
      BY <3>1, <3>2
    <3>4. \A j \in 1 .. m : f[n][j].id # list[n + 1].id
      <4>1. \A i \in 1 .. n : list[i].id # list[n + 1].id
        BY <1>0, <2>1
      <4>2. \A j \in 1 .. m : \E i \in 1 .. n : f[n][j] = list[i]
        BY <1>2, <3>2
      <4> QED  BY <4>1, <4>2
    <3>5. ASSUME NEW j \in 1 .. m + 1, NEW k \in 1 .. m + 1, f[n + 1][j].id = f[n + 1][k].id
          PROVE  j = k
      <4>1. (j \in 1 .. m \/ j = m + 1) /\ (k \in 1 .. m \/ k = m + 1)
        OBVIOUS
      <4>2. \A i, l \in 1 .. m : f[n][i].id = f[n][l].id => i = l
        BY <1>4, <3>2
      <4> QED  BY <3>3, <3>4, <3>5, <4>1, <4>2
    <3> QED  BY <3>3, <3>5
  <2> QED  BY <2>2, <2>3
<1> HIDE DEF P
<1>5. \A n \in 0 .. N : n \in S
  <2>1. 0 \in S /\ \A n \in 0 .. N : n \in S /\ n < N => n + 1 \in S
    BY <1>0, <1>3, <1>4
  <2> HIDE DEF S, N
  <2> QED  BY <1>0, <2>1, Climb
<1>6. P(N) /\ f[N] \in Seq(Item)
  BY <1>0, <1>2, <1>5
<1>7. Filtered(list, ids) = f[N]
  BY DEF Filtered, f
<1> QED  BY <1>6, <1>7 DEF P

\* What Remove does to the stored ids: one less.
LEMMA RemoveIds ==
  ASSUME items \in Seq(Item), NEW t \in Consoles, NEW id \in Ids, Remove(t, id)
  PROVE  /\ items' \in Seq(Item)
         /\ IdsOf(items') \subseteq IdsOf(items) \ {id}
         /\ (\A i, k \in DOMAIN items : items[i].id = items[k].id => i = k) =>
            (\A i, k \in DOMAIN items' : items'[i].id = items'[k].id => i = k)
<1>1. items' = Filtered(items, Ids \ {id})
  BY DEF Remove
<1>2. DOMAIN items = 1 .. Len(items)
  OBVIOUS
<1>3. /\ items' \in Seq(Item)
      /\ \A j \in 1 .. Len(items') :
           items'[j].id \in Ids \ {id} /\ \E i \in 1 .. Len(items) : items'[j] = items[i]
  <2>1. TakenFrom(items', items, Ids \ {id})
    BY <1>1, FilteredType
  <2> QED  BY <2>1 DEF TakenFrom
<1>4. IdsOf(items') \subseteq IdsOf(items) \ {id}
  <2>1. DOMAIN items' = 1 .. Len(items')
    BY <1>3
  <2>2. ASSUME NEW j \in 1 .. Len(items')
        PROVE  items'[j].id # id /\ \E i \in 1 .. Len(items) : items'[j].id = items[i].id
    BY <1>3
  <2>3. ASSUME NEW j \in 1 .. Len(items') PROVE items'[j].id \in IdsOf(items) \ {id}
    BY <1>2, <2>2 DEF IdsOf
  <2> QED  BY <2>1, <2>3 DEF IdsOf
<1>5. ASSUME \A i, k \in DOMAIN items : items[i].id = items[k].id => i = k
      PROVE  \A i, k \in DOMAIN items' : items'[i].id = items'[k].id => i = k
  <2>1. \A i, k \in 1 .. Len(items) : items[i].id = items[k].id => i = k
    BY <1>2, <1>5
  <2>2. \A i, k \in DOMAIN Filtered(items, Ids \ {id}) :
          Filtered(items, Ids \ {id})[i].id = Filtered(items, Ids \ {id})[k].id => i = k
    BY <2>1, FilterUnique
  <2> QED  BY <1>1, <2>2
<1> QED  BY <1>3, <1>4, <1>5

\* Save and Remove leave every other id's items alone.
LEMMA ItemsStep ==
  ASSUME TypeOK, NEW t \in Consoles, NEW id \in Ids, Save(t, id) \/ Remove(t, id)
  PROVE  ItemsKept
<1> DEFINE d == con[t].draft
           x == [id |-> id, body |-> d.body]
<1>0. items \in Seq(Item) /\ id \notin Ids \ {id} /\ id \in {id}
  BY DEF TypeOK
<1>1. CASE Remove(t, id)
  <2>1. items' = Filtered(items, Ids \ {id})
    BY <1>1 DEF Remove
  <2>2. Others(items', id) = Others(items, id)
    <3>1. Filtered(Filtered(items, Ids \ {id}), Ids \ {id})
            = Filtered(items, (Ids \ {id}) \cap (Ids \ {id}))
      BY <1>0, FilterTwice
    <3>2. (Ids \ {id}) \cap (Ids \ {id}) = Ids \ {id}
      OBVIOUS
    <3> QED  BY <2>1, <3>1, <3>2 DEF Others
  <2>3. Own(items', id) = <<>>
    <3>1. Filtered(Filtered(items, Ids \ {id}), {id}) = Filtered(items, (Ids \ {id}) \cap {id})
      BY <1>0, FilterTwice
    <3>2. (Ids \ {id}) \cap {id} = {}
      OBVIOUS
    <3>3. Filtered(items, {}) = <<>>
      <4>1. Len(items) \in Nat /\ Len(items) \in 0 .. Len(items)
        BY <1>0
      <4>2. Filtering(items, {})[Len(items)] = <<>>
        BY <4>1, FilterNone
      <4> QED  BY <4>2 DEF Filtered
    <3> QED  BY <2>1, <3>1, <3>2, <3>3 DEF Own
  <2> QED  BY <2>2, <2>3 DEF ItemsKept
<1>2. CASE Save(t, id)
  <2>1. /\ d.body \in Bodies /\ x \in Item /\ x.id = id /\ d # None
        /\ \/ items' = Append(items, x)
           \/ \E i \in 1 .. Len(items) :
                /\ items[i].id = id
                /\ \A k \in 1 .. Len(items) : items[k].id = id => i <= k
                /\ items' = [items EXCEPT ![i].body = d.body]
    BY <1>2, SaveIs DEF Save
  <2> HIDE DEF d
  <2>2. CASE items' = Append(items, x)
    <3> HIDE DEF x
    <3>1. Others(items', id) = Others(items, id)
      BY <1>0, <2>1, <2>2, FilterAppend DEF Others
    <3>2. Own(items', id) = Append(Own(items, id), x)
      BY <1>0, <2>1, <2>2, FilterAppend DEF Own
    <3> QED  BY <2>1, <3>1, <3>2 DEF ItemsKept, x, d
  <2>3. ASSUME NEW i \in 1 .. Len(items), items[i].id = id,
               \A k \in 1 .. Len(items) : items[k].id = id => i <= k,
               items' = [items EXCEPT ![i].body = d.body]
        PROVE  ItemsKept
    <3>1. Replaces(items', items, i, id, x)
      BY <1>0, <2>1, <2>3, FilterReplaced
    <3> HIDE DEF x
    <3>2. /\ Filtered(items', Ids \ {id}) = Filtered(items, Ids \ {id})
          /\ 1 \in DOMAIN Filtered(items, {id})
          /\ Filtered(items', {id}) = [Filtered(items, {id}) EXCEPT ![1] = x]
      BY <1>0, <3>1 DEF Replaces
    <3>3. /\ Others(items', id) = Others(items, id)
          /\ 1 \in {1} \cap DOMAIN Own(items, id)
          /\ Own(items', id) = [Own(items, id) EXCEPT ![1] = x]
      BY <3>2 DEF Others, Own
    <3> QED  BY <2>1, <3>3, Zenon DEF ItemsKept, x, d
  <2> QED  BY <2>1, <2>2, <2>3
<1> QED  BY <1>1, <1>2

\* A console with two fields replaced.
LEMMA ReadAnew ==
  ASSUME NEW c \in Console, NEW v, NEW g
  PROVE  [c EXCEPT !.view = v, !.cfg = g]
           = [view |-> v, cfg |-> g, draft |-> c.draft, sched |-> c.sched]
<1> DEFINE m == [c EXCEPT !.view = v]
<1>1. m = [view |-> v, cfg |-> c.cfg, draft |-> c.draft, sched |-> c.sched]
  BY DEF Console
<1> HIDE DEF m
<1>2. [m EXCEPT !.cfg = g] = [view |-> v, cfg |-> g, draft |-> c.draft, sched |-> c.sched]
  BY <1>1
<1> QED  BY <1>2 DEF m

LEMMA EditorsShut ==
  ASSUME NEW c \in Console
  PROVE  [c EXCEPT !.draft = None, !.sched = None]
           = [view |-> c.view, cfg |-> c.cfg, draft |-> None, sched |-> None]
<1> DEFINE m == [c EXCEPT !.draft = None]
<1>1. m = [view |-> c.view, cfg |-> c.cfg, draft |-> None, sched |-> c.sched]
  BY DEF Console
<1> HIDE DEF m
<1>2. [m EXCEPT !.sched = None] = [view |-> c.view, cfg |-> c.cfg, draft |-> None, sched |-> None]
  BY <1>1
<1> QED  BY <1>2 DEF m

\* A step of console t that stores nothing: it may have read the stored values
\* anew, and what its editors hold is as the invariant wants it.
LEMMA QuietStep ==
  ASSUME TeachInv, NEW t \in Consoles, NEW c \in Console, con' = [con EXCEPT ![t] = c],
         UNCHANGED <<items, config, gone>>, odd \subseteq odd', odd' \subseteq {"clash", "overtaken"},
         pending' \subseteq pending, pending \subseteq pending' \cup {t},
         \/ c.view = items /\ c.cfg = config
         \/ c.view = con[t].view /\ c.cfg = con[t].cfg /\ pending' = pending,
         c.draft # None /\ c.draft.id \in gone => "overtaken" \in odd',
         OneRuleTyped(c.sched)
  PROVE  ListInv' /\ con' \in [Consoles -> Console]
<1>1. con \in [Consoles -> Console] /\ ListInv
  BY DEF TeachInv, TypeOK, Console
<1>2. con' \in [Consoles -> Console] /\ con'[t] = c /\ \A u \in Consoles \ {t} : con'[u] = con[u]
  BY <1>1
<1>3. \A u \in Consoles \ pending' : con'[u].view = items /\ con'[u].cfg = config
  BY <1>1, <1>2 DEF ListInv, ConsolesAgree
<1>4. ConsolesAgree'
  BY <1>1, <1>3 DEF ListInv, ConsolesAgree, Without, IdsOf
<1>5. DraftsNoted'
  BY <1>1, <1>2 DEF ListInv, DraftsNoted
<1>6. \A u \in Consoles : OneRuleTyped(con'[u].sched)
  BY <1>1, <1>2 DEF ListInv
<1> QED  BY <1>2, <1>4, <1>5, <1>6 DEF ListInv, OneRuleTyped, Shown

\* A step of console t that stores a list or a schedule: t shows it at once, and
\* so will the others once the event has reached them.
LEMMA WriteStep ==
  ASSUME TeachInv, NEW t \in Consoles, Write(t), items' \in Seq(Item), config' \in Closable,
         odd \subseteq odd', odd' \subseteq {"clash", "overtaken"},
         \A u \in Consoles \ {t} :
           con[u].draft # None /\ con[u].draft.id \in gone' => "overtaken" \in odd',
         "clash" \notin odd' => \A i, k \in DOMAIN items' : items'[i].id = items'[k].id => i = k,
         "clash" \notin odd' /\ "overtaken" \notin odd' => gone' \cap IdsOf(items') = {}
  PROVE  /\ ListInv' /\ con' \in [Consoles -> Console]
         /\ pending' \subseteq Consoles /\ edits' \in 0 .. MaxEdits
<1> DEFINE c == [view |-> items', cfg |-> config', draft |-> None, sched |-> None]
<1>1. /\ con \in [Consoles -> Console] /\ ListInv /\ pending \subseteq Consoles
      /\ edits \in 0 .. MaxEdits /\ MaxEdits \in Nat
  BY TeachingAssumption DEF TeachInv, TypeOK, Console
<1>2. c \in Console /\ c.view = items' /\ c.cfg = config' /\ c.draft = None /\ c.sched = None
  BY DEF Console, Closable
<1>3. con' = [con EXCEPT ![t] = c]
  BY DEF Write, Refreshed
<1> HIDE DEF c
<1>4. con' \in [Consoles -> Console] /\ con'[t] = c /\ \A u \in Consoles \ {t} : con'[u] = con[u]
  BY <1>1, <1>2, <1>3
<1>5. \/ items' = items /\ config' = config /\ pending' = pending
      \/ pending' = pending \cup (Consoles \ {t})
  BY DEF Write
<1>6. \A u \in Consoles \ pending' : con'[u].view = items' /\ con'[u].cfg = config'
  BY <1>1, <1>2, <1>4, <1>5 DEF ListInv, ConsolesAgree
<1>7. ConsolesAgree'
  BY <1>6 DEF ConsolesAgree, Without, IdsOf
<1>8. DraftsNoted'
  BY <1>2, <1>4 DEF DraftsNoted
<1>9. \A u \in Consoles : OneRuleTyped(con'[u].sched)
  BY <1>1, <1>2, <1>4 DEF ListInv, OneRuleTyped
<1>10. pending' \subseteq Consoles /\ edits' \in 0 .. MaxEdits
  BY <1>1, <1>5 DEF Write
<1> QED  BY <1>4, <1>7, <1>8, <1>9, <1>10 DEF ListInv, OneRuleTyped, Shown

\* The teaching side of the state, typed.
ListsTyped ==
  /\ items \in Seq(Item) /\ config \in Closable
  /\ con \in [Consoles -> Console] /\ pending \subseteq Consoles
  /\ edits \in 0 .. MaxEdits /\ gone \subseteq Ids /\ odd \subseteq {"clash", "overtaken"}

LEMMA ConsoleKeeps ==
  ASSUME TeachInv, NEW t \in Consoles,
         \/ Deliver(t) \/ Reopen(t) \/ Cancel(t)
         \/ \E b \in Bodies : OpenNew(t, b) \/ \E i \in 1 .. Len(con[t].view) : OpenEdit(t, i, b)
         \/ \E ch \in Typed : OpenSchedule(t, ch[1], ch[2])
  PROVE  ListInv' /\ ListsTyped' /\ UNCHANGED <<items, config>>
<1>0. /\ con \in [Consoles -> Console] /\ con[t] \in Console /\ ListInv
      /\ items \in Seq(Item) /\ config \in Closable /\ pending \subseteq Consoles
      /\ edits \in 0 .. MaxEdits /\ gone \subseteq Ids /\ odd \subseteq {"clash", "overtaken"}
      /\ None \notin Ids
  BY TeachingAssumption DEF TeachInv, TypeOK, Console, Closable
<1>1. /\ con[t].view \in Seq(Item) /\ con[t].cfg \in Closable
      /\ con[t].draft \in Draft \cup {None} /\ con[t].sched \in Change \cup {None}
  BY <1>0 DEF Console, Closable
<1>2. /\ con[t].draft # None /\ con[t].draft.id \in gone => "overtaken" \in odd
      /\ OneRuleTyped(con[t].sched) /\ OneRuleTyped(None)
  BY <1>0 DEF ListInv, DraftsNoted, OneRuleTyped
\* The new state of the console, whichever step it is.
<1>3. ASSUME NEW c \in Console, con' = [con EXCEPT ![t] = c],
             UNCHANGED <<items, config, gone, edits>>, odd \subseteq odd',
             odd' \subseteq {"clash", "overtaken"},
             pending' \subseteq pending, pending \subseteq pending' \cup {t},
             \/ c.view = items /\ c.cfg = config
             \/ c.view = con[t].view /\ c.cfg = con[t].cfg /\ pending' = pending,
             c.draft # None /\ c.draft.id \in gone => "overtaken" \in odd',
             OneRuleTyped(c.sched)
      PROVE  ListInv' /\ ListsTyped' /\ UNCHANGED <<items, config>>
  <2>1. ListInv' /\ con' \in [Consoles -> Console]
    BY <1>3, QuietStep
  <2> QED  BY <1>0, <1>3, <2>1 DEF ListsTyped, Closable
<1>4. CASE Deliver(t)
  <2> DEFINE c == [view |-> items, cfg |-> config, draft |-> con[t].draft, sched |-> con[t].sched]
  <2>1. con' = [con EXCEPT ![t] = [con[t] EXCEPT !.view = items, !.cfg = config]]
    BY <1>0, <1>4 DEF Deliver
  <2>2. [con[t] EXCEPT !.view = items, !.cfg = config] = c
    BY <1>0, ReadAnew
  <2>3. c \in Console /\ c.view = items /\ c.cfg = config /\ c.draft = con[t].draft
        /\ c.sched = con[t].sched
    BY <1>0, <1>1 DEF Console, Closable
  <2>4. con' = [con EXCEPT ![t] = c]
    BY <2>1, <2>2
  <2>5. UNCHANGED <<items, config, gone, edits, odd>> /\ pending' = pending \ {t}
    BY <1>4 DEF Deliver
  <2> HIDE DEF c
  <2> QED  BY <1>0, <1>2, <1>3, <2>3, <2>4, <2>5
<1>5. CASE Reopen(t)
  <2> DEFINE c == [view |-> items, cfg |-> config, draft |-> None, sched |-> None]
  <2>1. c \in Console /\ c.view = items /\ c.cfg = config /\ c.draft = None /\ c.sched = None
    BY <1>0, <1>1 DEF Console, Closable
  <2>2. con' = [con EXCEPT ![t] = c] /\ UNCHANGED <<items, config, gone, edits, odd, pending>>
    BY <1>5 DEF Reopen
  <2> HIDE DEF c
  <2> QED  BY <1>0, <1>2, <1>3, <2>1, <2>2
<1>6. CASE Cancel(t)
  <2> DEFINE c == [view |-> con[t].view, cfg |-> con[t].cfg, draft |-> None, sched |-> None]
  <2>1. con' = [con EXCEPT ![t] = [con[t] EXCEPT !.draft = None, !.sched = None]]
    BY <1>0, <1>6 DEF Cancel
  <2>2. [con[t] EXCEPT !.draft = None, !.sched = None] = c
    BY <1>0, EditorsShut
  <2>3. c \in Console /\ c.view = con[t].view /\ c.cfg = con[t].cfg /\ c.draft = None
        /\ c.sched = None
    BY <1>0, <1>1 DEF Console, Closable
  <2>4. con' = [con EXCEPT ![t] = c]
    BY <2>1, <2>2
  <2>5. UNCHANGED <<items, config, gone, edits, odd, pending>>
    BY <1>6 DEF Cancel
  <2> HIDE DEF c
  <2> QED  BY <1>0, <1>2, <1>3, <2>3, <2>4, <2>5
\* The editor of an item is opened.
<1>7. ASSUME NEW d \in Draft, con' = [con EXCEPT ![t].draft = d],
             UNCHANGED <<items, config, gone, edits, pending>>, odd \subseteq odd',
             odd' \subseteq {"clash", "overtaken"}, d.id \in gone => "overtaken" \in odd'
      PROVE  ListInv' /\ ListsTyped' /\ UNCHANGED <<items, config>>
  <2> DEFINE c == [con[t] EXCEPT !.draft = d]
  <2>1. c \in Console /\ c.view = con[t].view /\ c.cfg = con[t].cfg /\ c.draft = d
        /\ c.sched = con[t].sched
    BY <1>0, <1>1 DEF Console
  <2>2. con' = [con EXCEPT ![t] = c]
    BY <1>7
  <2> HIDE DEF c
  <2> QED  BY <1>0, <1>2, <1>3, <1>7, <2>1, <2>2
<1>8. ASSUME NEW b \in Bodies, OpenNew(t, b)
      PROVE  ListInv' /\ ListsTyped' /\ UNCHANGED <<items, config>>
  <2> DEFINE d == [id |-> None, body |-> b]
  <2>1. d \in Draft /\ d.id = None
    BY DEF Draft
  <2>2. con' = [con EXCEPT ![t].draft = d] /\ UNCHANGED <<items, config, gone, edits, pending, odd>>
    BY <1>8 DEF OpenNew
  <2> HIDE DEF d
  <2> QED  BY <1>0, <1>7, <2>1, <2>2
<1>9. ASSUME NEW b \in Bodies, NEW i \in 1 .. Len(con[t].view), OpenEdit(t, i, b)
      PROVE  ListInv' /\ ListsTyped' /\ UNCHANGED <<items, config>>
  <2> DEFINE d == [id |-> con[t].view[i].id, body |-> b]
  <2>1. con[t].view[i] \in Item
    BY <1>1
  <2>2. d \in Draft /\ d.id = con[t].view[i].id
    BY <2>1 DEF Draft, Item
  <2>3. con' = [con EXCEPT ![t].draft = d] /\ UNCHANGED <<items, config, gone, edits, pending>>
    BY <1>9 DEF OpenEdit
  <2>4. odd' = odd \cup (IF con[t].view[i].id \in gone THEN {"overtaken"} ELSE {})
    BY <1>9 DEF OpenEdit
  <2>5. odd \subseteq odd' /\ odd' \subseteq {"clash", "overtaken"}
        /\ (d.id \in gone => "overtaken" \in odd')
    BY <1>0, <2>2, <2>4
  <2> HIDE DEF d
  <2> QED  BY <1>7, <2>2, <2>3, <2>5
<1>10. ASSUME NEW ch \in Typed, OpenSchedule(t, ch[1], ch[2])
       PROVE  ListInv' /\ ListsTyped' /\ UNCHANGED <<items, config>>
  <2> DEFINE s == [Shown(con[t].cfg) EXCEPT ![ch[1]] = ch[2]]
             x == [rules |-> s, typed |-> ch[1], shown |-> con[t].cfg]
             c == [con[t] EXCEPT !.sched = x]
  <2>1. ch[1] \in Rules /\ s \in Schedule /\ Shown(con[t].cfg) \in Schedule
    BY <1>1, ShownIsSchedule, TeachingAssumption DEF Shown, Closable, Schedule
  <2>2. x \in Change
    BY <1>1, <2>1 DEF Change, Closable
  <2>3. \A r \in Rules \ {ch[1]} : s[r] = Shown(con[t].cfg)[r]
    BY <2>1 DEF Schedule, Rules
  <2>4. OneRuleTyped(x)
    BY <2>3 DEF OneRuleTyped
  <2>5. con' = [con EXCEPT ![t] = c] /\ UNCHANGED <<items, config, gone, edits, odd, pending>>
    BY <1>10 DEF OpenSchedule
  <2> HIDE DEF x, s
  <2>6. c \in Console /\ c.view = con[t].view /\ c.cfg = con[t].cfg /\ c.draft = con[t].draft
        /\ c.sched = x
    BY <1>0, <1>1, <2>2 DEF Console
  <2> HIDE DEF c
  <2> QED  BY <1>0, <1>2, <1>3, <2>4, <2>5, <2>6
<1> QED  BY <1>4, <1>5, <1>6, <1>8, <1>9, <1>10
\* The steps that store something: Save and Remove a list, the two writers of
\* the schedule a schedule.  A new id that was drawn before is a clash; an
\* editor's id that has been deleted is overtaken.
LEMMA SaveKeeps ==
  ASSUME TeachInv, NEW t \in Consoles, NEW id \in Ids, Save(t, id)
  PROVE  ListInv' /\ ListsTyped'
<1>0. /\ TypeOK /\ ConsolesAgree /\ DraftsNoted /\ None \notin Ids
      /\ config \in Closable /\ gone \subseteq Ids /\ odd \subseteq {"clash", "overtaken"}
  BY TeachingAssumption DEF TeachInv, ListInv, TypeOK, Closable
<1>1. /\ Write(t) /\ UNCHANGED <<config, gone>> /\ con[t].draft # None /\ con[t].draft.id \in {None, id}
      /\ odd' = odd \cup (IF con[t].draft.id = None /\ id \in IdsOf(items) \cup gone
                          THEN {"clash"} ELSE {})
  BY DEF Save
<1>2. odd \subseteq odd' /\ odd' \subseteq {"clash", "overtaken"}
  BY <1>0, <1>1
<1>3. /\ items' \in Seq(Item)
      /\ IdsOf(items') = IdsOf(items) \cup {id}
      /\ \/ id \in IdsOf(items) /\ con[t].draft.id = None
         \/ (\A i, k \in DOMAIN items : items[i].id = items[k].id => i = k) =>
            (\A i, k \in DOMAIN items' : items'[i].id = items'[k].id => i = k)
  BY <1>0, SaveIds
<1>4. \A u \in Consoles \ {t} :
        con[u].draft # None /\ con[u].draft.id \in gone' => "overtaken" \in odd'
  BY <1>0, <1>1, <1>2 DEF DraftsNoted
<1>5. ASSUME "clash" \notin odd'
      PROVE  \A i, k \in DOMAIN items' : items'[i].id = items'[k].id => i = k
  <2>1. Without({"clash"})
    BY <1>2, <1>5 DEF Without
  <2>2. \A i, k \in DOMAIN items : items[i].id = items[k].id => i = k
    BY <1>0, <2>1 DEF ConsolesAgree
  <2>3. ~(id \in IdsOf(items) /\ con[t].draft.id = None)
    BY <1>1, <1>5
  <2> QED  BY <1>3, <2>2, <2>3
<1>6. ASSUME "clash" \notin odd', "overtaken" \notin odd'
      PROVE  gone' \cap IdsOf(items') = {}
  <2>1. Without({"clash", "overtaken"})
    BY <1>2, <1>6 DEF Without
  <2>2. gone \cap IdsOf(items) = {}
    BY <1>0, <2>1 DEF ConsolesAgree
  <2>3. id \notin gone
    <3>1. CASE con[t].draft.id = None
      BY <1>1, <1>6, <3>1
    <3>2. CASE con[t].draft.id = id
      BY <1>0, <1>1, <1>2, <1>6, <3>2 DEF DraftsNoted
    <3> QED  BY <1>1, <3>1, <3>2
  <2> QED  BY <1>1, <1>3, <2>2, <2>3
<1>7. config' \in Closable
  BY <1>0, <1>1
<1>8. /\ ListInv' /\ con' \in [Consoles -> Console]
      /\ pending' \subseteq Consoles /\ edits' \in 0 .. MaxEdits
  BY <1>1, <1>2, <1>3, <1>4, <1>5, <1>6, <1>7, WriteStep
<1> QED  BY <1>0, <1>1, <1>2, <1>3, <1>7, <1>8 DEF ListsTyped

LEMMA RemoveKeeps ==
  ASSUME TeachInv, NEW t \in Consoles, NEW id \in Ids, Remove(t, id)
  PROVE  ListInv' /\ ListsTyped'
<1>0. /\ items \in Seq(Item) /\ ConsolesAgree /\ DraftsNoted
      /\ config \in Closable /\ gone \subseteq Ids /\ odd \subseteq {"clash", "overtaken"}
  BY DEF TeachInv, ListInv, TypeOK, Closable
<1>1. /\ Write(t) /\ UNCHANGED config /\ gone' = gone \cup ({id} \cap IdsOf(items))
      /\ odd' = odd \cup (IF \E u \in Consoles : con[u].draft # None /\ con[u].draft.id = id
                          THEN {"overtaken"} ELSE {})
  BY DEF Remove
<1>2. odd \subseteq odd' /\ odd' \subseteq {"clash", "overtaken"}
  BY <1>0, <1>1
<1>3. /\ items' \in Seq(Item)
      /\ IdsOf(items') \subseteq IdsOf(items) \ {id}
      /\ (\A i, k \in DOMAIN items : items[i].id = items[k].id => i = k) =>
         (\A i, k \in DOMAIN items' : items'[i].id = items'[k].id => i = k)
  BY <1>0, RemoveIds
<1>4. ASSUME NEW u \in Consoles, con[u].draft # None, con[u].draft.id \in gone'
      PROVE  "overtaken" \in odd'
  <2>1. CASE con[u].draft.id \in gone
    BY <1>0, <1>2, <1>4, <2>1 DEF DraftsNoted
  <2>2. CASE con[u].draft.id = id
    BY <1>1, <1>4, <2>2
  <2> QED  BY <1>1, <1>4, <2>1, <2>2
<1>5. ASSUME "clash" \notin odd'
      PROVE  \A i, k \in DOMAIN items' : items'[i].id = items'[k].id => i = k
  BY <1>0, <1>2, <1>3, <1>5 DEF ConsolesAgree, Without
<1>6. ASSUME "clash" \notin odd', "overtaken" \notin odd'
      PROVE  gone' \cap IdsOf(items') = {}
  <2>1. Without({"clash", "overtaken"})
    BY <1>2, <1>6 DEF Without
  <2>2. gone \cap IdsOf(items) = {}
    BY <1>0, <2>1 DEF ConsolesAgree
  <2> QED  BY <1>1, <1>3, <2>2
<1>7. config' \in Closable /\ gone' \subseteq Ids
  BY <1>0, <1>1
<1>8. /\ ListInv' /\ con' \in [Consoles -> Console]
      /\ pending' \subseteq Consoles /\ edits' \in 0 .. MaxEdits
  BY <1>1, <1>2, <1>3, <1>4, <1>5, <1>6, <1>7, WriteStep
<1> QED  BY <1>2, <1>3, <1>7, <1>8 DEF ListsTyped

LEMMA ScheduleKeeps ==
  ASSUME TeachInv, NEW t \in Consoles, SaveSchedule(t) \/ ClearSchedule(t)
  PROVE  ListInv' /\ ListsTyped'
<1>0. /\ items \in Seq(Item) /\ ConsolesAgree /\ DraftsNoted
      /\ con[t].sched \in Change \cup {None}
      /\ gone \subseteq Ids /\ odd \subseteq {"clash", "overtaken"}
  BY DEF TeachInv, ListInv, TypeOK, Closable
<1>1. Write(t) /\ UNCHANGED <<items, gone, odd>>
  BY DEF SaveSchedule, ClearSchedule
<1>2. config' \in Closable
  <2>1. CASE SaveSchedule(t)
    <3>1. con[t].sched \in Change /\ config' = con[t].sched.rules
      BY <1>0, <2>1 DEF SaveSchedule
    <3> QED  BY <3>1 DEF Change, Closable
  <2> QED  BY <2>1 DEF ClearSchedule, Closable
<1>3. \A u \in Consoles \ {t} :
        con[u].draft # None /\ con[u].draft.id \in gone' => "overtaken" \in odd'
  BY <1>0, <1>1 DEF DraftsNoted
<1>4. /\ "clash" \notin odd' => \A i, k \in DOMAIN items' : items'[i].id = items'[k].id => i = k
      /\ "clash" \notin odd' /\ "overtaken" \notin odd' => gone' \cap IdsOf(items') = {}
  BY <1>0, <1>1 DEF ConsolesAgree, Without, IdsOf
<1>5. items' \in Seq(Item) /\ odd \subseteq odd' /\ odd' \subseteq {"clash", "overtaken"}
  BY <1>0, <1>1
<1>6. /\ ListInv' /\ con' \in [Consoles -> Console]
      /\ pending' \subseteq Consoles /\ edits' \in 0 .. MaxEdits
  BY <1>1, <1>2, <1>3, <1>4, <1>5, WriteStep
<1> QED  BY <1>0, <1>1, <1>2, <1>5, <1>6 DEF ListsTyped
-----------------------------------------------------------------------------
(* The consoles' invariant.                                                *)

GateStates == {"open", "not_open", "closed", "time_up"}

LEMMA TeachInit == Init => TeachInv
<1> SUFFICES ASSUME Init PROVE TeachInv
  OBVIOUS
<1>1. /\ items \in Seq(Item) /\ config \in Closable /\ 1 \in Time /\ 0 \in 0 .. MaxEdits
      /\ None \notin Time
  BY TeachingAssumption DEF Init, Closable, Time
<1>2. /\ con = [t \in Consoles |-> [view |-> items, cfg |-> config, draft |-> None, sched |-> None]]
      /\ odd = IF \E i, k \in DOMAIN items : i # k /\ items[i].id = items[k].id
               THEN {"clash"} ELSE {}
      /\ scene \in Scenes /\ pending = {} /\ edits = 0 /\ gone = {}
      /\ now = 1 /\ due = {} /\ started = None /\ userData = TRUE
      /\ page = "course" /\ gate = "open" /\ bar = FALSE
      /\ late = 0 /\ fresh = TRUE
  BY DEF Init
<1>3. shut \in 0 .. 3
  BY DEF Init
<1>4. con \in [Consoles -> Console]
  BY <1>1, <1>2 DEF Console, Closable
<1>5. TypeOK
  <2>1. odd \subseteq {"clash", "overtaken"}
    BY <1>2
  <2>2. userData \in BOOLEAN /\ bar \in BOOLEAN /\ fresh \in BOOLEAN
    BY <1>2
  <2>3. /\ scene \in Scenes /\ pending \subseteq Consoles /\ edits \in 0 .. MaxEdits
        /\ gone \subseteq Ids /\ now \in Time /\ due \subseteq {"gate", "bar"}
        /\ started \in Time \cup {None} /\ page \in {"course", "entering", "exam"}
        /\ gate \in {"open", "not_open", "closed", "time_up"} /\ late \in 0 .. 3
    BY <1>1, <1>2
  <2> QED  BY <1>1, <1>3, <1>4, <2>1, <2>2, <2>3 DEF TypeOK, Console, Closable
<1>6. ConsolesAgree
  <2>1. \A t \in Consoles \ pending : con[t].view = items /\ con[t].cfg = config
    BY <1>2
  <2>2. "clash" \notin odd => \A i, k \in DOMAIN items : items[i].id = items[k].id => i = k
    BY <1>2
  <2> QED  BY <1>2, <2>1, <2>2 DEF ConsolesAgree, Without
<1>7. DraftsNoted /\ \A t \in Consoles : OneRuleTyped(con[t].sched)
  BY <1>2 DEF DraftsNoted, OneRuleTyped
<1> QED  BY <1>5, <1>6, <1>7 DEF TeachInv, ListInv

\* Both sides typed are the whole state typed.
LEMMA BothTyped ==
  ASSUME ListsTyped', GateInv', gate' \in GateStates, scene' \in Scenes
  PROVE  TypeOK'
BY DEF ListsTyped, GateInv, GateType, GateStates, TypeOK, Console, Closable

LEMMA StudentKeeps ==
  ASSUME TeachInv,
         \/ StartExam \/ Arrive \/ Leave \/ Tick \/ EvaluateGate \/ EvaluateBar
         \/ Submit \/ LoseUserData \/ UNCHANGED vars
  PROVE  /\ ListInv' /\ ListsTyped' /\ gate' \in GateStates
         /\ UNCHANGED <<items, config, scene>>
<1>1. TypeOK /\ ListInv
  BY DEF TeachInv
<1>2. UNCHANGED <<teach, odd>>
  BY DEF StartExam, Arrive, Leave, Tick, EvaluateGate, EvaluateBar, Submit, LoseUserData, vars
<1>3. UNCHANGED <<items, config, scene, con, pending, edits, gone, odd>>
  BY <1>2 DEF teach
<1>4. \A cfg, start : Reason(cfg, start) \in GateStates
  BY DEF Reason, GateStates
<1>5. gate' \in GateStates
  BY <1>1, <1>4 DEF StartExam, Arrive, Leave, Tick, EvaluateGate, EvaluateBar, Submit,
     LoseUserData, vars, student, TypeOK, GateStates
<1>6. ListInv'
  BY <1>1, <1>3 DEF ListInv, ConsolesAgree, DraftsNoted, OneRuleTyped, Shown, Without, IdsOf
<1>7. ListsTyped'
  BY <1>1, <1>3 DEF TypeOK, ListsTyped, Console, Closable
<1> QED  BY <1>3, <1>5, <1>6, <1>7

LEMMA TeachNext == GateInv' /\ TeachInv /\ [Next]_vars => TeachInv'
<1> SUFFICES ASSUME GateInv', TeachInv, [Next]_vars PROVE TeachInv'
  OBVIOUS
<1>0. scene \in Scenes /\ gate \in GateStates
  BY DEF TeachInv, TypeOK, GateStates
\* What is left to show of a step: the scene stays, and so does the gate where
\* a console steps.
<1>1. ASSUME ListInv', ListsTyped', UNCHANGED scene, gate' \in GateStates
      PROVE  TeachInv'
  BY <1>0, <1>1, BothTyped DEF TeachInv
<1>2. ASSUME NEW t \in Consoles,
             \/ Deliver(t) \/ Reopen(t) \/ Cancel(t)
             \/ \E b \in Bodies : OpenNew(t, b) \/ \E i \in 1 .. Len(con[t].view) : OpenEdit(t, i, b)
             \/ \E ch \in Typed : OpenSchedule(t, ch[1], ch[2])
      PROVE  TeachInv'
  <2>1. ListInv' /\ ListsTyped'
    BY <1>2, ConsoleKeeps
  <2>2. UNCHANGED <<scene, gate>>
    BY <1>2 DEF Deliver, Reopen, Cancel, OpenNew, OpenEdit, OpenSchedule, student
  <2> QED  BY <1>0, <1>1, <2>1, <2>2
<1>3. ASSUME NEW t \in Consoles, NEW id \in Ids, Save(t, id) \/ Remove(t, id)
      PROVE  TeachInv'
  <2>1. ListInv' /\ ListsTyped'
    BY <1>3, SaveKeeps, RemoveKeeps
  <2>2. UNCHANGED <<scene, gate>>
    BY <1>3 DEF Save, Remove, student
  <2> QED  BY <1>0, <1>1, <2>1, <2>2
<1>4. ASSUME NEW t \in Consoles, SaveSchedule(t) \/ ClearSchedule(t)
      PROVE  TeachInv'
  <2>1. ListInv' /\ ListsTyped'
    BY <1>4, ScheduleKeeps
  <2>2. UNCHANGED <<scene, gate>>
    BY <1>4 DEF SaveSchedule, ClearSchedule
  <2> QED  BY <1>0, <1>1, <2>1, <2>2
<1>5. CASE \/ StartExam \/ Arrive \/ Leave \/ Tick \/ EvaluateGate \/ EvaluateBar
           \/ Submit \/ LoseUserData \/ UNCHANGED vars
  <2>1. ListInv' /\ ListsTyped' /\ gate' \in GateStates /\ UNCHANGED scene
    BY <1>5, StudentKeeps
  <2> QED  BY <1>1, <2>1
<1> QED  BY <1>2, <1>3, <1>4, <1>5 DEF Next

\* Whatever the consoles store, delete and hold open, and whatever the student
\* does meanwhile, every list, schedule, copy and clock has its shape.
THEOREM TypeCorrect == Spec => []TypeOK
<1>1. TeachInv => TypeOK
  BY DEF TeachInv
<1> QED  BY <1>1, GateInit, GateNext, TeachInit, TeachNext, PTL DEF Spec

\* A console that no storage event is on its way to shows what is stored; an
\* id names one item unless genId drew it twice; and no edit brings a deleted
\* item back but that of an editor which held it when it was deleted
\* (instructor-store.js:86-101, InstructorDashboard.jsx's refresh).
THEOREM AgreementHolds == Spec => []ConsolesAgree
<1>1. TeachInv => ConsolesAgree
  BY DEF TeachInv, ListInv
<1> QED  BY <1>1, GateInit, GateNext, TeachInit, TeachNext, PTL DEF Spec

-----------------------------------------------------------------------------
(* What an edit leaves alone.                                              *)

LEMMA EditKept ==
  ASSUME TeachInv, [Next]_vars
  PROVE  ItemsKept /\ ScheduleKept
<1>1. TypeOK /\ \A t \in Consoles : OneRuleTyped(con[t].sched)
  BY DEF TeachInv, ListInv
\* A step that stores nothing keeps everything.
<1>2. UNCHANGED items => ItemsKept
  BY DEF ItemsKept
<1>3. config' \in {config, None} => ScheduleKept
  BY DEF ScheduleKept
<1>4. ASSUME NEW t \in Consoles,
             \/ Deliver(t) \/ Reopen(t) \/ Cancel(t)
             \/ \E b \in Bodies : OpenNew(t, b) \/ \E i \in 1 .. Len(con[t].view) : OpenEdit(t, i, b)
             \/ \E ch \in Typed : OpenSchedule(t, ch[1], ch[2])
      PROVE  ItemsKept /\ ScheduleKept
  <2>1. UNCHANGED <<items, config>>
    BY <1>4, ConsoleKeeps
  <2> QED  BY <1>2, <1>3, <2>1
<1>5. ASSUME NEW t \in Consoles, NEW id \in Ids, Save(t, id) \/ Remove(t, id)
      PROVE  ItemsKept /\ ScheduleKept
  <2>1. UNCHANGED config
    BY <1>5 DEF Save, Remove
  <2> QED  BY <1>1, <1>3, <1>5, <2>1, ItemsStep
<1>6. ASSUME NEW t \in Consoles, SaveSchedule(t)
      PROVE  ItemsKept /\ ScheduleKept
  <2>1. UNCHANGED items /\ con[t].sched # None /\ config' = con[t].sched.rules
    BY <1>6 DEF SaveSchedule
  <2>2. \A r \in Rules \ {con[t].sched.typed} : config'[r] = Shown(con[t].sched.shown)[r]
    BY <1>1, <2>1 DEF OneRuleTyped
  <2>3. ScheduleKept
    BY <2>1, <2>2 DEF ScheduleKept
  <2> QED  BY <1>2, <2>1, <2>3
<1>7. ASSUME NEW t \in Consoles, ClearSchedule(t)
      PROVE  ItemsKept /\ ScheduleKept
  BY <1>2, <1>3, <1>7 DEF ClearSchedule
<1>8. CASE \/ StartExam \/ Arrive \/ Leave \/ Tick \/ EvaluateGate \/ EvaluateBar
           \/ Submit \/ LoseUserData \/ UNCHANGED vars
  <2>1. UNCHANGED <<items, config>>
    BY <1>8, StudentKeeps
  <2> QED  BY <1>2, <1>3, <2>1
<1> QED  BY <1>4, <1>5, <1>6, <1>7, <1>8 DEF Next

\* From however old a page an instructor saves or deletes, one id's items
\* change, and one rule of the schedule: the write is made on the stored list
\* and not on the copy (instructor-store.js:86-101), and the editor of the
\* schedule, which does write its copy back, holds one typed rule.
THEOREM EditsAreKept == Spec => EditsKept
<1>1. TeachInv /\ [Next]_vars => [ItemsKept /\ ScheduleKept]_vars
  BY EditKept
<1> QED  BY <1>1, GateInit, GateNext, TeachInit, TeachNext, PTL DEF Spec, EditsKept
=============================================================================
