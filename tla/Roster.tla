------------------------------- MODULE Roster -------------------------------
(***************************************************************************)
(* The arithmetic of Students & Analytics (InstructorDashboard.jsx): from  *)
(* the attempts the server logged to the roster, the class figures and the *)
(* modules of one student.                                                 *)
(*                                                                         *)
(* A problem is a record [id, type, module]; an attempt as served, one     *)
(*   [user, problem, mode, action, client, tutor]                          *)
(* where "problem" is the client_problem_id, "client" the browser's own    *)
(* verdict and "tutor" the tutor's, or None.                               *)
(***************************************************************************)
EXTENDS Integers, Sequences, FiniteSets, SequencesExt

CONSTANT None

Unknown == "?"

\* The place of problem i in the workspace's list for its mode and module.
StepOf(all, i) ==
  Cardinality({k \in 1 .. i : all[k].type = all[i].type /\ all[k].module = all[i].module})

\* Of two problems with one id the later is found; 0 is the step "?".
Where(all, id) ==
  LET same == {i \in DOMAIN all : all[i].id = id}
  IN IF same = {} THEN [module |-> Unknown, step |-> 0]
     ELSE LET i == CHOOSE i \in same : \A k \in same : k <= i
          IN [module |-> all[i].module, step |-> StepOf(all, i)]

\* The tutor's verdict where it graded the attempt, else what the browser
\* showed the student.
PassedBy(a) == IF a.tutor # None THEN a.tutor ELSE a.client

\* Array.filter: what stands at some of a list's places, in its order.
NthOf(places, n) == CHOOSE i \in places : Cardinality({k \in places : k <= i}) = n
Kept(list, places) == [n \in 1 .. Cardinality(places) |-> list[NthOf(places, n)]]

toSubmissions(attempts, all) ==
  LET graded == Kept(attempts, {i \in DOMAIN attempts : attempts[i].action # "run"})
  IN [i \in DOMAIN graded |->
       LET where == Where(all, graded[i].problem) IN
       [user |-> graded[i].user, mode |-> graded[i].mode, passed |-> PassedBy(graded[i]),
        module |-> where.module, step |-> where.step]]

-----------------------------------------------------------------------------
(* The memo "data" of StudentsAnalytics.                                   *)

Rate(passed, total) == IF total = 0 THEN 0 ELSE (200 * passed + total) \div (2 * total)

Of(subs, u)    == {i \in DOMAIN subs : subs[i].user = u}
Passing(subs, some) == {i \in some : subs[i].passed}

\* Every student has a row, and so has everyone who submitted.
Rows(students, subs) == students \cup {subs[i].user : i \in DOMAIN subs}

Row(subs, u) ==
  LET own == Of(subs, u)
      passed == Cardinality(Passing(subs, own))
  IN [subs     |-> Cardinality(own),
      passed   |-> passed,
      problems |-> Cardinality({<<subs[i].mode, subs[i].module, subs[i].step>> : i \in own}),
      modules  |-> Cardinality({subs[i].module : i \in own}),
      exams    |-> Cardinality({i \in own : subs[i].mode = "EXAM"}),
      passRate |-> Rate(passed, Cardinality(own))]

Modules(subs) == {subs[i].module : i \in DOMAIN subs}

Module(subs, m) ==
  LET within == {i \in DOMAIN subs : subs[i].module = m}
      passed == Cardinality(Passing(subs, within))
  IN [total |-> Cardinality(within), passed |-> passed,
      rate |-> Rate(passed, Cardinality(within))]

Mode(subs, mode) == Cardinality({i \in DOMAIN subs : subs[i].mode = mode})

ClassRate(subs) == Rate(Cardinality(Passing(subs, DOMAIN subs)), Len(subs))

\* The filters of the roster.
Filtered(students, subs, filter) ==
  {u \in Rows(students, subs) :
     CASE filter = "all" -> TRUE
       [] filter = "atrisk" -> Row(subs, u).passRate < 50
       [] filter = "top" -> Row(subs, u).passRate >= 80}

\* The modules in the drill-down of one student, and its queries of one.
Groups(subs, u) == {subs[i].module : i \in Of(subs, u)}

Group(subs, u, m) ==
  LET within == {i \in Of(subs, u) : subs[i].module = m}
      passed == Cardinality(Passing(subs, within))
  IN [count |-> Cardinality(within), passed |-> passed,
      rate |-> Rate(passed, Cardinality(within))]
=============================================================================
