------------------------------ MODULE Grading ------------------------------
(***************************************************************************)
(* From an answer to the class's figures: the browser judges a query       *)
(* (Verifier), the server logs the verdict, the tutor may add its own, and *)
(* Students & Analytics of the teaching console loads the log and counts   *)
(* it (Roster).  Loads may overlap, and the console's browser may lack the *)
(* custom problems that students work on.  (App.jsx, verifier.js, api.js,  *)
(* dashboard.py, InstructorDashboard.jsx.)                                 *)
(*                                                                         *)
(* How an attempt reaches the log, and is retried, is AttemptLog's matter: *)
(* here a row appears when it is inserted and gets its ruling later.       *)
(***************************************************************************)
EXTENDS Roster, Verifier

CONSTANTS
  Students,     \* everyone with the role, so everyone on the roster
  BuiltIn,      \* the problem bank: a sequence of problems
  Custom,       \* the problems an instructor may add on the console's browser
  Texts,        \* what a student may write: sequences of tokens
  Results,      \* what a query, the student's or the golden, may return
  Load,         \* places for loads in flight
  MaxAttempts   \* bound on the log

Ids == {BuiltIn[i].id : i \in DOMAIN BuiltIn} \cup {p.id : p \in Custom}
Modes == {"COURSE", "ASSIGNMENT", "EXAM"}
ModeOf(id) == (CHOOSE p \in Range(BuiltIn) \cup Custom : p.id = id).type

ASSUME GradingAssumption ==
  /\ MaxAttempts \in Nat
  /\ IsFiniteSet(Students)
  /\ BuiltIn \in Seq(Range(BuiltIn))
  /\ \A p \in Custom : \A i \in DOMAIN BuiltIn : p.id # BuiltIn[i].id
  /\ \A p, q \in Range(BuiltIn) \cup Custom : p.id = q.id => p = q
  /\ \A p \in Range(BuiltIn) \cup Custom : p.type \in Modes
  /\ \A result \in Results : IsResult(result)
  /\ \A tokens \in Texts : IsText(tokens)
  /\ None \notin Students /\ None \notin BOOLEAN

VARIABLES
  log,      \* submission_logs, in the order of their ids
  custom,   \* its_custom_problems of the console's browser
  inClass,  \* the section on screen is Students & Analytics
  class,    \* classData: status and submissions; with them, as history, the
            \* log they were made of
  load,     \* the calls of /dashboard/attempts in flight
  openId, openCat,   \* the student and the module in the drill-down
  begun,    \* history: the length of the log when the last load began
  crossed   \* history: a load began while another was in flight

console == <<inClass, class, load, openId, openCat, begun, crossed>>
vars == <<log, custom, console>>

All == BuiltIn \o custom

NoLoad == [pc |-> "none", served |-> <<>>]

Init ==
  /\ log = <<>>
  /\ custom = <<>>
  /\ inClass = TRUE
  /\ class = [status |-> "loading", subs |-> <<>>, of |-> <<>>]
  /\ \E l \in Load : load = [m \in Load |-> IF m = l THEN [NoLoad EXCEPT !.pc = "sent"] ELSE NoLoad]
  /\ openId = None /\ openCat = None
  /\ begun = 0 /\ crossed = FALSE

-----------------------------------------------------------------------------
(* Students, the tutor and the author of problems.                         *)

\* How results compare, and whether they deserve to: where they agree but for
\* the slack, whatever the comparison says.
Comparisons ==
  {LET match == compareResults(s, g, ordered).isMatch
       deserves == Deserves(s, g, ordered)
   IN [match |-> match, deserves |-> IF deserves = "either" THEN match ELSE deserves = "pass"] :
     s \in Results, g \in Results, ordered \in BOOLEAN}

\* How a text ends, by the code and by its tokens.
Endings ==
  {[semicolon |-> HasSemicolon(TextOf(tokens)), deserves |-> EndsInSemicolon(tokens)] :
     tokens \in Texts}

\* The verdict of handleSubmit: the rows match and the text ends in a semicolon.
Verdicts ==
  {[client |-> c.match /\ e.semicolon,
    deserves |-> c.deserves /\ e.deserves] : c \in Comparisons, e \in Endings}

\* An engine error is logged as an attempt of its own, of a Submit or a Run.
Failure == [client |-> FALSE, deserves |-> FALSE]

Attempt(u, id, action, v) ==
  [user |-> u, problem |-> id, mode |-> ModeOf(id), action |-> action, client |-> v.client,
   tutor |-> None, deserves |-> v.deserves]

Logged(u, id, action, v) ==
  /\ Len(log) < MaxAttempts
  /\ log' = Append(log, Attempt(u, id, action, v))
  /\ UNCHANGED <<custom, console>>

Submit(u, id) == \E v \in Verdicts \cup {Failure} : Logged(u, id, "submit", v)

\* An EXAM Run that fails reports nothing.
RunFails(u, id) == ModeOf(id) # "EXAM" /\ Logged(u, id, "run", Failure)

Rules(i, verdict) ==
  /\ log[i].tutor = None
  /\ log' = [log EXCEPT ![i].tutor = verdict]
  /\ UNCHANGED <<custom, console>>

AddProblem(p) ==
  /\ p \notin Range(custom)
  /\ custom' = Append(custom, p)
  /\ UNCHANGED <<log, console>>

DeleteProblem(p) ==
  /\ p \in Range(custom)
  /\ custom' = Kept(custom, {i \in DOMAIN custom : custom[i] # p})
  /\ UNCHANGED <<log, console>>

-----------------------------------------------------------------------------
(* The console.                                                            *)

\* loadClass.
LoadClass(l) ==
  /\ load[l] = NoLoad
  /\ load' = [load EXCEPT ![l].pc = "sent"]
  /\ class' = [class EXCEPT !.status = "loading"]
  /\ begun' = Len(log)
  /\ crossed' = (crossed \/ \E m \in Load : load[m] # NoLoad)

\* The section is opened: its component is new, the data are not.
EnterClass(l) ==
  /\ ~inClass /\ inClass' = TRUE
  /\ LoadClass(l)
  /\ openId' = None /\ openCat' = None
  /\ UNCHANGED <<log, custom>>

LeaveClass ==
  /\ inClass /\ inClass' = FALSE
  /\ openId' = None /\ openCat' = None
  /\ UNCHANGED <<log, custom, class, load, begun, crossed>>

TryAgain(l) ==
  /\ inClass /\ class.status = "error"
  /\ LoadClass(l)
  /\ UNCHANGED <<log, custom, inClass, openId, openCat>>

\* The server reads the log.
Serve(l) ==
  /\ load[l].pc = "sent"
  /\ load' = [load EXCEPT ![l] = [pc |-> "served", served |-> log]]
  /\ UNCHANGED <<log, custom, inClass, class, openId, openCat, begun, crossed>>

\* Whichever load it is, its answer replaces the data.
Arrive(l) ==
  /\ load[l].pc = "served"
  /\ class' = [status |-> "ok", subs |-> toSubmissions(load[l].served, All), of |-> load[l].served]
  /\ load' = [load EXCEPT ![l] = NoLoad]
  /\ UNCHANGED <<log, custom, inClass, openId, openCat, begun, crossed>>

\* Mutant: a load that fails leaves the page as it was.
LoadFails_Silent(l) ==
  /\ load[l].pc \in {"sent", "served"}
  /\ class' = [class EXCEPT !.status = "ok"]
  /\ load' = [load EXCEPT ![l] = NoLoad]
  /\ UNCHANGED <<log, custom, inClass, openId, openCat, begun, crossed>>

LoadFails(l) ==
  /\ load[l].pc \in {"sent", "served"}
  /\ class' = [class EXCEPT !.status = "error"]
  /\ load' = [load EXCEPT ![l] = NoLoad]
  /\ UNCHANGED <<log, custom, inClass, openId, openCat, begun, crossed>>

\* The roster is on screen.
Shown == inClass /\ class.status = "ok" /\ Rows(Students, class.subs) # {}

OpenStudent(u) ==
  /\ Shown /\ openId = None
  /\ \E filter \in {"all", "atrisk", "top"} : u \in Filtered(Students, class.subs, filter)
  /\ openId' = u /\ openCat' = None
  /\ UNCHANGED <<log, custom, inClass, class, load, begun, crossed>>

OpenModule(m) ==
  /\ Shown /\ openId # None /\ openCat = None
  /\ m \in Groups(class.subs, openId)
  /\ openCat' = m
  /\ UNCHANGED <<log, custom, inClass, class, load, openId, begun, crossed>>

Back ==
  /\ Shown /\ openCat # None
  /\ openCat' = None
  /\ UNCHANGED <<log, custom, inClass, class, load, openId, begun, crossed>>

CloseStudent ==
  /\ Shown /\ openId # None
  /\ openId' = None /\ openCat' = None
  /\ UNCHANGED <<log, custom, inClass, class, load, begun, crossed>>

-----------------------------------------------------------------------------
Next ==
  \/ \E u \in Students, id \in Ids : Submit(u, id) \/ RunFails(u, id)
  \/ \E i \in 1 .. Len(log), verdict \in BOOLEAN : Rules(i, verdict)
  \/ \E p \in Custom : AddProblem(p) \/ DeleteProblem(p)
  \/ \E l \in Load : EnterClass(l) \/ TryAgain(l) \/ Serve(l) \/ Arrive(l) \/ LoadFails(l)
  \/ \E u \in Students : OpenStudent(u)
  \/ \E m \in Modules(class.subs) : OpenModule(m)
  \/ LeaveClass \/ Back \/ CloseStudent

Spec == Init /\ [][Next]_vars

-----------------------------------------------------------------------------
(* Properties.                                                             *)

DistinctNames ==
  \A r \in Results : \A i, k \in DOMAIN r.columns : r.columns[i] = r.columns[k] => i = k

\* The browser passes exactly the attempts that deserve it: rows compared by
\* position and paired off, whatever the names, types and order of columns
\* and rows, and a text whose last token is a semicolon, whatever its literals
\* and comments hold, where no result has two columns of one name
\* (verifier.js:77-118, 164-217; App.jsx:411-412).
VerdictRight == DistinctNames => \A i \in DOMAIN log : log[i].client = log[i].deserves

\* verifier.js:7-8: "Values are compared as a positional matrix (row tuples in
\* column order), so column aliases / header names never cause false fails or
\* false passes."
AliasesNeverMatter == \A i \in DOMAIN log : log[i].client = log[i].deserves

\* The sum of a function's values.
Total(f) ==
  MapThenFoldSet(LAMBDA a, b : a + b, 0, LAMBDA x : f[x], LAMBDA T : CHOOSE x \in T : TRUE, DOMAIN f)

\* What the class section shows adds up: students, modules, modes and the
\* modules of each student count the same submissions, every one that was
\* served and no Run; each passes by the tutor's ruling or, before that, by
\* what its rows deserve.
AddsUp(subs, of) ==
  LET all == {i \in DOMAIN of : of[i].action = "submit"}
      passes == {i \in all : IF of[i].tutor # None THEN of[i].tutor ELSE of[i].deserves}
      passed == Total([u \in Students |-> Row(subs, u).passed])
  IN /\ Len(subs) = Cardinality(all)
     /\ Total([u \in Students |-> Row(subs, u).subs]) = Len(subs)
     /\ Total([m \in Modules(subs) |-> Module(subs, m).total]) = Len(subs)
     /\ Total([m \in Modes |-> Mode(subs, m)]) = Len(subs)
     /\ DistinctNames => passed = Cardinality(passes)
     /\ Total([m \in Modules(subs) |-> Module(subs, m).passed]) = passed
     /\ \A u \in Students :
          /\ Total([m \in Groups(subs, u) |-> Group(subs, u, m).count]) = Row(subs, u).subs
          /\ Row(subs, u).problems <= Row(subs, u).subs

\* A submission to a problem of the bank stands at the step its students know,
\* whatever the custom problems of the console's browser.
StepsAgree(subs, of) ==
  LET all == Kept(of, {i \in DOMAIN of : of[i].action = "submit"})
  IN \A i \in DOMAIN all :
       all[i].problem \in {p.id : p \in Range(BuiltIn)} =>
         LET known == Where(BuiltIn, all[i].problem) IN
           subs[i].module = known.module /\ subs[i].step = known.step

\* A loaded class is the log, as it was at the earliest when the last load
\* began, unless loads overlapped (InstructorDashboard.jsx:149-158, 650-716).
RosterTellsTheLog ==
  class.status = "ok" =>
    /\ AddsUp(class.subs, class.of)
    /\ StepsAgree(class.subs, class.of)
    /\ Len(class.of) <= Len(log) /\ (~crossed => Len(class.of) >= begun)
    /\ \A i \in DOMAIN class.of : class.of[i].tutor # None => class.of[i] = log[i]
=============================================================================
