----------------------------- MODULE Workspace -----------------------------
(***************************************************************************)
(* What one student's browser keeps of the course: the workspace's step    *)
(* statuses, submissions and drafts and the course page's lesson lists, in *)
(* the localStorage that all tabs share, and the React copies that each    *)
(* tab works on (App.jsx, CourseText.jsx, RightPanel.jsx,                  *)
(* StepIndicator.jsx, MySubmissions.jsx).                                  *)
(*                                                                         *)
(* A place is a mode and a module.  The place a key is computed from is    *)
(* read from localStorage whenever the key is needed, so it is the place   *)
(* that any tab entered last, not the one whose problems a tab shows.      *)
(* What a submission is worth is its verdict; what was typed is the        *)
(* problem it was typed for.                                               *)
(***************************************************************************)
EXTENDS Naturals, Sequences, SequencesExt, FiniteSets

CONSTANTS
  Tabs,          \* browser tabs
  Modules,       \* module ids; "01" and "02" are among them
  Banks,         \* the problem lists the program may start with
  Starts,        \* where and activeTab, as whoever used the browser before left them
  Problem,       \* problems, built in or an instructor's
  MaxSteps,      \* bound: problems of a place
  MaxMoves,      \* bound: what the student does, over all tabs
  MaxSubmits,    \* bound: submissions
  MaxEdits,      \* bound: problems an instructor adds or deletes
  None

Modes    == {"COURSE", "ASSIGNMENT", "EXAM"}
Place    == [mode : Modes, module : Modules]
Step     == 1 .. MaxSteps
Status   == {"none", "passed", "failed", "skipped"}
Job      == [problem : Problem, step : Step, verdict : {"verifying", "passed", "failed"},
             exam : BOOLEAN, list : Seq(Problem)]

ASSUME WorkspaceAssumption ==
  /\ {"01", "02"} \subseteq Modules
  /\ Banks \subseteq [Place -> Seq(Problem)] /\ \A b \in Banks, p \in Place : Len(b[p]) <= MaxSteps
  /\ Starts \subseteq (Place \cup {None}) \X Modes
  /\ MaxSteps \in Nat \ {0} /\ MaxMoves \in Nat /\ MaxSubmits \in Nat /\ MaxEdits \in Nat
  /\ None \notin Place \cup Modules \cup Problem \cup Job /\ \A l \in SUBSET Modules : l # None

VARIABLES
  bank,       \* getAllProblems(), by place
  where,      \* workspaceMode and workspaceModule, written together, or None
  activeTab,  \* course_active_tab
  statuses,   \* statuses_<user>_<mode>_<module>
  subs,       \* submissions_<user>_<mode>_<module>: the attempts of each step
  saved,      \* currentStep_<user>_<mode>_<module>, 0 when there is none
  drafts,     \* saved_code_<mode>_<module>_step_<n>: the problem typed for
  lessons,    \* course_06070999_<user>_<mode>_lessons: the completed modules
  tab,        \* each tab's React state and timers
  moves, submits, edits,
  odd         \* history: the rare crossings that have happened, by name

storage == <<where, activeTab, statuses, subs, saved, drafts, lessons>>
vars    == <<bank, storage, tab, moves, submits, edits, odd>>

-----------------------------------------------------------------------------
(* Keys and lists.                                                         *)

\* getWorkspaceKeys: where the workspace's own keys point just now.
AppPlace    == IF where = None THEN [mode |-> "COURSE", module |-> "01"] ELSE where

\* The editor's key has another default module.
EditorPlace == IF where = None THEN [mode |-> "COURSE", module |-> "02"] ELSE where

Blank == [i \in Step |-> "none"]

\* safeStep: a step remembered for a longer list falls back to the first.
SafeStep(p) == IF saved[p] \in 1 .. Len(bank[p]) THEN saved[p] ELSE 1

PassedSteps(sts) == {i \in Step : sts[i] = "passed"}

\* Mutant: a failed or skipped problem counts.
AllPassed_Attempted(p, sts) ==
  Len(bank[p]) > 0 /\ Cardinality({i \in Step : sts[i] # "none"}) >= Len(bank[p])

AllPassed(p, sts) == Len(bank[p]) > 0 /\ Cardinality(PassedSteps(sts)) >= Len(bank[p])

\* checkExamCompletion: every problem has been attempted.
ExamDone(p) ==
  Len(bank[p]) > 0 /\ Cardinality({i \in Step : subs[p][i] # <<>>}) >= Len(bank[p])

\* The list the course page restores: what was saved, and for assignments
\* every module whose problems have all been passed.
Restored(mode) ==
  (IF lessons[mode] = None THEN {} ELSE lessons[mode]) \cup
  (IF mode # "ASSIGNMENT" THEN {}
   ELSE {m \in Modules : AllPassed([mode |-> mode, module |-> m], statuses[[mode |-> mode, module |-> m]])})

\* A submission marks its lesson in the saved list; a list never saved has
\* no lesson to mark.
Marked(l, m) == IF l = None THEN None ELSE l \cup {m}

-----------------------------------------------------------------------------
(* A tab.                                                                  *)

\* Mutant: no problem is the current one at first.
FreshTab_NoStep(page) ==
  [page |-> page, at |-> None, list |-> <<>>, step |-> 0, sts |-> Blank, shown |-> <<>>,
   act |-> activeTab, lst |-> {}, due |-> "none", job |-> None, mark |-> None, enter |-> None]

FreshTab(page) ==
  [page |-> page, at |-> None, list |-> <<>>, step |-> 1, sts |-> Blank, shown |-> <<>>,
   act |-> activeTab, lst |-> {}, due |-> "none", job |-> None, mark |-> None, enter |-> None]

Init ==
  /\ bank \in Banks
  /\ \E s \in Starts : where = s[1] /\ activeTab = s[2]
  /\ statuses = [p \in Place |-> Blank]
  /\ subs = [p \in Place |-> [i \in Step |-> <<>>]]
  /\ saved = [p \in Place |-> 0]
  /\ drafts = [p \in Place |-> [i \in Step |-> None]]
  /\ lessons = [m \in Modes |-> None]
  /\ tab = [t \in Tabs |-> FreshTab("home")]
  /\ moves = 0 /\ submits = 0 /\ edits = 0
  /\ odd = {}

\* The student acts on a page that has come to rest and is not covered by
\* the verdict; browser back and forward reach a covered page too.
Moves(t) == moves < MaxMoves /\ moves' = moves + 1 /\ tab[t].due = "none"
Clicks(t) == Moves(t) /\ tab[t].job = None

Alone(t) == \A u \in Tabs \ {t} : tab[u].page # "workspace" /\ tab[u].job = None

OnStep(r) == r.step <= Len(r.list)
Locked(r, i) == r.at # None /\ r.at.mode = "EXAM" /\ r.sts[i] = "passed"

\* Leaving the course page: its component is gone, and with it the list a
\* pending mark would have changed.
Left(r, page) == IF page = "coursetext" THEN r ELSE [r EXCEPT !.mark = None]

-----------------------------------------------------------------------------
(* The course page.                                                        *)

\* Reading a list that another tab is about to mend, or replacing one that
\* another tab shows.
Overlaps(t, mode) == \E u \in Tabs \ {t} : tab[u].page = "coursetext" /\ tab[u].act = mode
Mended(t, mode) == \E u \in Tabs \ {t} : tab[u].due = "lessons" /\ tab[u].act = mode
Crossing(t, mode, name, yes) == odd' = IF yes THEN odd \cup {name} ELSE odd

OpenCourse(t) ==
  /\ Moves(t) /\ tab[t].page # "coursetext"
  /\ tab' = [tab EXCEPT ![t] = [@ EXCEPT !.page = "coursetext", !.act = activeTab,
                                          !.lst = Restored(activeTab), !.due = "lessons"]]
  /\ Crossing(t, activeTab, "cut", Mended(t, activeTab))
  /\ UNCHANGED <<bank, storage, submits, edits>>

\* Another tab of the list: the load effect reads the new list, the save
\* effect of the same commit still has the old one and stores it under the
\* new key, and the next render mends that.
SwitchTab(t, mode) ==
  /\ Clicks(t) /\ tab[t].page = "coursetext"
  /\ mode \in {"COURSE", "ASSIGNMENT"} \ {tab[t].act}
  /\ tab' = [tab EXCEPT ![t] = [@ EXCEPT !.act = mode, !.lst = Restored(mode), !.due = "lessons"]]
  /\ lessons' = [lessons EXCEPT ![mode] = tab[t].lst]
  /\ activeTab' = mode
  /\ Crossing(t, mode, "cut", Mended(t, mode) \/ Overlaps(t, mode))
  /\ UNCHANGED <<bank, where, statuses, subs, saved, drafts, submits, edits>>

\* The save effect, once the restored list is the page's own.
SettleLessons(t) ==
  /\ tab[t].due = "lessons"
  /\ tab' = [tab EXCEPT ![t].due = "none"]
  /\ lessons' = [lessons EXCEPT ![tab[t].act] = tab[t].lst]
  /\ Crossing(t, tab[t].act, "crossed",
              lessons[tab[t].act] # tab[t].lst /\ Overlaps(t, tab[t].act))
  /\ UNCHANGED <<bank, where, activeTab, statuses, subs, saved, drafts, moves, submits, edits>>

Processing(r) == r.mark # None \/ r.enter # None

\* Mark as Done, on the list of the course; it takes effect 800 ms later.
MarkComplete(t, m) ==
  /\ Clicks(t) /\ tab[t].page = "coursetext" /\ tab[t].act = "COURSE"
  /\ ~Processing(tab[t]) /\ m \notin tab[t].lst
  /\ tab' = [tab EXCEPT ![t].mark = m]
  /\ UNCHANGED <<bank, storage, submits, edits, odd>>

\* The timer marks the lesson in whichever list the page shows by then.
MarkTimer(t) ==
  LET r == tab[t] l == r.lst \cup {r.mark} IN
  /\ r.mark # None /\ r.due = "none"
  /\ tab' = [tab EXCEPT ![t] = [@ EXCEPT !.mark = None, !.lst = l]]
  /\ lessons' = [lessons EXCEPT ![r.act] = l]
  /\ odd' = odd \cup (IF r.act # "COURSE" THEN {"slipped"} ELSE {})
                \cup (IF Overlaps(t, r.act) THEN {"crossed"} ELSE {})
  /\ UNCHANGED <<bank, where, activeTab, statuses, subs, saved, drafts, moves, submits, edits>>

\* Open Workspace, Start Lab or Start Exam: an exam that is over only shows
\* its results.
EnterWorkspace(t, m) ==
  LET p == [mode |-> tab[t].act, module |-> m] IN
  /\ Clicks(t) /\ tab[t].page = "coursetext" /\ ~Processing(tab[t])
  /\ p.mode = "EXAM" => ~ExamDone(p)
  /\ tab' = [tab EXCEPT ![t].enter = p]
  /\ UNCHANGED <<bank, storage, submits, edits, odd>>

-----------------------------------------------------------------------------
(* Entering the workspace.                                                 *)

\* Mutant: the list of the place entered before stays.
Entered_OldList(r, p) ==
  [r EXCEPT !.page = "workspace", !.at = p, !.sts = statuses[p], !.due = "workspace",
            !.list = IF @ = <<>> THEN bank[p] ELSE @]

\* The effect that runs when the page becomes the workspace.
Entered(r, p) ==
  IF bank[p] = <<>>
    THEN [r EXCEPT !.page = "workspace", !.at = p, !.list = <<>>, !.sts = statuses[p], !.due = "workspace"]
    ELSE [r EXCEPT !.page = "workspace", !.at = p, !.list = bank[p], !.sts = statuses[p],
                   !.step = SafeStep(p), !.shown = subs[p][SafeStep(p)], !.due = "workspace"]

\* The problem effect of the same commit still has the former list and step
\* and remembers that step under the new place's key.  A submission still
\* being verified will be filed under the new place.
Enter(t, p, r) ==
  /\ tab' = [tab EXCEPT ![t] = Entered(r, p)]
  /\ saved' = IF OnStep(r) THEN [saved EXCEPT ![p] = r.step] ELSE saved
  /\ odd' = odd \cup (IF Alone(t) THEN {} ELSE {"shared"})
                \cup (IF r.job # None /\ r.at # p THEN {"strayed"} ELSE {})

\* Back or forward to the workspace; where it leads is read from storage.
OpenWorkspace(t) ==
  /\ Moves(t) /\ tab[t].page # "workspace"
  /\ Enter(t, AppPlace, Left(tab[t], "workspace"))
  /\ UNCHANGED <<bank, where, activeTab, statuses, subs, drafts, lessons, submits, edits>>

\* The 500 ms timer fires whatever page the tab shows by then; in a tab that
\* is on the workspace already it only changes where the keys point.
EnterTimer(t) ==
  LET r == [tab[t] EXCEPT !.enter = None] IN
  /\ tab[t].enter # None /\ tab[t].due = "none"
  /\ where' = tab[t].enter
  /\ IF r.page = "workspace"
       THEN tab' = [tab EXCEPT ![t] = r] /\ UNCHANGED <<saved, odd>>
       ELSE Enter(t, tab[t].enter, Left(r, "workspace"))
  /\ UNCHANGED <<bank, activeTab, statuses, subs, drafts, lessons, moves, submits, edits>>

\* Mutant: the step is not stored.
Remember_Nothing(r) == saved

\* The problem effect: the step on screen is remembered, its attempts shown.
Remember(r) == IF OnStep(r) THEN [saved EXCEPT ![AppPlace] = r.step] ELSE saved
Shown(r)    == [r EXCEPT !.shown = IF OnStep(r) THEN subs[AppPlace][r.step] ELSE @]

SettleWorkspace(t) ==
  /\ tab[t].due = "workspace"
  /\ tab' = [tab EXCEPT ![t] = Shown([@ EXCEPT !.due = "none"])]
  /\ saved' = Remember(tab[t])
  /\ UNCHANGED <<bank, where, activeTab, statuses, subs, drafts, lessons, moves, submits, edits, odd>>

\* Home, and back: the App's state stays, the course page's does not.
OpenHome(t) ==
  /\ Moves(t) /\ tab[t].page # "home"
  /\ tab' = [tab EXCEPT ![t] = [Left(@, "home") EXCEPT !.page = "home"]]
  /\ UNCHANGED <<bank, storage, submits, edits, odd>>

\* A reload, or a crash and a restart: the page is mounted anew, first
\* without a user, whose step is the first, then with one.
Reload(t) ==
  LET r == FreshTab(tab[t].page) IN
  /\ moves < MaxMoves /\ moves' = moves + 1
  /\ CASE r.page = "workspace" ->
            /\ tab' = [tab EXCEPT ![t] = Entered(r, AppPlace)]
            /\ saved' = IF bank[AppPlace] # <<>> THEN [saved EXCEPT ![AppPlace] = 1] ELSE saved
       [] r.page = "coursetext" ->
            /\ tab' = [tab EXCEPT ![t] = [r EXCEPT !.lst = Restored(activeTab), !.due = "lessons"]]
            /\ UNCHANGED saved
       [] OTHER -> tab' = [tab EXCEPT ![t] = r] /\ UNCHANGED saved
  /\ odd' = odd \cup (IF tab[t].due # "none" \/ (r.page = "coursetext" /\ Mended(t, activeTab)) THEN {"cut"} ELSE {})
                \cup (IF r.page # "workspace" \/ Alone(t) THEN {} ELSE {"shared"})
  /\ UNCHANGED <<bank, where, activeTab, statuses, subs, drafts, lessons, submits, edits>>
-----------------------------------------------------------------------------
(* Working on a problem.                                                   *)

Strays(t) == IF AppPlace # tab[t].at THEN {"strayed"} ELSE {}

\* Mutant: a passed problem is skipped too.
Skips_Always(r, i) == i > r.step

\* Leaving an unpassed problem for a later one marks it skipped.
Skips(r, i) == i > r.step /\ r.sts[r.step] # "passed"

\* A step's button; a locked step has none.
StepChange(t, i) ==
  LET r == tab[t]
      sts == IF Skips(r, i) THEN [r.sts EXCEPT ![r.step] = "skipped"] ELSE r.sts
      s == [r EXCEPT !.sts = sts, !.step = i]
  IN
  /\ Clicks(t) /\ r.page = "workspace"
  /\ i \in 1 .. Len(r.list) /\ i # r.step /\ ~Locked(r, i)
  /\ ~(AppPlace.mode = "EXAM" /\ r.sts[i] = "passed")
  /\ tab' = [tab EXCEPT ![t] = Shown(s)]
  /\ statuses' = IF Skips(r, i) THEN [statuses EXCEPT ![AppPlace] = sts] ELSE statuses
  /\ saved' = Remember(s)
  /\ odd' = odd \cup Strays(t)
  /\ UNCHANGED <<bank, where, activeTab, subs, drafts, lessons, submits, edits>>

\* Typing stores every change under the editor's key.
TypeDraft(t) ==
  LET r == tab[t] p == EditorPlace IN
  /\ Clicks(t) /\ r.page = "workspace" /\ OnStep(r) /\ ~Locked(r, r.step)
  /\ drafts' = [drafts EXCEPT ![p][r.step] = r.list[r.step]]
  /\ odd' = odd \cup (IF p # r.at THEN {"astray"} ELSE {})
  /\ UNCHANGED <<bank, where, activeTab, statuses, subs, saved, lessons, tab, submits, edits>>

\* Submit: the problem and the step are those on screen at the click.
Submit(t) ==
  LET r == tab[t] IN
  /\ Clicks(t) /\ r.page = "workspace" /\ OnStep(r) /\ ~Locked(r, r.step)
  /\ submits < MaxSubmits /\ submits' = submits + 1
  /\ tab' = [tab EXCEPT ![t].job =
       [problem |-> r.list[r.step], step |-> r.step, verdict |-> "verifying", exam |-> FALSE, list |-> r.list]]
  /\ UNCHANGED <<bank, storage, edits, odd>>

\* An engine error ends the submission: nothing of it is stored here.
LandError(t) ==
  /\ tab[t].job # None /\ tab[t].job.verdict = "verifying"
  /\ tab' = [tab EXCEPT ![t].job = None]
  /\ UNCHANGED <<bank, storage, moves, submits, edits, odd>>

\* The lesson a passed submission completes: of an assignment, when all its
\* problems are passed; otherwise at once.
Completes(p, sts, verdict) ==
  verdict = "passed" /\ (p.mode = "ASSIGNMENT" => AllPassed(p, sts))

CompletedBy(p, sts, verdict) ==
  IF Completes(p, sts, verdict)
    THEN [lessons EXCEPT ![p.mode] = Marked(@, p.module)] ELSE lessons

\* Mutant: only the latest attempt is stored, as older versions did.
WithAttempt_Latest(p, j, verdict) ==
  [subs EXCEPT ![p][j.step] = <<[problem |-> j.problem, passed |-> verdict = "passed"]>>]

\* The attempts of a step, as storage has them now, and the new one.
WithAttempt(p, j, verdict) ==
  [subs EXCEPT ![p][j.step] = Append(@, [problem |-> j.problem, passed |-> verdict = "passed"])]

\* The verdict: the keys are where storage points by now, the statuses are
\* the tab's copy, the attempts are read and written back.
Land(t, verdict) ==
  LET r == tab[t] j == r.job p == AppPlace
      sts == [r.sts EXCEPT ![j.step] = verdict]
  IN
  /\ j # None /\ j.verdict = "verifying"
  /\ statuses' = [statuses EXCEPT ![p] = sts]
  /\ subs' = WithAttempt(p, j, verdict)
  /\ lessons' = CompletedBy(p, sts, verdict)
  /\ tab' = [tab EXCEPT ![t] = [@ EXCEPT !.sts = sts, !.shown = subs'[p][j.step],
        !.job = [j EXCEPT !.verdict = verdict, !.exam = (p.mode = "EXAM")]]]
  /\ odd' = odd \cup Strays(t) \cup (IF lessons' # lessons /\ (\E u \in Tabs : tab[u].page = "coursetext" /\ tab[u].act = p.mode)
                         THEN {"crossed"} ELSE {})
  /\ UNCHANGED <<bank, where, activeTab, saved, drafts, moves, submits, edits>>

\* 1.5 s later the overlay goes, and an exam goes on to the first problem
\* not passed.
VerdictTimer(t) ==
  LET r == tab[t] j == r.job p == AppPlace
      open == {i \in 1 .. Len(j.list) : i # j.step /\ statuses[p][i] # "passed"}
      first == CHOOSE i \in open : \A k \in open : i <= k
      s == [r EXCEPT !.job = None, !.step = first]
  IN
  /\ j # None /\ j.verdict # "verifying"
  /\ IF j.exam /\ j.verdict = "passed" /\ open # {}
       THEN IF r.page = "workspace"
              THEN tab' = [tab EXCEPT ![t] = Shown(s)] /\ saved' = Remember(s)
              ELSE tab' = [tab EXCEPT ![t] = s] /\ UNCHANGED saved
       ELSE tab' = [tab EXCEPT ![t].job = None] /\ UNCHANGED saved
  /\ odd' = odd \cup (IF j.exam THEN Strays(t) ELSE {})
  /\ UNCHANGED <<bank, where, activeTab, statuses, subs, drafts, lessons, moves, submits, edits>>

-----------------------------------------------------------------------------
(* The instructor's console, in this browser: problems are added at the    *)
(* end of a place's list and deleted anywhere in it.                       *)

Publish(p, q) ==
  /\ edits < MaxEdits /\ edits' = edits + 1
  /\ Len(bank[p]) < MaxSteps /\ \A r \in Place : q \notin Range(bank[r])
  /\ bank' = [bank EXCEPT ![p] = Append(@, q)]
  /\ UNCHANGED <<storage, tab, moves, submits, odd>>

Withdraw(p, i) ==
  /\ edits < MaxEdits /\ edits' = edits + 1
  /\ i \in 1 .. Len(bank[p])
  /\ bank' = [bank EXCEPT ![p] = RemoveAt(@, i)]
  /\ odd' = odd \cup {"shifted"}
  /\ UNCHANGED <<storage, tab, moves, submits>>

-----------------------------------------------------------------------------
Next ==
  \/ \E t \in Tabs :
       \/ OpenCourse(t) \/ OpenWorkspace(t) \/ OpenHome(t) \/ Reload(t)
       \/ SettleLessons(t) \/ SettleWorkspace(t)
       \/ MarkTimer(t) \/ EnterTimer(t) \/ VerdictTimer(t)
       \/ TypeDraft(t) \/ Submit(t) \/ LandError(t)
       \/ \E mode \in Modes : SwitchTab(t, mode)
       \/ \E m \in Modules : MarkComplete(t, m) \/ EnterWorkspace(t, m)
       \/ \E i \in Step : StepChange(t, i)
       \/ \E v \in {"passed", "failed"} : Land(t, v)
  \/ \E p \in Place :
       \/ \E q \in Problem : Publish(p, q)
       \/ \E i \in Step : Withdraw(p, i)

Spec == Init /\ [][Next]_vars

-----------------------------------------------------------------------------
(* Properties.                                                             *)

Attempt == [problem : Problem, passed : BOOLEAN]
Tab == [page : {"home", "coursetext", "workspace"}, at : Place \cup {None}, list : Seq(Problem),
        step : Step, sts : [Step -> Status], shown : Seq(Attempt), act : Modes, lst : SUBSET Modules,
        due : {"none", "lessons", "workspace"}, job : Job \cup {None},
        mark : Modules \cup {None}, enter : Place \cup {None}]

\* Every key of localStorage and every tab's state has its shape.
TypeOK ==
  /\ bank \in [Place -> Seq(Problem)]
  /\ where \in Place \cup {None} /\ activeTab \in Modes
  /\ statuses \in [Place -> [Step -> Status]]
  /\ subs \in [Place -> [Step -> Seq(Attempt)]]
  /\ saved \in [Place -> 0 .. MaxSteps]
  /\ drafts \in [Place -> [Step -> Problem \cup {None}]]
  /\ lessons \in [Modes -> (SUBSET Modules) \cup {None}]
  /\ tab \in [Tabs -> Tab]
  /\ moves \in 0 .. MaxMoves /\ submits \in 0 .. MaxSubmits /\ edits \in 0 .. MaxEdits
  /\ odd \subseteq {"cut", "crossed", "slipped", "shared", "strayed", "astray", "shifted"}

Without(crossings) == odd \cap crossings = {}

LastPassed(a) == a # <<>> /\ Last(a).passed

\* AttemptsKept: whatever tabs overlap, a stored history only grows, one
\* attempt of one step at a time: it is read and written back after the wait
\* for the verdict, in one turn.
AttemptsKept ==
  \A p \in Place, i \in Step :
    \/ subs'[p][i] = subs[p][i]
    \/ /\ \E a \in Attempt : subs'[p][i] = Append(subs[p][i], a)
       /\ \A q \in Place, k \in Step : <<q, k>> # <<p, i>> => subs'[q][k] = subs[q][k]

\* ScoreStands: with one workspace open, an exam's score never falls: a
\* problem answered right is locked, and so are the ways back to it.
Score(p) == Cardinality({i \in 1 .. Len(bank[p]) : LastPassed(subs[p][i])})
ScoreStands == \A p \in Place : p.mode = "EXAM" => Score(p)' >= Score(p)

\* LessonsKept: a lesson once completed stays so, unless a page that showed
\* the list when it was completed elsewhere stores its own copy.
OnPage(mode) ==
  LET mending == {t \in Tabs : tab[t].due = "lessons" /\ tab[t].act = mode}
      stored == IF lessons[mode] = None THEN {} ELSE lessons[mode]
  IN IF mending = {} THEN stored ELSE UNION {tab[t].lst : t \in mending}
LessonsKept == \A mode \in Modes : OnPage(mode) \subseteq OnPage(mode)'

\* No step loses what the student has earned: attempts never, an exam's score
\* and the completed lessons as long as no two tabs crossed.
NothingLost ==
  [][ /\ AttemptsKept
      /\ odd' \cap {"shared", "strayed", "shifted"} = {} => ScoreStands
      /\ odd' \cap {"crossed", "cut"} = {} => LessonsKept ]_vars

\* What is stored under a place and a step is an answer to the problem that
\* the place lists at that step, be it an attempt or a draft, although the
\* keys are computed long after the problem was put on screen: unless
\* another tab, or a timer, moved the keys elsewhere in between, the draft
\* was typed before any place was ever entered, or the list has shrunk.
FiledWhereGraded ==
  /\ Without({"strayed", "shifted"}) =>
       \A p \in Place, i \in Step : \A k \in DOMAIN subs[p][i] :
         i \in DOMAIN bank[p] /\ subs[p][i][k].problem = bank[p][i]
  /\ Without({"astray", "shifted"}) =>
       \A p \in Place, i \in Step :
         drafts[p][i] # None => i \in DOMAIN bank[p] /\ drafts[p][i] = bank[p][i]

\* With one workspace open, a step's status is the verdict of its latest
\* attempt, or skipped but never over a pass, and the tab shows just what is
\* stored, although statuses are written from the tab's copy (a verdict shows
\* the attempts of the step it was for, which a shorter list may have left).
StatusIsLatest ==
  Without({"strayed", "shared"}) =>
    /\ \A p \in Place, i \in Step :
         statuses[p][i] \in CASE subs[p][i] = <<>>       -> {"none", "skipped"}
                              [] LastPassed(subs[p][i]) -> {"passed"}
                              [] OTHER                  -> {"failed", "skipped"}
    /\ \A t \in Tabs :
         LET r == tab[t] IN
         r.page = "workspace" /\ r.due = "none" /\ r.at = AppPlace =>
           /\ r.sts = statuses[r.at]
           /\ OnStep(r) /\ Without({"shifted"}) => r.shown = subs[r.at][r.step]

\* A lab is completed only by passing all its problems, but for problems
\* added since: neither another list's copy nor a status of another place
\* completes it, unless a mark slipped into it, a tab closed or read the list
\* before it was mended, or two places' keys were mixed.
CompletedEarned ==
  Without({"strayed", "slipped", "cut", "crossed", "shifted"}) =>
    \A m \in OnPage("ASSIGNMENT") :
      LET p == [mode |-> "ASSIGNMENT", module |-> m]
          earned == {i \in Step : \E k \in DOMAIN subs[p][i] : subs[p][i][k].passed}
      IN earned # {} /\ Cardinality(earned) + edits >= Len(bank[p])

\* With one workspace open, the step on screen is the one that its place
\* remembers, although entering a place first stores the former place's step,
\* and one that its list has, unless the list has shrunk.
StepResumed ==
  Without({"strayed", "shared"}) =>
    \A t \in Tabs :
      LET r == tab[t] IN
      r.page = "workspace" /\ r.due = "none" /\ r.at = AppPlace /\ r.list # <<>> =>
        /\ Without({"shifted"}) => OnStep(r)
        /\ OnStep(r) => saved[r.at] = r.step
=============================================================================
