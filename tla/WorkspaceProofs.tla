--------------------------- MODULE WorkspaceProofs ---------------------------
(***************************************************************************)
(* What holds of a student's browser for any number of tabs, modules,      *)
(* problems, moves and submissions.                                        *)
(*                                                                         *)
(* Seven invariants, most proved with those before.  TypeInv gives every   *)
(* key and every tab its shape.  FileInv: the list on screen agrees with   *)
(* its place's, and so does a submission under way.  StepInv: without a    *)
(* second workspace only one tab is at work, on the step its place         *)
(* remembers.  StatusInv: what is stored of a step is what its attempts    *)
(* say, and the tab at work has no other copy.  LessonInv: a course page   *)
(* shows all that is stored of its list.  PassInv: only an answer makes a  *)
(* status say passed.  PaidInv: a lab shown as completed was earned.       *)
(*                                                                         *)
(* The actions come in many forms but do little to a tab; the second part  *)
(* says, once for each, what becomes of every field, and the invariants    *)
(* are proved from that.                                                   *)
(***************************************************************************)
EXTENDS Workspace, FiniteSetTheorems, SequenceTheorems, WellFoundedInduction, TLAPS

\* A tab has its shape; no list is longer than the steps there are; a tab has a
\* place once it has been to the workspace; a submission is for a step of the
\* list it was made on; and effects wait only on their own page.
TabOK(r) ==
  /\ r \in Tab
  /\ Len(r.list) <= MaxSteps
  /\ r.at = None => r.list = <<>>
  /\ r.page = "workspace" \/ r.job # None => r.at # None
  /\ r.job # None => Len(r.job.list) <= MaxSteps /\ r.job.step <= Len(r.job.list)
  /\ r.due = "workspace" => r.page = "workspace"
  /\ r.due = "lessons" \/ r.mark # None => r.page = "coursetext"

\* Types, with the bounds that lists and tabs keep.
TypeInv ==
  /\ TypeOK
  /\ \A p \in Place : Len(bank[p]) <= MaxSteps
  /\ \A t \in Tabs : TabOK(tab[t])

\* A list on screen is its place's list, or a beginning of it.
Begins(list, p) == \A i \in DOMAIN list : i \in DOMAIN bank[p] /\ list[i] = bank[p][i]
ListAgrees(r) == r.at # None => Begins(r.list, r.at)
ListsAgree == Without({"shifted"}) => \A t \in Tabs : ListAgrees(tab[t])

\* A submission under way is for a problem of its tab's place.
JobAgrees(r) ==
  r.job # None =>
    /\ r.job.step \in DOMAIN bank[r.at] /\ r.job.problem = bank[r.at][r.job.step]
    /\ Len(r.job.list) <= Len(r.list)
JobsAgree == Without({"strayed", "shifted"}) => \A t \in Tabs : JobAgrees(tab[t])

\* What is on screen, under way and stored answers the problem listed there.
FileInv == ListsAgree /\ JobsAgree /\ FiledWhereGraded

\* A tab that works on a problem, or has work under way.
Busy(t) == tab[t].page = "workspace" \/ tab[t].job # None

\* Only one tab at a time works in the workspace, and it is where the keys
\* point when its effects run.
Single ==
  Without({"shared"}) =>
    /\ \A t, u \in Tabs : Busy(t) /\ Busy(u) => t = u
    /\ \A t \in Tabs : tab[t].due = "workspace" => tab[t].at = AppPlace

\* The step on screen is on the list.
StepsOnList ==
  Without({"strayed", "shifted"}) =>
    \A t \in Tabs : tab[t].list # <<>> => OnStep(tab[t])

\* The step on screen is the remembered one.
StepsSaved ==
  Without({"strayed", "shared"}) =>
    \A t \in Tabs :
      LET r == tab[t] IN
      Busy(t) /\ r.due # "workspace" /\ OnStep(r) => saved[r.at] = r.step

\* A submission under way is for the step on screen.
JobsOnStep ==
  Without({"strayed", "shared", "shifted"}) =>
    \A t \in Tabs :
      LET r == tab[t] IN
      r.job # None => r.step = r.job.step /\ saved[r.at] = r.step

\* The step on screen, the step remembered and the step submitted are one.
StepInv == Single /\ StepsOnList /\ StepsSaved /\ JobsOnStep

\* The statuses a step may have after these attempts.
StatusOf(a) ==
  IF a = <<>> THEN {"none", "skipped"}
  ELSE IF LastPassed(a) THEN {"passed"} ELSE {"failed", "skipped"}

\* What is stored says what the attempts say.
StoredRight == \A p \in Place, i \in Step : statuses[p][i] \in StatusOf(subs[p][i])

\* A tab at work has the stored statuses and shows the attempts of its step; a
\* submission being verified is not for a problem of an exam that is passed.
TabRight(t) ==
  LET r == tab[t] IN
  /\ Busy(t) => r.sts = statuses[r.at]
  /\ Without({"shifted"}) /\ r.page = "workspace" /\ r.due = "none" /\ OnStep(r) =>
       r.shown = subs[r.at][r.step]
  /\ r.job # None /\ r.job.verdict = "verifying" /\ r.at.mode = "EXAM" =>
       r.sts[r.job.step] # "passed"

\* With one workspace open, statuses and attempts agree, in storage and on screen.
StatusInv ==
  Without({"strayed", "shared"}) => StoredRight /\ \A t \in Tabs : TabRight(t)

\* A course page at rest shows all that is stored of its list, and a list is
\* mended by one tab at a time.
LessonsRight ==
  \A t \in Tabs :
    LET r == tab[t] IN
    r.page = "coursetext" =>
      /\ r.due = "none" => (lessons[r.act] = None \/ lessons[r.act] \subseteq r.lst)
      /\ r.due = "lessons" => \A u \in Tabs \ {t} : ~(tab[u].due = "lessons" /\ tab[u].act = r.act)

\* Unless two pages of one list crossed, or one was cut off while mending it.
LessonInv == Without({"crossed", "cut"}) => LessonsRight

-----------------------------------------------------------------------------
(* Types.                                                                  *)

\* What is appended to a list is its last entry.
LEMMA LastAppended ==
  ASSUME NEW S, NEW s \in Seq(S), NEW x \in S
  PROVE  Append(s, x) # <<>> /\ Last(Append(s, x)) = x
<1>1. /\ Append(s, x) \in Seq(S) /\ Len(Append(s, x)) = Len(s) + 1 /\ Len(s) \in Nat
      /\ Append(s, x)[Len(s) + 1] = x
  OBVIOUS
<1> QED  BY <1>1 DEF Last

\* What the assumption says of the constants.
LEMMA Consts ==
  /\ MaxSteps \in Nat \ {0} /\ MaxMoves \in Nat /\ MaxSubmits \in Nat /\ MaxEdits \in Nat
  /\ Step = 1 .. MaxSteps /\ 1 \in Step
  /\ None \notin Place /\ None \notin Modules /\ None \notin Problem
BY WorkspaceAssumption DEF Step

\* The places that keys point to.
LEMMA PlacesAre ==
  ASSUME TypeInv
  PROVE  AppPlace \in Place /\ EditorPlace \in Place
BY WorkspaceAssumption DEF TypeInv, TypeOK, AppPlace, EditorPlace, Place, Modes

\* Statuses of a place never worked on.
LEMMA BlankIs == Blank \in [Step -> Status]
BY DEF Blank, Status

\* A page mounted anew.
LEMMA FreshIsTab ==
  ASSUME TypeInv, NEW page \in {"home", "coursetext", "workspace"}
  PROVE  /\ FreshTab(page) \in Tab
         /\ FreshTab(page).page = page /\ FreshTab(page).at = None /\ FreshTab(page).list = <<>>
         /\ FreshTab(page).due = "none" /\ FreshTab(page).job = None /\ FreshTab(page).mark = None
         /\ FreshTab(page).act = activeTab
BY Consts, BlankIs DEF FreshTab, Tab, TypeInv, TypeOK

\* The step entered is one of the list's.
LEMMA SafeStepIs ==
  ASSUME TypeInv, NEW p \in Place
  PROVE  SafeStep(p) \in Step /\ (bank[p] # <<>> => SafeStep(p) \in 1 .. Len(bank[p]))
<1>1. bank[p] \in Seq(Problem) /\ Len(bank[p]) <= MaxSteps /\ saved[p] \in 0 .. MaxSteps
  BY DEF TypeInv, TypeOK
<1>2. bank[p] # <<>> => Len(bank[p]) >= 1
  BY <1>1
<1> QED  BY <1>1, <1>2, Consts DEF SafeStep

\* A restored list has modules only.
LEMMA RestoredIs ==
  ASSUME TypeInv, NEW mode \in Modes
  PROVE  Restored(mode) \in SUBSET Modules
<1>0. lessons[mode] \in (SUBSET Modules) \cup {None}
  BY DEF TypeInv, TypeOK
<1>1. (IF lessons[mode] = None THEN {} ELSE lessons[mode]) \in SUBSET Modules
  BY <1>0
<1> QED  BY <1>1 DEF Restored

\* What entering a place makes of a tab.
LEMMA EnteredIs ==
  ASSUME TypeInv, NEW r \in Tab, NEW p \in Place
  PROVE  LET e == Entered(r, p) IN
         /\ e \in Tab
         /\ e.page = "workspace" /\ e.at = p /\ e.list = bank[p] /\ e.sts = statuses[p]
         /\ e.due = "workspace" /\ e.job = r.job /\ e.mark = r.mark
         /\ bank[p] # <<>> => e.step = SafeStep(p)
<1>1. bank[p] \in Seq(Problem) /\ statuses[p] \in [Step -> Status] /\ SafeStep(p) \in Step
      /\ subs[p][SafeStep(p)] \in Seq(Attempt)
  BY SafeStepIs DEF TypeInv, TypeOK
<1>2. CASE bank[p] = <<>>
  BY <1>1, <1>2 DEF Entered, Tab
<1>3. CASE bank[p] # <<>>
  BY <1>1, <1>3 DEF Entered, Tab
<1> QED  BY <1>2, <1>3

\* What the problem effect makes of a tab and of the remembered steps.
LEMMA ShownIs ==
  ASSUME TypeInv, NEW r \in Tab
  PROVE  LET s == Shown(r) IN
         /\ s \in Tab
         /\ s.page = r.page /\ s.at = r.at /\ s.list = r.list /\ s.step = r.step /\ s.sts = r.sts
         /\ s.due = r.due /\ s.job = r.job /\ s.act = r.act /\ s.lst = r.lst /\ s.mark = r.mark
         /\ OnStep(r) => s.shown = subs[AppPlace][r.step]
<1>1. r.step \in Step
  BY DEF Tab
<1>2. subs[AppPlace][r.step] \in Seq(Attempt)
  BY <1>1, PlacesAre DEF TypeInv, TypeOK
<1> QED  BY <1>1, <1>2 DEF Shown, Tab

\* The remembered steps stay steps.
LEMMA RememberIs ==
  ASSUME TypeInv, NEW r \in Tab
  PROVE  Remember(r) \in [Place -> 0 .. MaxSteps]
<1>1. r.step \in 0 .. MaxSteps
  BY Consts DEF Tab
<1> QED  BY <1>1, PlacesAre DEF Remember, TypeInv, TypeOK

\* Replacing one tab by a well-formed one.
LEMMA ReplacedOK ==
  ASSUME TypeInv, NEW t \in Tabs, NEW r, TabOK(r), tab' = [tab EXCEPT ![t] = r]
  PROVE  /\ tab' \in [Tabs -> Tab] /\ \A u \in Tabs : TabOK(tab'[u])
         /\ tab'[t] = r /\ \A u \in Tabs \ {t} : tab'[u] = tab[u]
BY DEF TypeInv, TypeOK, TabOK

\* A browser just opened has its shape.
LEMMA TypeInit == Init => TypeInv
<1> SUFFICES ASSUME Init PROVE TypeInv
  OBVIOUS
<1>1. bank \in [Place -> Seq(Problem)] /\ \A p \in Place : Len(bank[p]) <= MaxSteps
  BY WorkspaceAssumption DEF Init
<1>2. where \in Place \cup {None} /\ activeTab \in Modes
  <2>1. PICK s \in Starts : where = s[1] /\ activeTab = s[2]
    BY DEF Init
  <2> QED  BY <2>1, WorkspaceAssumption
<1>3. statuses \in [Place -> [Step -> Status]]
  BY BlankIs DEF Init
<1>9. lessons \in [Modes -> (SUBSET Modules) \cup {None}]
  BY DEF Init
<1>4. subs \in [Place -> [Step -> Seq(Attempt)]] /\ drafts \in [Place -> [Step -> Problem \cup {None}]]
  BY DEF Init
<1>5. saved \in [Place -> 0 .. MaxSteps] /\ moves \in 0 .. MaxMoves
      /\ submits \in 0 .. MaxSubmits /\ edits \in 0 .. MaxEdits
  BY Consts DEF Init
<1>6. FreshTab("home") \in Tab
  BY <1>2, Consts, BlankIs DEF FreshTab, Tab
<1>7. TabOK(FreshTab("home"))
  BY <1>6, Consts DEF TabOK, FreshTab
<1>8. tab \in [Tabs -> Tab] /\ \A t \in Tabs : TabOK(tab[t])
  BY <1>6, <1>7 DEF Init
<1> QED  BY <1>1, <1>2, <1>3, <1>4, <1>5, <1>8, <1>9 DEF Init, TypeInv, TypeOK

\* A set of steps that is not empty has a first.
LEMMA FirstOf ==
  ASSUME NEW n \in Nat, NEW S \in SUBSET (1 .. n), S # {}
  PROVE  (CHOOSE i \in S : \A k \in S : i <= k) \in S
<1>1. \E i \in S : \A k \in S : i <= k
  <2> DEFINE R == OpToRel(<, Nat)
  <2>1. IsWellFoundedOn(R, Nat)
    BY NatLessThanWellFounded
  <2>2. \A k, i \in Nat : k < i => <<k, i>> \in R
    BY DEF OpToRel
  <2> HIDE DEF R
  <2>3. S \subseteq Nat
    OBVIOUS
  <2>4. \E i \in S : \A k \in S : ~(<<k, i>> \in R)
    BY <2>1, <2>3, WFMin, Zenon
  <2>5. PICK i \in S : \A k \in S : ~(<<k, i>> \in R)
    BY <2>4
  <2>6. ASSUME NEW k \in S PROVE i <= k
    <3>1. i \in Nat /\ k \in Nat
      BY <2>3
    <3>2. ~(k < i)
      BY <2>2, <2>5, <3>1
    <3> QED  BY <3>1, <3>2
  <2> QED  BY <2>6
<1> QED  BY <1>1

\* Removing one of a list's elements.
LEMMA RemovedIs ==
  ASSUME NEW list \in Seq(Problem), NEW i \in 1 .. Len(list)
  PROVE  RemoveAt(list, i) \in Seq(Problem) /\ Len(RemoveAt(list, i)) <= Len(list)
<1>1. SubSeq(list, 1, i - 1) \in Seq(Problem) /\ Len(SubSeq(list, 1, i - 1)) = i - 1
  OBVIOUS
<1>2. SubSeq(list, i + 1, Len(list)) \in Seq(Problem)
      /\ Len(SubSeq(list, i + 1, Len(list))) = Len(list) - i
  OBVIOUS
<1> DEFINE s1 == SubSeq(list, 1, i - 1)
           s2 == SubSeq(list, i + 1, Len(list))
<1>3. RemoveAt(list, i) = s1 \o s2
  BY DEF RemoveAt
<1>4. Len(s1) = i - 1 /\ Len(s2) = Len(list) - i /\ Len(list) \in Nat
  BY <1>1, <1>2
<1> HIDE DEF s1, s2
<1>5. s1 \in Seq(Problem) /\ s2 \in Seq(Problem)
  BY <1>1, <1>2 DEF s1, s2
<1>6. s1 \o s2 \in Seq(Problem) /\ Len(s1 \o s2) = Len(s1) + Len(s2)
  BY <1>5, ConcatProperties
<1> QED  BY <1>3, <1>4, <1>6

\* One step keeps the types: an action that changes tab t and the storage.
LEMMA TypeNext == TypeInv /\ [Next]_vars => TypeInv'
<1> SUFFICES ASSUME TypeInv, [Next]_vars PROVE TypeInv'
  OBVIOUS
<1>0. TypeOK /\ \A t \in Tabs : TabOK(tab[t])
  BY DEF TypeInv
<1> DEFINE BankOK == bank \in [Place -> Seq(Problem)] /\ \A p \in Place : Len(bank[p]) <= MaxSteps
           TabsOK == tab \in [Tabs -> Tab] /\ \A t \in Tabs : TabOK(tab[t])
           Counts == moves \in 0 .. MaxMoves /\ submits \in 0 .. MaxSubmits /\ edits \in 0 .. MaxEdits
           Crossings == odd \subseteq {"cut", "crossed", "slipped", "shared", "strayed", "astray", "shifted"}
           Storage == /\ where \in Place \cup {None} /\ activeTab \in Modes
                      /\ statuses \in [Place -> [Step -> Status]]
                      /\ subs \in [Place -> [Step -> Seq(Attempt)]]
                      /\ saved \in [Place -> 0 .. MaxSteps]
                      /\ drafts \in [Place -> [Step -> Problem \cup {None}]]
                      /\ lessons \in [Modes -> (SUBSET Modules) \cup {None}]
<1>a. BankOK /\ TabsOK /\ Counts /\ Crossings /\ Storage
  BY DEF TypeInv, TypeOK
<1>b. BankOK' /\ TabsOK' /\ Counts' /\ Crossings' /\ Storage' => TypeInv'
  BY DEF TypeInv, TypeOK
<1>c. ASSUME moves < MaxMoves, moves' = moves + 1, UNCHANGED <<submits, edits>>
      PROVE  Counts'
  BY <1>a, <1>c, Consts
<1>d. UNCHANGED bank => BankOK'
  BY <1>a
<1>e. UNCHANGED <<moves, submits, edits>> => Counts'
  BY <1>a
<1>f. UNCHANGED storage => Storage'
  BY <1>a DEF storage
<1>g. ASSUME NEW t \in Tabs PROVE tab[t] \in Tab /\ TabOK(tab[t])
  BY <1>a
<1> HIDE DEF BankOK, TabsOK, Counts, Crossings, Storage
<1>tabs. ASSUME NEW t \in Tabs, NEW r, TabOK(r), tab' = [tab EXCEPT ![t] = r]
         PROVE  TabsOK'
  BY <1>tabs, ReplacedOK DEF TabsOK
<1>1. ASSUME NEW t \in Tabs, OpenCourse(t) PROVE TypeInv'
  <2> DEFINE r == [tab[t] EXCEPT !.page = "coursetext", !.act = activeTab,
                                  !.lst = Restored(activeTab), !.due = "lessons"]
  <2>1. tab' = [tab EXCEPT ![t] = r]
    BY <1>1 DEF OpenCourse
  <2>2. TabOK(r)
    BY <1>a, <1>g, RestoredIs DEF TabOK, Tab, Storage
  <2> HIDE DEF r
  <2>3. Crossings'
    BY <1>a, <1>1 DEF OpenCourse, Crossing, Crossings
  <2>4. Counts' /\ BankOK' /\ Storage'
    BY <1>1, <1>c, <1>d, <1>f DEF OpenCourse, Moves
  <2> QED  BY <1>b, <1>tabs, <2>1, <2>2, <2>3, <2>4
<1>2. ASSUME NEW t \in Tabs, NEW mode \in Modes, SwitchTab(t, mode) PROVE TypeInv'
  <2> DEFINE r == [tab[t] EXCEPT !.act = mode, !.lst = Restored(mode), !.due = "lessons"]
  <2>1. tab' = [tab EXCEPT ![t] = r]
    BY <1>2 DEF SwitchTab
  <2>2. TabOK(r)
    BY <1>2, <1>g, RestoredIs DEF TabOK, Tab, SwitchTab
  <2> HIDE DEF r
  <2>3. Crossings'
    BY <1>a, <1>2 DEF SwitchTab, Crossing, Crossings
  <2>4. Counts' /\ BankOK'
    BY <1>2, <1>c, <1>d DEF SwitchTab, Clicks, Moves
  <2>5. Storage'
    BY <1>a, <1>2, <1>g DEF SwitchTab, Storage, Tab
  <2> QED  BY <1>b, <1>tabs, <2>1, <2>2, <2>3, <2>4, <2>5
<1>3. ASSUME NEW t \in Tabs, SettleLessons(t) PROVE TypeInv'
  <2> DEFINE r == [tab[t] EXCEPT !.due = "none"]
  <2>1. tab' = [tab EXCEPT ![t] = r]
    BY <1>3 DEF SettleLessons
  <2>2. TabOK(r)
    BY <1>g DEF TabOK, Tab
  <2> HIDE DEF r
  <2>3. Crossings'
    BY <1>a, <1>3 DEF SettleLessons, Crossing, Crossings
  <2>4. Counts' /\ BankOK'
    BY <1>3, <1>d, <1>e DEF SettleLessons
  <2>5. Storage'
    BY <1>a, <1>3, <1>g DEF SettleLessons, Storage, Tab
  <2> QED  BY <1>b, <1>tabs, <2>1, <2>2, <2>3, <2>4, <2>5
<1>4. ASSUME NEW t \in Tabs, NEW m \in Modules, MarkComplete(t, m) PROVE TypeInv'
  <2> DEFINE r == [tab[t] EXCEPT !.mark = m]
  <2>1. tab' = [tab EXCEPT ![t] = r]
    BY <1>4 DEF MarkComplete
  <2>2. TabOK(r)
    BY <1>4, <1>g DEF MarkComplete, TabOK, Tab
  <2> HIDE DEF r
  <2>3. Crossings'
    BY <1>a, <1>4 DEF MarkComplete, Crossings
  <2>4. Counts' /\ BankOK' /\ Storage'
    BY <1>4, <1>c, <1>d, <1>f DEF MarkComplete, Clicks, Moves
  <2> QED  BY <1>b, <1>tabs, <2>1, <2>2, <2>3, <2>4
<1>5. ASSUME NEW t \in Tabs, MarkTimer(t) PROVE TypeInv'
  <2> DEFINE l == tab[t].lst \cup {tab[t].mark}
             r == [tab[t] EXCEPT !.mark = None, !.lst = l]
  <2>1. tab' = [tab EXCEPT ![t] = r]
    BY <1>5 DEF MarkTimer
  <2>2. l \in SUBSET Modules
    BY <1>5, <1>g DEF MarkTimer, Tab
  <2>3. lessons' = [lessons EXCEPT ![tab[t].act] = l]
    BY <1>5 DEF MarkTimer
  <2>4. Crossings'
    BY <1>a, <1>5 DEF MarkTimer, Crossings
  <2>5. Counts' /\ BankOK'
    BY <1>5, <1>d, <1>e DEF MarkTimer
  <2> HIDE DEF l
  <2>6. Storage'
    BY <1>a, <1>5, <1>g, <2>2, <2>3 DEF MarkTimer, Storage, Tab
  <2>7. TabOK(r)
    BY <1>g, <2>2 DEF TabOK, Tab
  <2> HIDE DEF r
  <2> QED  BY <1>b, <1>tabs, <2>1, <2>4, <2>5, <2>6, <2>7
<1>6. ASSUME NEW t \in Tabs, NEW m \in Modules, EnterWorkspace(t, m) PROVE TypeInv'
  <2> DEFINE p == [mode |-> tab[t].act, module |-> m]
             r == [tab[t] EXCEPT !.enter = p]
  <2>1. tab' = [tab EXCEPT ![t] = r]
    BY <1>6 DEF EnterWorkspace
  <2>2. p \in Place
    BY <1>g DEF Tab, Place
  <2> HIDE DEF p
  <2>3. TabOK(r)
    BY <1>g, <2>2 DEF TabOK, Tab
  <2> HIDE DEF r
  <2>4. Crossings'
    BY <1>a, <1>6 DEF EnterWorkspace, Crossings
  <2>5. Counts' /\ BankOK' /\ Storage'
    BY <1>6, <1>c, <1>d, <1>f DEF EnterWorkspace, Clicks, Moves
  <2> QED  BY <1>b, <1>tabs, <2>1, <2>3, <2>4, <2>5
<1>enter. ASSUME NEW t \in Tabs, NEW p \in Place, NEW r \in Tab, r.job = tab[t].job, r.mark = None, Enter(t, p, r)
          PROVE  TabsOK' /\ saved' \in [Place -> 0 .. MaxSteps] /\ Crossings'
  <2>1. tab' = [tab EXCEPT ![t] = Entered(r, p)]
    BY <1>enter DEF Enter
  <2>2. Len(bank[p]) <= MaxSteps
    BY <1>a DEF BankOK
  <2>3. TabOK(Entered(r, p))
    BY <1>enter, <1>g, <2>2, EnteredIs, Consts DEF TabOK
  <2>4. saved' \in [Place -> 0 .. MaxSteps]
    BY <1>a, <1>enter, Consts DEF Enter, Storage, Tab
  <2>5. Crossings'
    BY <1>a, <1>enter DEF Enter, Crossings
  <2> QED  BY <1>tabs, <2>1, <2>3, <2>4, <2>5
<1>7. ASSUME NEW t \in Tabs, OpenWorkspace(t) PROVE TypeInv'
  <2>1. /\ Left(tab[t], "workspace") \in Tab /\ Left(tab[t], "workspace").job = tab[t].job
        /\ Left(tab[t], "workspace").mark = None
    BY <1>g DEF Left, Tab
  <2>2. TabsOK' /\ saved' \in [Place -> 0 .. MaxSteps] /\ Crossings'
    BY <1>7, <1>enter, <2>1, PlacesAre DEF OpenWorkspace
  <2>3. Counts' /\ BankOK'
    BY <1>7, <1>c, <1>d DEF OpenWorkspace, Moves
  <2>4. Storage'
    BY <1>a, <1>7, <2>2 DEF OpenWorkspace, Storage
  <2> QED  BY <1>b, <2>2, <2>3, <2>4
<1>8. ASSUME NEW t \in Tabs, EnterTimer(t) PROVE TypeInv'
  <2> DEFINE r == [tab[t] EXCEPT !.enter = None]
  <2>1. r \in Tab /\ TabOK(r) /\ r.job = tab[t].job
    BY <1>g DEF TabOK, Tab
  <2>2. tab[t].enter \in Place
    BY <1>8, <1>g DEF EnterTimer, Tab
  <2>3. /\ Left(r, "workspace") \in Tab /\ Left(r, "workspace").job = tab[t].job
        /\ Left(r, "workspace").mark = None
    BY <2>1 DEF Left, Tab
  <2>4. TabsOK' /\ saved' \in [Place -> 0 .. MaxSteps] /\ Crossings'
    <3>1. CASE r.page = "workspace"
      BY <1>8, <1>a, <1>tabs, <2>1, <3>1 DEF EnterTimer, Storage, Crossings
    <3>2. CASE r.page # "workspace"
      BY <1>8, <1>enter, <2>2, <2>3, <3>2 DEF EnterTimer
    <3> QED  BY <3>1, <3>2
  <2>5. Counts' /\ BankOK'
    BY <1>8, <1>d, <1>e DEF EnterTimer
  <2>6. Storage'
    BY <1>a, <1>8, <2>2, <2>4 DEF EnterTimer, Storage
  <2> QED  BY <1>b, <2>4, <2>5, <2>6
<1>9. ASSUME NEW t \in Tabs, SettleWorkspace(t) PROVE TypeInv'
  <2> DEFINE d == [tab[t] EXCEPT !.due = "none"]
             r == Shown(d)
  <2>1. tab' = [tab EXCEPT ![t] = r]
    BY <1>9 DEF SettleWorkspace
  <2>2. TabOK(d)
    BY <1>g DEF TabOK, Tab
  <2> HIDE DEF d
  <2>3. TabOK(r)
    BY <2>2, ShownIs DEF TabOK
  <2> HIDE DEF r
  <2>4. Storage'
    BY <1>a, <1>9, <1>g, RememberIs DEF SettleWorkspace, Storage
  <2>5. Counts' /\ BankOK' /\ Crossings'
    BY <1>a, <1>9, <1>d, <1>e DEF SettleWorkspace, Crossings
  <2> QED  BY <1>b, <1>tabs, <2>1, <2>3, <2>4, <2>5
<1>10. ASSUME NEW t \in Tabs, OpenHome(t) PROVE TypeInv'
  <2> DEFINE l == Left(tab[t], "home")
             r == [l EXCEPT !.page = "home"]
  <2>1. tab' = [tab EXCEPT ![t] = r]
    BY <1>10 DEF OpenHome
  <2>2. l \in Tab /\ l.job = tab[t].job /\ l.due = tab[t].due /\ l.at = tab[t].at /\ l.list = tab[t].list
        /\ l.mark = None
    BY <1>g DEF Left, Tab
  <2> HIDE DEF l
  <2>3. TabOK(r)
    BY <1>10, <1>g, <2>2 DEF OpenHome, Moves, TabOK, Tab
  <2> HIDE DEF r
  <2>4. Counts' /\ BankOK' /\ Storage' /\ Crossings'
    BY <1>a, <1>10, <1>c, <1>d, <1>f DEF OpenHome, Moves, Crossings
  <2> QED  BY <1>b, <1>tabs, <2>1, <2>3, <2>4
<1>11. ASSUME NEW t \in Tabs, Reload(t) PROVE TypeInv'
  <2> DEFINE r == FreshTab(tab[t].page)
             c == [r EXCEPT !.lst = Restored(activeTab), !.due = "lessons"]
  <2>1. tab[t].page \in {"home", "coursetext", "workspace"}
    BY <1>g DEF Tab
  <2>2. /\ r \in Tab /\ r.page = tab[t].page /\ r.at = None /\ r.list = <<>>
        /\ r.due = "none" /\ r.job = None /\ r.mark = None
    BY <2>1, FreshIsTab
  <2>3. TabsOK' /\ saved' \in [Place -> 0 .. MaxSteps]
    <3>1. CASE r.page = "workspace"
      <4>1. tab' = [tab EXCEPT ![t] = Entered(r, AppPlace)]
        BY <1>11, <3>1 DEF Reload
      <4>2. Len(bank[AppPlace]) <= MaxSteps
        BY <1>a, PlacesAre DEF BankOK
      <4>3. TabOK(Entered(r, AppPlace))
        BY <2>2, <4>2, EnteredIs, PlacesAre, Consts DEF TabOK
      <4>4. saved' \in [Place -> 0 .. MaxSteps]
        <5>1. saved' = saved \/ saved' = [saved EXCEPT ![AppPlace] = 1]
          BY <1>11, <3>1 DEF Reload
        <5>2. 1 \in 0 .. MaxSteps /\ saved \in [Place -> 0 .. MaxSteps]
          BY <1>a, Consts DEF Storage
        <5> QED  BY <5>1, <5>2
      <4> QED  BY <1>tabs, <4>1, <4>3, <4>4
    <3>2. CASE r.page = "coursetext"
      <4>1. tab' = [tab EXCEPT ![t] = c] /\ saved' = saved
        BY <1>11, <3>2 DEF Reload
      <4>2. Restored(activeTab) \in SUBSET Modules
        BY <1>a, RestoredIs DEF Storage
      <4> HIDE DEF r
      <4>3. TabOK(c)
        <5>1. /\ c \in Tab /\ c.page = "coursetext" /\ c.at = None /\ c.list = <<>>
              /\ c.due = "lessons" /\ c.job = None /\ c.mark = None
          BY <2>2, <3>2, <4>2 DEF Tab
        <5> QED  BY <5>1, Consts DEF TabOK
      <4> HIDE DEF c
      <4> QED  BY <1>a, <1>tabs, <4>1, <4>3 DEF Storage
    <3>3. CASE r.page = "home"
      <4>1. tab' = [tab EXCEPT ![t] = r] /\ saved' = saved
        BY <1>11, <3>3 DEF Reload
      <4>2. TabOK(r)
        BY <2>2, <3>3, Consts DEF TabOK
      <4> QED  BY <1>a, <1>tabs, <4>1, <4>2 DEF Storage
    <3> QED  BY <2>1, <2>2, <3>1, <3>2, <3>3
  <2>4. Crossings'
    BY <1>a, <1>11 DEF Reload, Crossings
  <2>5. Counts' /\ BankOK'
    BY <1>11, <1>c, <1>d DEF Reload
  <2>6. Storage'
    BY <1>a, <1>11, <2>3 DEF Reload, Storage
  <2> QED  BY <1>b, <2>3, <2>4, <2>5, <2>6
<1>12. ASSUME NEW t \in Tabs, NEW i \in Step, StepChange(t, i) PROVE TypeInv'
  <2> DEFINE sts == IF Skips(tab[t], i) THEN [tab[t].sts EXCEPT ![tab[t].step] = "skipped"] ELSE tab[t].sts
             s == [tab[t] EXCEPT !.sts = sts, !.step = i]
  <2>1. sts \in [Step -> Status]
    BY <1>g DEF Tab, Status
  <2>2. /\ tab' = [tab EXCEPT ![t] = Shown(s)] /\ saved' = Remember(s)
        /\ statuses' = IF Skips(tab[t], i) THEN [statuses EXCEPT ![AppPlace] = sts] ELSE statuses
    BY <1>12 DEF StepChange
  <2> HIDE DEF sts
  <2>3. TabOK(s)
    BY <1>g, <2>1 DEF TabOK, Tab
  <2> HIDE DEF s
  <2>4. TabOK(Shown(s))
    BY <2>3, ShownIs DEF TabOK
  <2>5. saved' \in [Place -> 0 .. MaxSteps]
    BY <2>2, <2>3, RememberIs DEF TabOK
  <2>6. statuses' \in [Place -> [Step -> Status]]
    BY <1>a, <2>1, <2>2, PlacesAre DEF Storage
  <2>7. Crossings'
    BY <1>a, <1>12 DEF StepChange, Strays, Crossings
  <2>8. Counts' /\ BankOK'
    BY <1>12, <1>c, <1>d DEF StepChange, Clicks, Moves
  <2>9. Storage'
    BY <1>a, <1>12, <2>5, <2>6 DEF StepChange, Storage
  <2> QED  BY <1>b, <1>tabs, <2>2, <2>4, <2>7, <2>8, <2>9
<1>13. ASSUME NEW t \in Tabs, TypeDraft(t) PROVE TypeInv'
  <2>1. tab[t].list[tab[t].step] \in Problem /\ tab[t].step \in Step
    BY <1>13, <1>g, Consts DEF TypeDraft, OnStep, Tab
  <2>2. drafts' \in [Place -> [Step -> Problem \cup {None}]]
    BY <1>a, <1>13, <2>1, PlacesAre DEF TypeDraft, Storage
  <2>3. Storage'
    BY <1>a, <1>13, <2>2 DEF TypeDraft, Storage
  <2>4. Counts' /\ BankOK' /\ Crossings' /\ TabsOK'
    BY <1>a, <1>13, <1>c, <1>d DEF TypeDraft, Clicks, Moves, Crossings, TabsOK
  <2> QED  BY <1>b, <2>3, <2>4
<1>14. ASSUME NEW t \in Tabs, Submit(t) PROVE TypeInv'
  <2> DEFINE j == [problem |-> tab[t].list[tab[t].step], step |-> tab[t].step,
                   verdict |-> "verifying", exam |-> FALSE, list |-> tab[t].list]
             r == [tab[t] EXCEPT !.job = j]
  <2>1. tab' = [tab EXCEPT ![t] = r]
    BY <1>14 DEF Submit
  <2>2. tab[t].list[tab[t].step] \in Problem
    BY <1>14, <1>g, Consts DEF Submit, OnStep, Tab
  <2>3. j \in Job /\ j.list = tab[t].list /\ j.step = tab[t].step
    BY <1>g, <2>2 DEF Job, Tab
  <2> HIDE DEF j
  <2>4. TabOK(r)
    BY <1>14, <1>g, <2>3 DEF Submit, OnStep, TabOK, Tab
  <2> HIDE DEF r
  <2>5. Counts'
    BY <1>a, <1>14, Consts DEF Submit, Clicks, Moves, Counts
  <2>6. BankOK' /\ Storage' /\ Crossings'
    BY <1>a, <1>14, <1>d, <1>f DEF Submit, Crossings
  <2> QED  BY <1>b, <1>tabs, <2>1, <2>4, <2>5, <2>6
<1>15. ASSUME NEW t \in Tabs, LandError(t) PROVE TypeInv'
  <2> DEFINE r == [tab[t] EXCEPT !.job = None]
  <2>1. tab' = [tab EXCEPT ![t] = r]
    BY <1>15 DEF LandError
  <2>2. TabOK(r)
    BY <1>g DEF TabOK, Tab
  <2> HIDE DEF r
  <2>3. Counts' /\ BankOK' /\ Storage' /\ Crossings'
    BY <1>a, <1>15, <1>d, <1>e, <1>f DEF LandError, Crossings
  <2> QED  BY <1>b, <1>tabs, <2>1, <2>2, <2>3
<1>16. ASSUME NEW t \in Tabs, NEW v \in {"passed", "failed"}, Land(t, v) PROVE TypeInv'
  <2> DEFINE j == tab[t].job
             p == AppPlace
             sts == [tab[t].sts EXCEPT ![j.step] = v]
             k == [j EXCEPT !.verdict = v, !.exam = (p.mode = "EXAM")]
             r == [tab[t] EXCEPT !.sts = sts, !.shown = subs'[p][j.step], !.job = k]
  <2>1. j \in Job /\ j.step \in Step /\ p \in Place
    BY <1>16, <1>g, PlacesAre DEF Land, Tab, Job
  <2>2. sts \in [Step -> Status]
    BY <1>g DEF Tab, Status
  <2>3. k \in Job /\ k.list = j.list /\ k.step = j.step
    BY <2>1 DEF Job
  <2>4. subs' \in [Place -> [Step -> Seq(Attempt)]]
    <3>1. [problem |-> j.problem, passed |-> v = "passed"] \in Attempt
      BY <2>1 DEF Job, Attempt
    <3>2. Append(subs[p][j.step], [problem |-> j.problem, passed |-> v = "passed"]) \in Seq(Attempt)
      BY <1>a, <2>1, <3>1 DEF Storage
    <3>3. subs' = [subs EXCEPT ![p][j.step] =
                     Append(subs[p][j.step], [problem |-> j.problem, passed |-> v = "passed"])]
      BY <1>16, <1>a, <2>1 DEF Land, WithAttempt, Storage
    <3> QED  BY <1>a, <2>1, <3>2, <3>3 DEF Storage
  <2>5. statuses' \in [Place -> [Step -> Status]]
    BY <1>16, <1>a, <2>1, <2>2 DEF Land, Storage
  <2>6. lessons' \in [Modes -> (SUBSET Modules) \cup {None}]
    <3>1. lessons[p.mode] \in (SUBSET Modules) \cup {None} /\ p.module \in Modules
      BY <1>a, <2>1 DEF Storage, Place
    <3>2. Marked(lessons[p.mode], p.module) \in (SUBSET Modules) \cup {None}
      BY <3>1 DEF Marked
    <3>3. lessons' \in {lessons, [lessons EXCEPT ![p.mode] = Marked(lessons[p.mode], p.module)]}
      BY <1>16 DEF Land, CompletedBy
    <3> QED  BY <1>a, <3>2, <3>3 DEF Storage
  <2>7. tab' = [tab EXCEPT ![t] = r]
    BY <1>16 DEF Land
  <2>8. subs'[p][j.step] \in Seq(Attempt) /\ j # None
    BY <1>16, <2>1, <2>4 DEF Land
  <2> HIDE DEF sts, k, p
  <2>9. TabOK(r)
    BY <1>g, <2>1, <2>2, <2>3, <2>8 DEF TabOK, Tab
  <2> HIDE DEF r
  <2>10. Crossings'
    BY <1>a, <1>16 DEF Land, Strays, Crossings
  <2>11. Counts' /\ BankOK'
    BY <1>16, <1>d, <1>e DEF Land
  <2>12. Storage'
    BY <1>a, <1>16, <2>4, <2>5, <2>6 DEF Land, Storage
  <2> QED  BY <1>b, <1>tabs, <2>7, <2>9, <2>10, <2>11, <2>12
<1>17. ASSUME NEW t \in Tabs, VerdictTimer(t) PROVE TypeInv'
  <2> DEFINE j == tab[t].job
             open == {i \in 1 .. Len(j.list) : i # j.step /\ statuses[AppPlace][i] # "passed"}
             first == CHOOSE i \in open : \A k \in open : i <= k
             s == [tab[t] EXCEPT !.job = None, !.step = first]
             n == [tab[t] EXCEPT !.job = None]
  <2>1. j \in Job /\ Len(j.list) \in Nat /\ Len(j.list) <= MaxSteps
    BY <1>17, <1>g DEF VerdictTimer, TabOK, Tab, Job
  <2>2. open # {} => first \in open
    BY <2>1, FirstOf
  <2>3. \/ open # {} /\ tab' = [tab EXCEPT ![t] = Shown(s)] /\ saved' = Remember(s)
        \/ open # {} /\ tab' = [tab EXCEPT ![t] = s] /\ saved' = saved
        \/ tab' = [tab EXCEPT ![t] = n] /\ saved' = saved
    BY <1>17 DEF VerdictTimer
  <2>4. open # {} => first \in Step
    BY <2>1, <2>2, Consts
  <2> HIDE DEF open, first
  <2>5. open # {} => TabOK(s)
    BY <1>g, <2>4 DEF TabOK, Tab
  <2>6. TabOK(n)
    BY <1>g DEF TabOK, Tab
  <2> HIDE DEF s, n
  <2>7. open # {} => TabOK(Shown(s)) /\ Remember(s) \in [Place -> 0 .. MaxSteps]
    BY <2>5, ShownIs, RememberIs DEF TabOK
  <2>8. TabsOK' /\ saved' \in [Place -> 0 .. MaxSteps]
    BY <1>a, <1>tabs, <2>3, <2>5, <2>6, <2>7 DEF Storage
  <2>9. Crossings'
    BY <1>a, <1>17 DEF VerdictTimer, Strays, Crossings
  <2>10. Counts' /\ BankOK'
    BY <1>17, <1>d, <1>e DEF VerdictTimer
  <2>11. Storage'
    BY <1>a, <1>17, <2>8 DEF VerdictTimer, Storage
  <2> QED  BY <1>b, <2>8, <2>9, <2>10, <2>11
<1>18. ASSUME NEW p \in Place, NEW q \in Problem, Publish(p, q) PROVE TypeInv'
  <2>1. BankOK'
    BY <1>a, <1>18, Consts DEF Publish, BankOK
  <2>2. Counts'
    BY <1>a, <1>18, Consts DEF Publish, Counts
  <2>3. Storage' /\ TabsOK' /\ Crossings'
    BY <1>a, <1>18, <1>f DEF Publish, TabsOK, Crossings
  <2> QED  BY <1>b, <2>1, <2>2, <2>3
<1>19. ASSUME NEW p \in Place, NEW i \in Step, Withdraw(p, i) PROVE TypeInv'
  <2>1. bank[p] \in Seq(Problem) /\ Len(bank[p]) <= MaxSteps /\ i \in 1 .. Len(bank[p])
    BY <1>a, <1>19 DEF Withdraw, BankOK
  <2>2. RemoveAt(bank[p], i) \in Seq(Problem) /\ Len(RemoveAt(bank[p], i)) <= MaxSteps
    BY <2>1, RemovedIs, Consts
  <2>3. BankOK'
    BY <1>a, <1>19, <2>2 DEF Withdraw, BankOK
  <2>4. Counts'
    BY <1>a, <1>19, Consts DEF Withdraw, Counts
  <2>5. Storage' /\ TabsOK' /\ Crossings'
    BY <1>a, <1>19, <1>f DEF Withdraw, TabsOK, Crossings
  <2> QED  BY <1>b, <2>3, <2>4, <2>5
<1>20. CASE UNCHANGED vars
  BY <1>a, <1>b, <1>20, <1>d, <1>e, <1>f DEF vars, TabsOK, Crossings
<1> QED
  BY <1>1, <1>2, <1>3, <1>4, <1>5, <1>6, <1>7, <1>8, <1>9, <1>10, <1>11, <1>12, <1>13, <1>14,
     <1>15, <1>16, <1>17, <1>18, <1>19, <1>20 DEF Next

\* Whatever two tabs, timers and an instructor do to one browser's storage, every
\* key and every tab's state keep their shape (App.jsx:347-480).
THEOREM TypeCorrect == Spec => []TypeOK
<1>1. TypeInv => TypeOK
  BY DEF TypeInv
<1> QED  BY <1>1, TypeInit, TypeNext, PTL DEF Spec

-----------------------------------------------------------------------------
(* What the actions do to a tab, field by field.                           *)

\* The fields of a tab that the workspace works on.
SameWork(r, s) ==
  /\ s.at = r.at /\ s.list = r.list /\ s.step = r.step
  /\ s.sts = r.sts /\ s.shown = r.shown /\ s.job = r.job

\* One tab acts at a time.
OthersStay(t) == \A u \in Tabs \ {t} : tab'[u] = tab[u]

\* Replacing one tab, whatever it becomes.
LEMMA Replaced ==
  ASSUME TypeInv, NEW t \in Tabs, NEW r, tab' = [tab EXCEPT ![t] = r]
  PROVE  tab'[t] = r /\ OthersStay(t)
BY DEF TypeInv, TypeOK, OthersStay

\* The shape of one tab.
LEMMA TabIs ==
  ASSUME TypeInv, NEW t \in Tabs
  PROVE  tab[t] \in Tab /\ TabOK(tab[t])
BY DEF TypeInv, TabOK

\* Steps of the course page, and of leaving pages, leave a tab's work as it is.
LEMMA CourseStep ==
  ASSUME TypeInv, NEW t \in Tabs,
         \/ OpenCourse(t) \/ OpenHome(t) \/ SettleLessons(t) \/ MarkTimer(t)
         \/ \E mode \in Modes : SwitchTab(t, mode)
         \/ \E m \in Modules : MarkComplete(t, m) \/ EnterWorkspace(t, m)
  PROVE  /\ OthersStay(t) /\ SameWork(tab[t], tab'[t])
         /\ tab'[t].page = "workspace" =>
              tab[t].page = "workspace" /\ tab'[t].due = tab[t].due
         /\ tab[t].due # "workspace" /\ tab'[t].due # "workspace"
         /\ UNCHANGED <<bank, where, statuses, subs, saved, drafts>> /\ odd \subseteq odd'
<1>0. tab[t] \in Tab /\ TabOK(tab[t])
  BY TabIs
<1>1. CASE OpenCourse(t)
  <2> DEFINE s == [tab[t] EXCEPT !.page = "coursetext", !.act = activeTab,
                                                  !.lst = Restored(activeTab), !.due = "lessons"]
  <2>1. tab' = [tab EXCEPT ![t] = s]
    BY <1>1 DEF OpenCourse
  <2>2. SameWork(tab[t], s) /\ s.page = "coursetext" /\ s.due = "lessons"
    BY <1>0, <1>1 DEF SameWork, Tab, TabOK, Left, OpenCourse, Clicks, Moves
  <2> HIDE DEF s
  <2>3. tab'[t] = s /\ OthersStay(t)
    BY <2>1, Replaced
  <2> QED  BY <1>0, <1>1, <2>2, <2>3 DEF OpenCourse, Moves, Crossing, storage
<1>2. CASE OpenHome(t)
  <2> DEFINE s == [Left(tab[t], "home") EXCEPT !.page = "home"]
  <2>1. tab' = [tab EXCEPT ![t] = s]
    BY <1>2 DEF OpenHome
  <2>2. SameWork(tab[t], s) /\ s.page = "home" /\ s.due = tab[t].due
    BY <1>0, <1>2 DEF SameWork, Tab, TabOK, Left, OpenHome, Clicks, Moves
  <2> HIDE DEF s
  <2>3. tab'[t] = s /\ OthersStay(t)
    BY <2>1, Replaced
  <2> QED  BY <1>0, <1>2, <2>2, <2>3 DEF OpenHome, Moves, storage
<1>3. CASE SettleLessons(t)
  <2> DEFINE s == [tab[t] EXCEPT !.due = "none"]
  <2>1. tab' = [tab EXCEPT ![t] = s]
    BY <1>3 DEF SettleLessons
  <2>2. SameWork(tab[t], s) /\ s.page = tab[t].page /\ s.due = "none"
    BY <1>0, <1>3 DEF SameWork, Tab, TabOK, Left, SettleLessons, Clicks, Moves
  <2> HIDE DEF s
  <2>3. tab'[t] = s /\ OthersStay(t)
    BY <2>1, Replaced
  <2> QED  BY <1>0, <1>3, <2>2, <2>3 DEF SettleLessons, Crossing, TabOK
<1>4. CASE MarkTimer(t)
  <2> DEFINE s == [tab[t] EXCEPT !.mark = None, !.lst = tab[t].lst \cup {tab[t].mark}]
  <2>1. tab' = [tab EXCEPT ![t] = s]
    BY <1>4 DEF MarkTimer
  <2>2. SameWork(tab[t], s) /\ s.page = tab[t].page /\ s.due = tab[t].due
    BY <1>0, <1>4 DEF SameWork, Tab, TabOK, Left, MarkTimer, Clicks, Moves
  <2> HIDE DEF s
  <2>3. tab'[t] = s /\ OthersStay(t)
    BY <2>1, Replaced
  <2> QED  BY <1>0, <1>4, <2>2, <2>3 DEF MarkTimer
<1>5. ASSUME NEW mode \in Modes, SwitchTab(t, mode)
      PROVE  /\ OthersStay(t) /\ SameWork(tab[t], tab'[t])
             /\ tab'[t].page = "coursetext" /\ tab'[t].due = "lessons" /\ tab[t].due = "none"
             /\ UNCHANGED <<bank, where, statuses, subs, saved, drafts>> /\ odd \subseteq odd'
  <2> DEFINE s == [tab[t] EXCEPT !.act = mode, !.lst = Restored(mode), !.due = "lessons"]
  <2>1. tab' = [tab EXCEPT ![t] = s]
    BY <1>5 DEF SwitchTab
  <2>2. SameWork(tab[t], s) /\ s.page = "coursetext" /\ s.due = "lessons"
    BY <1>0, <1>5 DEF SameWork, Tab, TabOK, Left, SwitchTab, Clicks, Moves
  <2> HIDE DEF s
  <2>3. tab'[t] = s /\ OthersStay(t)
    BY <2>1, Replaced
  <2> QED  BY <1>0, <1>5, <2>2, <2>3 DEF SwitchTab, Clicks, Moves, Crossing
<1>6. ASSUME NEW m \in Modules, MarkComplete(t, m)
      PROVE  /\ OthersStay(t) /\ SameWork(tab[t], tab'[t])
             /\ tab'[t].page = "coursetext" /\ tab'[t].due = "none" /\ tab[t].due = "none"
             /\ UNCHANGED <<bank, where, statuses, subs, saved, drafts>> /\ odd \subseteq odd'
  <2> DEFINE s == [tab[t] EXCEPT !.mark = m]
  <2>1. tab' = [tab EXCEPT ![t] = s]
    BY <1>6 DEF MarkComplete
  <2>2. SameWork(tab[t], s) /\ s.page = "coursetext" /\ s.due = "none"
    BY <1>0, <1>6 DEF SameWork, Tab, TabOK, Left, MarkComplete, Clicks, Moves
  <2> HIDE DEF s
  <2>3. tab'[t] = s /\ OthersStay(t)
    BY <2>1, Replaced
  <2> QED  BY <1>0, <1>6, <2>2, <2>3 DEF MarkComplete, Clicks, Moves, storage
<1>7. ASSUME NEW m \in Modules, EnterWorkspace(t, m)
      PROVE  /\ OthersStay(t) /\ SameWork(tab[t], tab'[t])
             /\ tab'[t].page = "coursetext" /\ tab'[t].due = "none" /\ tab[t].due = "none"
             /\ UNCHANGED <<bank, where, statuses, subs, saved, drafts>> /\ odd \subseteq odd'
  <2> DEFINE s == [tab[t] EXCEPT !.enter = [mode |-> tab[t].act, module |-> m]]
  <2>1. tab' = [tab EXCEPT ![t] = s]
    BY <1>7 DEF EnterWorkspace
  <2>2. SameWork(tab[t], s) /\ s.page = "coursetext" /\ s.due = "none"
    BY <1>0, <1>7 DEF SameWork, Tab, TabOK, Left, EnterWorkspace, Clicks, Moves
  <2> HIDE DEF s
  <2>3. tab'[t] = s /\ OthersStay(t)
    BY <2>1, Replaced
  <2> QED  BY <1>0, <1>7, <2>2, <2>3 DEF EnterWorkspace, Clicks, Moves, storage
<1> QED  BY <1>1, <1>2, <1>3, <1>4, <1>5, <1>6, <1>7

\* Entering a place: the tab takes the list and the statuses of the place, the
\* place remembers the former step until the effect runs.
LEMMA EnterStep ==
  ASSUME TypeInv, NEW t \in Tabs,
         OpenWorkspace(t) \/ (EnterTimer(t) /\ tab[t].page # "workspace")
  PROVE  LET p == AppPlace' r == tab[t] e == tab'[t] IN
         /\ p \in Place /\ OthersStay(t) /\ r.page # "workspace" /\ r.due = "none"
         /\ e.page = "workspace" /\ e.at = p /\ e.list = bank[p] /\ e.sts = statuses[p]
         /\ e.due = "workspace" /\ e.job = r.job
         /\ bank[p] # <<>> => e.step = SafeStep(p)
         /\ saved' = IF OnStep(r) THEN [saved EXCEPT ![p] = r.step] ELSE saved
         /\ odd' = odd \cup (IF Alone(t) THEN {} ELSE {"shared"})
                       \cup (IF r.job # None /\ r.at # p THEN {"strayed"} ELSE {})
         /\ UNCHANGED <<bank, statuses, subs, drafts, lessons>>
<1> DEFINE Does(p, r) ==
      LET e == tab'[t] IN
         /\ OthersStay(t)
         /\ e.page = "workspace" /\ e.at = p /\ e.list = bank[p] /\ e.sts = statuses[p]
         /\ e.due = "workspace" /\ e.job = r.job
         /\ bank[p] # <<>> => e.step = SafeStep(p)
         /\ saved' = IF OnStep(r) THEN [saved EXCEPT ![p] = r.step] ELSE saved
         /\ odd' = odd \cup (IF Alone(t) THEN {} ELSE {"shared"})
                       \cup (IF r.job # None /\ r.at # p THEN {"strayed"} ELSE {})
<1>1. ASSUME NEW p \in Place, NEW r \in Tab, Enter(t, p, r)
      PROVE  Does(p, r)
  <2>1. tab'[t] = Entered(r, p) /\ OthersStay(t)
    BY <1>1, Replaced DEF Enter
  <2> QED  BY <1>1, <2>1, EnteredIs DEF Enter
<1>2. CASE OpenWorkspace(t)
  <2> DEFINE l == Left(tab[t], "workspace")
  <2>1. l \in Tab /\ l.job = tab[t].job /\ l.at = tab[t].at /\ l.list = tab[t].list /\ l.step = tab[t].step
    BY TabIs DEF Left, Tab
  <2> HIDE DEF l
  <2>2. Enter(t, AppPlace, l) /\ UNCHANGED <<bank, where, statuses, subs, drafts, lessons>>
        /\ tab[t].page # "workspace" /\ tab[t].due = "none"
    BY <1>2 DEF OpenWorkspace, Moves, l
  <2>3. AppPlace' = AppPlace /\ AppPlace \in Place
    BY <2>2, PlacesAre DEF AppPlace
  <2>4. Does(AppPlace, l)
    BY <1>1, <2>1, <2>2, <2>3
  <2> QED  BY <2>1, <2>2, <2>3, <2>4 DEF OnStep
<1>3. CASE EnterTimer(t) /\ tab[t].page # "workspace"
  <2> DEFINE r == [tab[t] EXCEPT !.enter = None]
             l == Left(r, "workspace")
             p == tab[t].enter
  <2>0. r \in Tab /\ r.page = tab[t].page /\ r.job = tab[t].job /\ r.at = tab[t].at
        /\ r.list = tab[t].list /\ r.step = tab[t].step
    BY TabIs DEF Tab
  <2>1. l \in Tab /\ l.job = tab[t].job /\ l.at = tab[t].at /\ l.list = tab[t].list /\ l.step = tab[t].step
    BY <2>0 DEF Left, Tab
  <2>2. Enter(t, p, l) /\ UNCHANGED <<bank, statuses, subs, drafts, lessons>> /\ where' = p /\ p # None
        /\ tab[t].due = "none"
    BY <1>3, <2>0 DEF EnterTimer
  <2>3. p \in Place
    BY <2>2, TabIs DEF Tab
  <2>4. AppPlace' = p
    BY <2>2 DEF AppPlace
  <2> HIDE DEF l, p
  <2>5. Does(p, l)
    BY <1>1, <2>1, <2>2, <2>3
  <2> QED  BY <1>3, <2>1, <2>2, <2>3, <2>4, <2>5 DEF OnStep
<1> QED  BY <1>2, <1>3

\* The entry timer of a tab that is on the workspace already.
LEMMA EnterTimerStep ==
  ASSUME TypeInv, NEW t \in Tabs, EnterTimer(t), tab[t].page = "workspace"
  PROVE  /\ OthersStay(t) /\ SameWork(tab[t], tab'[t])
         /\ tab[t].due = "none" /\ tab'[t].page = "workspace" /\ tab'[t].due = "none"
         /\ UNCHANGED <<bank, statuses, subs, saved, drafts, lessons, odd>>
<1> DEFINE s == [tab[t] EXCEPT !.enter = None]
<1>1. SameWork(tab[t], s) /\ s.page = tab[t].page /\ s.due = tab[t].due
  BY TabIs DEF SameWork, Tab
<1>2. tab' = [tab EXCEPT ![t] = s]
  BY <1>1 DEF EnterTimer
<1> HIDE DEF s
<1>3. tab'[t] = s /\ OthersStay(t)
  BY <1>2, Replaced
<1>4. UNCHANGED <<saved, odd>>
  BY <1>1 DEF EnterTimer
<1> QED  BY <1>1, <1>3, <1>4 DEF EnterTimer

\* A reload elsewhere forgets the work; on the workspace it enters anew.
LEMMA ReloadStep ==
  ASSUME TypeInv, NEW t \in Tabs, Reload(t)
  PROVE  LET e == tab'[t] p == AppPlace IN
         /\ OthersStay(t) /\ e.page = tab[t].page /\ e.job = None /\ p \in Place
         /\ tab[t].due = "none" \/ "cut" \in odd'
         /\ e.page = "coursetext" =>
              /\ e.due = "lessons" /\ e.act = activeTab /\ e.lst = Restored(activeTab)
              /\ Mended(t, activeTab) => "cut" \in odd'
         /\ e.page = "home" => e.due = "none"
         /\ e.page # "workspace" =>
              /\ e.at = None /\ e.list = <<>> /\ e.due # "workspace" /\ saved' = saved
         /\ e.page = "workspace" =>
              /\ e.at = p /\ e.list = bank[p] /\ e.sts = statuses[p] /\ e.due = "workspace"
              /\ bank[p] # <<>> => e.step = SafeStep(p)
              /\ saved' = saved \/ saved' = [saved EXCEPT ![p] = 1]
              /\ "shared" \in odd' \/ Alone(t)
         /\ UNCHANGED <<bank, where, statuses, subs, drafts, lessons>> /\ odd \subseteq odd'
<1> DEFINE r == FreshTab(tab[t].page)
           c == [r EXCEPT !.lst = Restored(activeTab), !.due = "lessons"]
<1>1. tab[t].page \in {"home", "coursetext", "workspace"}
  BY TabIs DEF Tab
<1>2. /\ r \in Tab /\ r.page = tab[t].page /\ r.at = None /\ r.list = <<>>
      /\ r.due = "none" /\ r.job = None /\ r.act = activeTab
  BY <1>1, FreshIsTab
<1>3. AppPlace \in Place
  BY PlacesAre
<1>4. /\ UNCHANGED <<bank, where, statuses, subs, drafts, lessons>> /\ odd \subseteq odd'
      /\ tab[t].due = "none" \/ "cut" \in odd'
  BY DEF Reload
<1>5. CASE r.page = "workspace"
  <2>1. tab' = [tab EXCEPT ![t] = Entered(r, AppPlace)]
    BY <1>5 DEF Reload
  <2>2. tab'[t] = Entered(r, AppPlace) /\ OthersStay(t)
    BY <2>1, Replaced
  <2>3. saved' = saved \/ saved' = [saved EXCEPT ![AppPlace] = 1]
    BY <1>5 DEF Reload
  <2>4. "shared" \in odd' \/ Alone(t)
    BY <1>5 DEF Reload
  <2> HIDE DEF r
  <2> QED  BY <1>2, <1>3, <1>4, <1>5, <2>2, <2>3, <2>4, EnteredIs
<1>6. CASE r.page = "coursetext"
  <2>1. tab' = [tab EXCEPT ![t] = c] /\ saved' = saved
    BY <1>6 DEF Reload
  <2>2. tab'[t] = c /\ OthersStay(t)
    BY <2>1, Replaced
  <2> HIDE DEF r
  <2>3. c.page = "coursetext" /\ c.at = None /\ c.list = <<>> /\ c.due = "lessons" /\ c.job = None
        /\ c.act = activeTab /\ c.lst = Restored(activeTab)
    BY <1>2, <1>6 DEF Tab
  <2>4. Mended(t, activeTab) => "cut" \in odd'
    BY <1>6 DEF Reload, r
  <2> HIDE DEF c
  <2> QED  BY <1>2, <1>3, <1>4, <1>6, <2>1, <2>2, <2>3, <2>4
<1>7. CASE r.page = "home"
  <2>1. tab' = [tab EXCEPT ![t] = r] /\ saved' = saved
    BY <1>7 DEF Reload
  <2>2. tab'[t] = r /\ OthersStay(t)
    BY <2>1, Replaced
  <2> HIDE DEF r
  <2> QED  BY <1>2, <1>3, <1>4, <1>7, <2>1, <2>2
<1> HIDE DEF r
<1> QED  BY <1>1, <1>2, <1>5, <1>6, <1>7

\* The effects of the workspace have run.
LEMMA SettleStep ==
  ASSUME TypeInv, NEW t \in Tabs, SettleWorkspace(t)
  PROVE  LET r == tab[t] e == tab'[t] IN
         /\ OthersStay(t) /\ r.due = "workspace" /\ r.page = "workspace"
         /\ e.page = "workspace" /\ e.due = "none" /\ e.at = r.at /\ e.list = r.list
         /\ e.step = r.step /\ e.sts = r.sts /\ e.job = r.job
         /\ OnStep(r) => e.shown = subs[AppPlace][r.step]
         /\ saved' = Remember(r)
         /\ UNCHANGED <<bank, where, statuses, subs, drafts, lessons, odd>>
<1> DEFINE d == [tab[t] EXCEPT !.due = "none"]
<1>1. tab[t].due = "workspace" /\ tab[t].page = "workspace"
  BY TabIs DEF SettleWorkspace, TabOK
<1>2. /\ d \in Tab /\ d.page = tab[t].page /\ d.due = "none" /\ d.at = tab[t].at /\ d.list = tab[t].list
      /\ d.step = tab[t].step /\ d.sts = tab[t].sts /\ d.job = tab[t].job
  BY TabIs DEF Tab
<1>3. tab' = [tab EXCEPT ![t] = Shown(d)]
  BY DEF SettleWorkspace
<1> HIDE DEF d
<1>4. tab'[t] = Shown(d) /\ OthersStay(t)
  BY <1>3, Replaced
<1> QED  BY <1>1, <1>2, <1>4, ShownIs DEF SettleWorkspace, OnStep

\* Another step of the list; the one left is skipped unless it is passed.
LEMMA StepChangeStep ==
  ASSUME TypeInv, NEW t \in Tabs, NEW i \in Step, StepChange(t, i)
  PROVE  LET r == tab[t] e == tab'[t] p == AppPlace IN
         /\ OthersStay(t) /\ r.page = "workspace" /\ r.due = "none" /\ r.job = None
         /\ i <= Len(r.list)
         /\ e.page = "workspace" /\ e.due = "none" /\ e.at = r.at /\ e.list = r.list /\ e.job = None
         /\ e.step = i /\ e.shown = subs[p][i] /\ p \in Place
         /\ \/ e.sts = r.sts /\ statuses' = statuses
            \/ /\ r.sts[r.step] # "passed" /\ e.sts = [r.sts EXCEPT ![r.step] = "skipped"]
               /\ statuses' = [statuses EXCEPT ![p] = e.sts]
         /\ saved' = [saved EXCEPT ![p] = i] /\ odd' = odd \cup Strays(t)
         /\ UNCHANGED <<bank, where, subs, drafts, lessons>>
<1> DEFINE r == tab[t]
           sts == IF Skips(r, i) THEN [r.sts EXCEPT ![r.step] = "skipped"] ELSE r.sts
           s == [r EXCEPT !.sts = sts, !.step = i]
<1>1. /\ r.page = "workspace" /\ r.due = "none" /\ r.job = None /\ i <= Len(r.list)
      /\ UNCHANGED <<bank, where, subs, drafts, lessons>> /\ odd' = odd \cup Strays(t)
  BY TabIs DEF StepChange, Clicks, Moves, Tab
<1>2. sts \in [Step -> Status]
  BY TabIs DEF Tab, Status
<1>3. /\ tab' = [tab EXCEPT ![t] = Shown(s)] /\ saved' = Remember(s)
      /\ statuses' = IF Skips(r, i) THEN [statuses EXCEPT ![AppPlace] = sts] ELSE statuses
  BY DEF StepChange
<1>4. \/ sts = r.sts /\ statuses' = statuses
      \/ /\ r.sts[r.step] # "passed" /\ sts = [r.sts EXCEPT ![r.step] = "skipped"]
         /\ statuses' = [statuses EXCEPT ![AppPlace] = sts]
  BY <1>3 DEF Skips
<1> HIDE DEF sts
<1>5. /\ s \in Tab /\ s.page = r.page /\ s.due = r.due /\ s.at = r.at /\ s.list = r.list
      /\ s.job = r.job /\ s.sts = sts /\ s.step = i
  BY <1>2, TabIs DEF Tab
<1> HIDE DEF s
<1>6. tab'[t] = Shown(s) /\ OthersStay(t)
  BY <1>3, Replaced
<1>7. OnStep(s)
  BY <1>1, <1>5 DEF OnStep
<1>8. LET e == Shown(s) IN
      /\ e.page = r.page /\ e.due = r.due /\ e.at = r.at /\ e.list = r.list /\ e.job = r.job
      /\ e.sts = sts /\ e.step = i /\ e.shown = subs[AppPlace][i]
  BY <1>5, <1>7, ShownIs
<1>9. saved' = [saved EXCEPT ![AppPlace] = i]
  BY <1>3, <1>5, <1>7 DEF Remember
<1>10. AppPlace \in Place
  BY PlacesAre
<1> QED  BY <1>1, <1>4, <1>6, <1>8, <1>9, <1>10

\* A submission is for the problem on screen, and not for one that is locked.
LEMMA SubmitStep ==
  ASSUME TypeInv, NEW t \in Tabs, Submit(t)
  PROVE  LET r == tab[t] e == tab'[t] IN
         /\ OthersStay(t) /\ r.page = "workspace" /\ r.due = "none" /\ r.job = None
         /\ OnStep(r) /\ ~Locked(r, r.step)
         /\ e.page = "workspace" /\ e.due = "none" /\ e.at = r.at /\ e.list = r.list
         /\ e.step = r.step /\ e.sts = r.sts /\ e.shown = r.shown
         /\ e.job # None /\ e.job.problem = r.list[r.step] /\ e.job.step = r.step
         /\ e.job.list = r.list /\ e.job.verdict = "verifying"
         /\ UNCHANGED <<bank, where, statuses, subs, saved, drafts, lessons, odd>>
<1> DEFINE j == [problem |-> tab[t].list[tab[t].step], step |-> tab[t].step,
                 verdict |-> "verifying", exam |-> FALSE, list |-> tab[t].list]
           s == [tab[t] EXCEPT !.job = j]
<1>1. /\ tab' = [tab EXCEPT ![t] = s]
      /\ tab[t].page = "workspace" /\ tab[t].due = "none" /\ tab[t].job = None
      /\ OnStep(tab[t]) /\ ~Locked(tab[t], tab[t].step)
      /\ UNCHANGED <<bank, where, statuses, subs, saved, drafts, lessons, odd>>
  BY DEF Submit, Clicks, Moves, storage
<1>3. tab'[t] = s /\ OthersStay(t)
  BY <1>1, Replaced
<1>4. /\ j.problem = tab[t].list[tab[t].step] /\ j.step = tab[t].step /\ j.list = tab[t].list
      /\ j.verdict = "verifying"
  OBVIOUS
<1> HIDE DEF j
<1>5. /\ s.page = tab[t].page /\ s.due = tab[t].due /\ s.at = tab[t].at /\ s.list = tab[t].list
      /\ s.step = tab[t].step /\ s.sts = tab[t].sts /\ s.shown = tab[t].shown /\ s.job = j
  BY TabIs DEF Tab
<1>6. j # None
  <2>1. j \in Job
    BY <1>1, TabIs, Consts DEF j, Job, OnStep, Tab
  <2> QED  BY <2>1, WorkspaceAssumption
<1> HIDE DEF s
<1> QED  BY <1>1, <1>3, <1>4, <1>5, <1>6

\* A submission that ends without a verdict leaves nothing.
LEMMA LandErrorStep ==
  ASSUME TypeInv, NEW t \in Tabs, LandError(t)
  PROVE  LET r == tab[t] e == tab'[t] IN
         /\ OthersStay(t) /\ e.page = r.page /\ e.due = r.due /\ e.at = r.at /\ e.list = r.list
         /\ e.step = r.step /\ e.sts = r.sts /\ e.shown = r.shown /\ r.job # None /\ e.job = None
         /\ e.act = r.act /\ e.lst = r.lst
         /\ UNCHANGED <<bank, where, statuses, subs, saved, drafts, lessons, odd>>
<1> DEFINE s == [tab[t] EXCEPT !.job = None]
<1>1. tab' = [tab EXCEPT ![t] = s] /\ tab[t].job # None
  BY DEF LandError
<1>2. tab'[t] = s /\ OthersStay(t)
  BY <1>1, Replaced
<1>3. /\ s.page = tab[t].page /\ s.due = tab[t].due /\ s.at = tab[t].at /\ s.list = tab[t].list
      /\ s.step = tab[t].step /\ s.sts = tab[t].sts /\ s.shown = tab[t].shown /\ s.job = None
      /\ s.act = tab[t].act /\ s.lst = tab[t].lst
  BY TabIs DEF Tab
<1> HIDE DEF s
<1> QED  BY <1>1, <1>2, <1>3 DEF LandError, storage

\* A verdict is filed where the keys point by now.
LEMMA LandStep ==
  ASSUME TypeInv, NEW t \in Tabs, NEW v \in {"passed", "failed"}, Land(t, v)
  PROVE  LET r == tab[t] e == tab'[t] p == AppPlace j == tab[t].job
             new == [problem |-> j.problem, passed |-> v = "passed"]
         IN
         /\ OthersStay(t) /\ j # None /\ j \in Job /\ j.verdict = "verifying" /\ p \in Place
         /\ e.page = r.page /\ e.due = r.due /\ e.at = r.at /\ e.list = r.list /\ e.step = r.step
         /\ e.sts = [r.sts EXCEPT ![j.step] = v]
         /\ e.job # None /\ e.job.problem = j.problem /\ e.job.step = j.step /\ e.job.list = j.list
         /\ e.job.verdict = v
         /\ statuses' = [statuses EXCEPT ![p] = e.sts]
         /\ new \in Attempt /\ subs' = [subs EXCEPT ![p][j.step] = Append(subs[p][j.step], new)]
         /\ e.shown = subs'[p][j.step] /\ e.act = r.act /\ e.lst = r.lst
         /\ lessons' = CompletedBy(p, e.sts, v)
         /\ "crossed" \notin odd' /\ lessons' # lessons =>
              \A u \in Tabs : ~(tab[u].page = "coursetext" /\ tab[u].act = p.mode)
         /\ odd \cup Strays(t) \subseteq odd'
         /\ UNCHANGED <<bank, where, saved, drafts>>
<1> DEFINE j == tab[t].job
           p == AppPlace
           sts == [tab[t].sts EXCEPT ![j.step] = v]
           k == [j EXCEPT !.verdict = v, !.exam = (p.mode = "EXAM")]
           s == [tab[t] EXCEPT !.sts = sts, !.shown = subs'[p][j.step], !.job = k]
           new == [problem |-> j.problem, passed |-> v = "passed"]
<1>1. j # None /\ j \in Job /\ j.verdict = "verifying" /\ p \in Place
  BY TabIs, PlacesAre DEF Land, Tab
<1>2. k \in Job /\ k.problem = j.problem /\ k.step = j.step /\ k.list = j.list /\ k.verdict = v
  BY <1>1 DEF Job
<1>3. k # None
  BY <1>2, WorkspaceAssumption
<1>4. new \in Attempt
  BY <1>1 DEF Job, Attempt
<1>5. subs' = [subs EXCEPT ![p][j.step] = Append(subs[p][j.step], new)]
  BY <1>1 DEF Land, WithAttempt, TypeInv, TypeOK
<1>6. statuses' = [statuses EXCEPT ![p] = sts] /\ tab' = [tab EXCEPT ![t] = s]
      /\ UNCHANGED <<bank, where, saved, drafts>> /\ odd \cup Strays(t) \subseteq odd'
  BY DEF Land
<1>9. /\ lessons' = CompletedBy(p, sts, v)
      /\ "crossed" \notin odd' /\ lessons' # lessons =>
           \A u \in Tabs : ~(tab[u].page = "coursetext" /\ tab[u].act = p.mode)
  BY DEF Land
<1>7. tab'[t] = s /\ OthersStay(t)
  BY <1>6, Replaced
<1> HIDE DEF sts, k
<1>8. /\ s.page = tab[t].page /\ s.due = tab[t].due /\ s.at = tab[t].at /\ s.list = tab[t].list
      /\ s.step = tab[t].step /\ s.sts = sts /\ s.shown = subs'[p][j.step] /\ s.job = k
      /\ s.act = tab[t].act /\ s.lst = tab[t].lst
  BY TabIs DEF Tab
<1> HIDE DEF s, p
<1> QED  BY <1>1, <1>2, <1>3, <1>4, <1>5, <1>6, <1>7, <1>8, <1>9 DEF sts, p

\* The overlay goes; an exam may go on to another step of the list it was
\* submitted from.
LEMMA VerdictStep ==
  ASSUME TypeInv, NEW t \in Tabs, VerdictTimer(t)
  PROVE  LET r == tab[t] e == tab'[t] p == AppPlace j == tab[t].job IN
         /\ OthersStay(t) /\ j # None /\ p \in Place
         /\ e.page = r.page /\ e.due = r.due /\ e.at = r.at /\ e.list = r.list
         /\ e.sts = r.sts /\ e.job = None /\ e.act = r.act /\ e.lst = r.lst
         /\ \/ e.step = r.step /\ e.shown = r.shown /\ saved' = saved
            \/ /\ e.step \in 1 .. Len(j.list) /\ Strays(t) \subseteq odd'
               /\ IF r.page = "workspace"
                    THEN /\ OnStep(e) => e.shown = subs[p][e.step]
                         /\ saved' = IF OnStep(e) THEN [saved EXCEPT ![p] = e.step] ELSE saved
                    ELSE saved' = saved
         /\ odd \subseteq odd'
         /\ UNCHANGED <<bank, where, statuses, subs, drafts, lessons>>
<1> DEFINE j == tab[t].job
           open == {i \in 1 .. Len(j.list) : i # j.step /\ statuses[AppPlace][i] # "passed"}
           first == CHOOSE i \in open : \A k \in open : i <= k
           s == [tab[t] EXCEPT !.job = None, !.step = first]
           n == [tab[t] EXCEPT !.job = None]
<1>1. /\ j # None /\ odd \subseteq odd' /\ AppPlace \in Place
      /\ UNCHANGED <<bank, where, statuses, subs, drafts, lessons>>
  BY PlacesAre DEF VerdictTimer
<1>2. j \in Job /\ Len(j.list) \in Nat /\ Len(j.list) <= MaxSteps
  BY <1>1, TabIs DEF TabOK, Tab, Job
<1>3. open # {} => first \in open
  BY <1>2, FirstOf
<1>4. open # {} => first \in Step /\ first \in 1 .. Len(j.list)
  BY <1>2, <1>3, Consts
<1>5. \/ /\ open # {} /\ tab[t].page = "workspace" /\ Strays(t) \subseteq odd'
         /\ tab' = [tab EXCEPT ![t] = Shown(s)] /\ saved' = Remember(s)
      \/ /\ open # {} /\ tab[t].page # "workspace" /\ Strays(t) \subseteq odd'
         /\ tab' = [tab EXCEPT ![t] = s] /\ saved' = saved
      \/ tab' = [tab EXCEPT ![t] = n] /\ saved' = saved
  BY DEF VerdictTimer
<1> HIDE DEF open, first
<1>6. n.page = tab[t].page /\ n.due = tab[t].due /\ n.at = tab[t].at /\ n.list = tab[t].list
      /\ n.sts = tab[t].sts /\ n.step = tab[t].step /\ n.shown = tab[t].shown /\ n.job = None
      /\ n.act = tab[t].act /\ n.lst = tab[t].lst
  BY TabIs DEF Tab
<1>7. open # {} =>
        /\ s \in Tab /\ s.page = tab[t].page /\ s.due = tab[t].due /\ s.at = tab[t].at
        /\ s.list = tab[t].list /\ s.sts = tab[t].sts /\ s.step = first /\ s.job = None
        /\ s.act = tab[t].act /\ s.lst = tab[t].lst
  BY <1>4, TabIs DEF Tab
<1> HIDE DEF s, n, j
<1>8. CASE tab' = [tab EXCEPT ![t] = n] /\ saved' = saved
  <2>1. tab'[t] = n /\ OthersStay(t)
    BY <1>8, Replaced
  <2> QED  BY <1>1, <1>6, <1>8, <2>1 DEF j
<1>9. CASE /\ open # {} /\ tab[t].page # "workspace" /\ Strays(t) \subseteq odd'
           /\ tab' = [tab EXCEPT ![t] = s] /\ saved' = saved
  <2>1. tab'[t] = s /\ OthersStay(t)
    BY <1>9, Replaced
  <2> QED  BY <1>1, <1>4, <1>7, <1>9, <2>1 DEF j
<1>10. CASE /\ open # {} /\ tab[t].page = "workspace" /\ Strays(t) \subseteq odd'
            /\ tab' = [tab EXCEPT ![t] = Shown(s)] /\ saved' = Remember(s)
  <2>1. tab'[t] = Shown(s) /\ OthersStay(t)
    BY <1>10, Replaced
  <2>2. LET e == Shown(s) IN
          /\ e.page = tab[t].page /\ e.due = tab[t].due /\ e.at = tab[t].at /\ e.list = tab[t].list
          /\ e.sts = tab[t].sts /\ e.step = first /\ e.job = None
          /\ e.act = tab[t].act /\ e.lst = tab[t].lst
          /\ OnStep(s) <=> OnStep(e)
          /\ OnStep(s) => e.shown = subs[AppPlace][first]
    BY <1>7, <1>10, ShownIs DEF OnStep
  <2>3. saved' = IF OnStep(s) THEN [saved EXCEPT ![AppPlace] = first] ELSE saved
    BY <1>7, <1>10 DEF Remember
  <2> QED  BY <1>1, <1>4, <1>10, <2>1, <2>2, <2>3 DEF j
<1> QED  BY <1>5, <1>8, <1>9, <1>10

-----------------------------------------------------------------------------
(* Everything is filed where it was graded.                                *)

\* Steps that touch neither the lists nor what is filed.
LEMMA FileQuiet ==
  ASSUME FileInv, UNCHANGED <<bank, subs, drafts>>, odd \subseteq odd',
         \A u \in Tabs : /\ tab'[u].at = tab[u].at /\ tab'[u].list = tab[u].list
                         /\ tab'[u].job = tab[u].job \/ tab'[u].job = None
  PROVE  FileInv'
<1>1. ListsAgree'
  BY DEF FileInv, ListsAgree, ListAgrees, Begins, Without
<1>2. JobsAgree'
  BY DEF FileInv, JobsAgree, JobAgrees, Without
<1>3. FiledWhereGraded'
  BY DEF FileInv, FiledWhereGraded, Without
<1> QED  BY <1>1, <1>2, <1>3 DEF FileInv

\* At first nothing is on screen and nothing stored.
LEMMA FileInit == Init => FileInv
BY DEF Init, FileInv, ListsAgree, ListAgrees, JobsAgree, JobAgrees, FiledWhereGraded, FreshTab

\* Lists come with their place; drafts and verdicts go where the keys point, which
\* is the tab's place unless the step is recorded as astray or strayed.
LEMMA FileNext == TypeInv /\ FileInv /\ [Next]_vars => FileInv'
<1> SUFFICES ASSUME TypeInv, FileInv, [Next]_vars PROVE FileInv'
  OBVIOUS
<1>0. ListsAgree /\ JobsAgree /\ FiledWhereGraded
  BY DEF FileInv
<1>1. ASSUME NEW t \in Tabs,
             \/ OpenCourse(t) \/ OpenHome(t) \/ SettleLessons(t) \/ MarkTimer(t)
             \/ \E mode \in Modes : SwitchTab(t, mode)
             \/ \E m \in Modules : MarkComplete(t, m) \/ EnterWorkspace(t, m)
      PROVE  FileInv'
  <2>1. /\ OthersStay(t) /\ SameWork(tab[t], tab'[t])
        /\ UNCHANGED <<bank, where, statuses, subs, saved, drafts>> /\ odd \subseteq odd'
    BY <1>1, CourseStep
  <2> QED  BY <2>1, FileQuiet DEF OthersStay, SameWork
<1>2. ASSUME NEW t \in Tabs, EnterTimer(t), tab[t].page = "workspace" PROVE FileInv'
  BY <1>2, EnterTimerStep, FileQuiet DEF OthersStay, SameWork
<1>3. ASSUME NEW t \in Tabs,
             OpenWorkspace(t) \/ (EnterTimer(t) /\ tab[t].page # "workspace")
      PROVE  FileInv'
  <2> DEFINE p == AppPlace' r == tab[t] e == tab'[t]
  <2>1. /\ p \in Place /\ OthersStay(t) /\ e.at = p /\ e.list = bank[p] /\ e.job = r.job
        /\ odd \subseteq odd' /\ (r.job # None /\ r.at # p => "strayed" \in odd')
        /\ UNCHANGED <<bank, subs, drafts>>
    BY <1>3, EnterStep
  <2> HIDE DEF p
  <2>2. ListsAgree'
    BY <1>0, <2>1 DEF ListsAgree, ListAgrees, Begins, Without, OthersStay
  <2>3. JobsAgree'
    <3>1. ASSUME Without({"strayed", "shifted"})', e.job # None
          PROVE  e.job.step \in DOMAIN bank[e.at] /\ e.job.problem = bank[e.at][e.job.step]
                 /\ Len(e.job.list) <= Len(e.list)
      <4>0. Without({"strayed", "shifted"}) /\ Without({"shifted"}) /\ r.at = p /\ p # None
        BY <2>1, <3>1, Consts DEF Without
      <4>1. JobAgrees(r) /\ ListAgrees(r)
        BY <1>0, <4>0 DEF JobsAgree, ListsAgree
      <4>2. r.list \in Seq(Problem) /\ bank[p] \in Seq(Problem) /\ r.job.list \in Seq(Problem)
        BY <2>1, <3>1, TabIs DEF Tab, Job, TypeInv, TypeOK
      <4>3. Len(r.list) <= Len(bank[p])
        BY <4>0, <4>1, <4>2 DEF ListAgrees, Begins
      <4> QED  BY <2>1, <3>1, <4>0, <4>1, <4>2, <4>3 DEF JobAgrees
    <3> QED  BY <1>0, <2>1, <3>1 DEF JobsAgree, JobAgrees, Without, OthersStay
  <2>4. FiledWhereGraded'
    BY <1>0, <2>1 DEF FiledWhereGraded, Without
  <2> QED  BY <2>2, <2>3, <2>4 DEF FileInv
<1>4. ASSUME NEW t \in Tabs, Reload(t) PROVE FileInv'
  <2> DEFINE p == AppPlace e == tab'[t]
  <2>1. /\ p \in Place /\ OthersStay(t) /\ e.job = None
        /\ (e.at = p /\ e.list = bank[p]) \/ (e.at = None /\ e.list = <<>>)
        /\ odd \subseteq odd' /\ UNCHANGED <<bank, subs, drafts>>
    BY <1>4, ReloadStep
  <2> HIDE DEF p
  <2>2. ListsAgree'
    BY <1>0, <2>1 DEF ListsAgree, ListAgrees, Begins, Without, OthersStay
  <2>3. JobsAgree'
    BY <1>0, <2>1 DEF JobsAgree, JobAgrees, Without, OthersStay
  <2>4. FiledWhereGraded'
    BY <1>0, <2>1 DEF FiledWhereGraded, Without
  <2> QED  BY <2>2, <2>3, <2>4 DEF FileInv
<1>5. ASSUME NEW t \in Tabs, SettleWorkspace(t) PROVE FileInv'
  <2>1. /\ OthersStay(t) /\ tab'[t].at = tab[t].at /\ tab'[t].list = tab[t].list
        /\ tab'[t].job = tab[t].job /\ UNCHANGED <<bank, subs, drafts, odd>>
    BY <1>5, SettleStep
  <2> QED  BY <2>1, FileQuiet DEF OthersStay
<1>6. ASSUME NEW t \in Tabs, NEW i \in Step, StepChange(t, i) PROVE FileInv'
  <2>1. /\ OthersStay(t) /\ tab'[t].at = tab[t].at /\ tab'[t].list = tab[t].list
        /\ tab'[t].job = None /\ UNCHANGED <<bank, subs, drafts>> /\ odd \subseteq odd'
    BY <1>6, StepChangeStep
  <2> QED  BY <2>1, FileQuiet DEF OthersStay
<1>7. ASSUME NEW t \in Tabs, TypeDraft(t) PROVE FileInv'
  <2> DEFINE r == tab[t] p == EditorPlace
  <2>1. /\ r.page = "workspace" /\ OnStep(r) /\ p \in Place
        /\ drafts' = [drafts EXCEPT ![p][r.step] = r.list[r.step]]
        /\ odd' = odd \cup (IF p # r.at THEN {"astray"} ELSE {})
        /\ UNCHANGED <<bank, subs, tab>>
    BY <1>7, PlacesAre DEF TypeDraft
  <2>2. r.step \in DOMAIN r.list /\ r.step \in Step /\ r.at # None
    BY <2>1, TabIs, Consts DEF OnStep, TabOK, Tab
  <2>3. drafts \in [Place -> [Step -> Problem \cup {None}]]
    BY DEF TypeInv, TypeOK
  <2>4. ListsAgree' /\ JobsAgree'
    BY <1>0, <2>1 DEF ListsAgree, ListAgrees, Begins, JobsAgree, JobAgrees, Without
  <2>5. FiledWhereGraded'
    <3>1. Without({"astray", "shifted"})' =>
            r.at = p /\ Begins(r.list, p) /\ Without({"astray", "shifted"})
      BY <1>0, <2>1, <2>2 DEF ListsAgree, ListAgrees, Without
    <3>2. Without({"astray", "shifted"})' =>
            \A q \in Place, i \in Step :
              drafts'[q][i] # None => i \in DOMAIN bank[q] /\ drafts'[q][i] = bank[q][i]
      BY <1>0, <2>1, <2>2, <2>3, <3>1 DEF FiledWhereGraded, Begins
    <3>3. Without({"strayed", "shifted"})' => Without({"strayed", "shifted"})
      BY <2>1 DEF Without
    <3> QED  BY <1>0, <2>1, <3>2, <3>3 DEF FiledWhereGraded
  <2> QED  BY <2>4, <2>5 DEF FileInv
<1>8. ASSUME NEW t \in Tabs, Submit(t) PROVE FileInv'
  <2> DEFINE r == tab[t] e == tab'[t]
  <2>1. /\ OthersStay(t) /\ r.page = "workspace" /\ OnStep(r)
        /\ e.at = r.at /\ e.list = r.list
        /\ e.job.problem = r.list[r.step] /\ e.job.step = r.step /\ e.job.list = r.list
        /\ UNCHANGED <<bank, subs, drafts, odd>>
    BY <1>8, SubmitStep
  <2>2. r.step \in DOMAIN r.list /\ r.at # None /\ Len(r.list) \in Nat
    BY <2>1, TabIs, Consts DEF OnStep, TabOK, Tab
  <2>3. ListsAgree'
    BY <1>0, <2>1 DEF ListsAgree, ListAgrees, Begins, Without, OthersStay
  <2>4. JobsAgree'
    <3>1. ASSUME Without({"strayed", "shifted"})'
          PROVE  e.job.step \in DOMAIN bank[e.at] /\ e.job.problem = bank[e.at][e.job.step]
                 /\ Len(e.job.list) <= Len(e.list)
      <4>1. Begins(r.list, r.at)
        BY <1>0, <2>1, <2>2, <3>1 DEF ListsAgree, ListAgrees, Without
      <4> QED  BY <2>1, <2>2, <4>1 DEF Begins
    <3> QED  BY <1>0, <2>1, <3>1 DEF JobsAgree, JobAgrees, Without, OthersStay
  <2>5. FiledWhereGraded'
    BY <1>0, <2>1 DEF FiledWhereGraded, Without
  <2> QED  BY <2>3, <2>4, <2>5 DEF FileInv
<1>9. ASSUME NEW t \in Tabs, LandError(t) PROVE FileInv'
  <2>1. /\ OthersStay(t) /\ tab'[t].at = tab[t].at /\ tab'[t].list = tab[t].list
        /\ tab'[t].job = None /\ UNCHANGED <<bank, subs, drafts, odd>>
    BY <1>9, LandErrorStep
  <2> QED  BY <2>1, FileQuiet DEF OthersStay
<1>10. ASSUME NEW t \in Tabs, NEW v \in {"passed", "failed"}, Land(t, v) PROVE FileInv'
  <2> DEFINE r == tab[t] e == tab'[t] j == tab[t].job p == AppPlace
             new == [problem |-> j.problem, passed |-> v = "passed"]
  <2>1. /\ OthersStay(t) /\ j # None /\ j \in Job /\ p \in Place
        /\ e.at = r.at /\ e.list = r.list
        /\ e.job # None /\ e.job.problem = j.problem /\ e.job.step = j.step /\ e.job.list = j.list
        /\ new \in Attempt /\ subs' = [subs EXCEPT ![p][j.step] = Append(subs[p][j.step], new)]
        /\ odd \cup Strays(t) \subseteq odd'
        /\ UNCHANGED <<bank, drafts>>
    BY <1>10, LandStep
  <2>2. subs \in [Place -> [Step -> Seq(Attempt)]] /\ j.step \in Step /\ new.problem = j.problem
    BY <2>1 DEF TypeInv, TypeOK, Job
  <2> HIDE DEF p, new
  <2>3. ListsAgree'
    BY <1>0, <2>1 DEF ListsAgree, ListAgrees, Begins, Without, OthersStay
  <2>4. JobsAgree'
    BY <1>0, <2>1 DEF JobsAgree, JobAgrees, Without, OthersStay
  <2>5. Without({"strayed", "shifted"})' =>
          /\ Without({"strayed", "shifted"})
          /\ j.step \in DOMAIN bank[p] /\ new.problem = bank[p][j.step]
    BY <1>0, <2>1, <2>2 DEF JobsAgree, JobAgrees, Strays, Without, p
  <2>6. \A q \in Place, i \in Step : \A k \in DOMAIN subs'[q][i] :
          \/ k \in DOMAIN subs[q][i] /\ subs'[q][i][k] = subs[q][i][k]
          \/ q = p /\ i = j.step /\ subs'[q][i][k] = new
    <3> SUFFICES ASSUME NEW q \in Place, NEW i \in Step, NEW k \in DOMAIN subs'[q][i]
                 PROVE  \/ k \in DOMAIN subs[q][i] /\ subs'[q][i][k] = subs[q][i][k]
                        \/ q = p /\ i = j.step /\ subs'[q][i][k] = new
      OBVIOUS
    <3>1. CASE q = p /\ i = j.step
      <4>1. subs[q][i] \in Seq(Attempt) /\ subs'[q][i] = Append(subs[q][i], new)
        BY <2>1, <2>2, <3>1
      <4> QED  BY <2>1, <3>1, <4>1
    <3>2. CASE ~(q = p /\ i = j.step)
      BY <2>1, <2>2, <3>2
    <3> QED  BY <3>1, <3>2
  <2>7. FiledWhereGraded'
    <3>1. Without({"astray", "shifted"})' => Without({"astray", "shifted"})
      BY <2>1 DEF Without
    <3>2. ASSUME Without({"strayed", "shifted"})', NEW q \in Place, NEW i \in Step,
                 NEW k \in DOMAIN subs'[q][i]
          PROVE  i \in DOMAIN bank[q] /\ subs'[q][i][k].problem = bank[q][i]
      BY <1>0, <2>5, <2>6, <3>2 DEF FiledWhereGraded
    <3> QED  BY <1>0, <2>1, <3>1, <3>2 DEF FiledWhereGraded
  <2> QED  BY <2>3, <2>4, <2>7 DEF FileInv
<1>11. ASSUME NEW t \in Tabs, VerdictTimer(t) PROVE FileInv'
  <2>1. /\ OthersStay(t) /\ tab'[t].at = tab[t].at /\ tab'[t].list = tab[t].list
        /\ tab'[t].job = None /\ UNCHANGED <<bank, subs, drafts>> /\ odd \subseteq odd'
    BY <1>11, VerdictStep
  <2> QED  BY <2>1, FileQuiet DEF OthersStay
<1>12. ASSUME NEW p \in Place, NEW q \in Problem, Publish(p, q) PROVE FileInv'
  <2>1. bank \in [Place -> Seq(Problem)] /\ bank' = [bank EXCEPT ![p] = Append(bank[p], q)]
        /\ UNCHANGED <<tab, subs, drafts, odd>>
    BY <1>12 DEF Publish, storage, TypeInv, TypeOK
  <2>2. \A o \in Place : \A i \in DOMAIN bank[o] : i \in DOMAIN bank'[o] /\ bank'[o][i] = bank[o][i]
    BY <2>1
  <2>3. \A t \in Tabs : tab[t].at \in Place \cup {None} /\ (tab[t].job # None => tab[t].at \in Place)
    BY TabIs DEF TabOK, Tab
  <2>4. ListsAgree'
    BY <1>0, <2>1, <2>2, <2>3 DEF ListsAgree, ListAgrees, Begins, Without
  <2>5. JobsAgree'
    BY <1>0, <2>1, <2>2, <2>3 DEF JobsAgree, JobAgrees, Without
  <2>6. FiledWhereGraded'
    BY <1>0, <2>1, <2>2 DEF FiledWhereGraded, Without
  <2> QED  BY <2>4, <2>5, <2>6 DEF FileInv
<1>13. ASSUME NEW p \in Place, NEW i \in Step, Withdraw(p, i) PROVE FileInv'
  <2>1. "shifted" \in odd'
    BY <1>13 DEF Withdraw
  <2> QED  BY <2>1 DEF FileInv, ListsAgree, JobsAgree, FiledWhereGraded, Without
<1>14. CASE UNCHANGED vars
  BY <1>14, FileQuiet DEF vars, storage
<1> QED
  BY <1>1, <1>2, <1>3, <1>4, <1>5, <1>6, <1>7, <1>8, <1>9, <1>10, <1>11, <1>12, <1>13, <1>14 DEF Next

\* For any number of tabs, however entries, timers and late verdicts cross:
\* unless another tab or a timer moved the keys in between, or the list shrank, an
\* attempt and a draft lie under the place and step of the problem they answer
\* (App.jsx:417-441, RightPanel.jsx:56-70).
THEOREM FiledRight == Spec => []FiledWhereGraded
<1>1. Init => TypeInv /\ FileInv
  BY TypeInit, FileInit
<1>2. TypeInv /\ FileInv /\ [Next]_vars => (TypeInv /\ FileInv)'
  BY TypeNext, FileNext
<1>3. FileInv => FiledWhereGraded
  BY DEF FileInv
<1> QED  BY <1>1, <1>2, <1>3, PTL DEF Spec

-----------------------------------------------------------------------------
(* The step on screen is the remembered one.                               *)

\* At first no tab is at work.
LEMMA StepInit == Init => StepInv
<1> SUFFICES ASSUME Init PROVE StepInv
  OBVIOUS
<1>1. \A t \in Tabs : tab[t].page = "home" /\ tab[t].job = None /\ tab[t].due = "none" /\ tab[t].list = <<>>
  BY DEF Init, FreshTab
<1> QED  BY <1>1 DEF StepInv, Single, StepsOnList, StepsSaved, JobsOnStep, Busy

\* A tab with a place has it among the places.
LEMMA BusyPlace ==
  ASSUME TypeInv, NEW t \in Tabs, Busy(t)
  PROVE  tab[t].at \in Place /\ tab[t].step \in Step
BY TabIs DEF Busy, TabOK, Tab

\* A step that enters no workspace and moves no key leaves at most one tab busy.
LEMMA SingleQuiet ==
  ASSUME TypeInv, Single, odd \subseteq odd', NEW t \in Tabs, OthersStay(t),
         Busy(t)' => Busy(t),
         tab'[t].due = "workspace" =>
           tab[t].due = "workspace" /\ tab'[t].at = tab[t].at /\ UNCHANGED where,
         UNCHANGED where \/ Busy(t)
  PROVE  Single'
<1>1. SUFFICES ASSUME Without({"shared"})' PROVE
        /\ \A u, v \in Tabs : Busy(u)' /\ Busy(v)' => u = v
        /\ \A u \in Tabs : tab'[u].due = "workspace" => tab'[u].at = AppPlace'
  BY DEF Single
<1>2. Without({"shared"})
  BY <1>1 DEF Without
<1>3. \A u \in Tabs : Busy(u)' => Busy(u)
  BY DEF Busy, OthersStay
<1>4. ASSUME NEW u \in Tabs, tab'[u].due = "workspace" PROVE tab'[u].at = AppPlace'
  <2>1. tab[u].due = "workspace" /\ tab'[u].at = tab[u].at /\ (u = t => UNCHANGED where)
    BY <1>4 DEF OthersStay
  <2>2. Busy(u)
    BY <2>1, TabIs DEF Busy, TabOK
  <2>3. UNCHANGED where
    BY <1>2, <2>1, <2>2 DEF Single
  <2> QED  BY <1>2, <2>1, <2>3 DEF Single, AppPlace
<1> QED  BY <1>2, <1>3, <1>4 DEF Single

\* A step that leaves the work of every tab as it is.
LEMMA StepQuiet ==
  ASSUME TypeInv, StepInv, Single', UNCHANGED <<bank, saved>>, odd \subseteq odd', NEW t \in Tabs,
         OthersStay(t), Busy(t)' => Busy(t),
         tab[t].due = "workspace" => tab'[t].due = "workspace",
         tab'[t].at = tab[t].at, tab'[t].list = tab[t].list, tab'[t].step = tab[t].step,
         tab'[t].job = None \/ (tab[t].job # None /\ tab'[t].job.step = tab[t].job.step)
  PROVE  StepInv'
<1>0. Single /\ StepsOnList /\ StepsSaved /\ JobsOnStep
  BY DEF StepInv
<1>1. StepsOnList'
  BY <1>0 DEF StepsOnList, OnStep, OthersStay, Without
<1>2. StepsSaved'
  BY <1>0 DEF StepsSaved, OnStep, OthersStay, Without, Busy
<1>3. JobsOnStep'
  BY <1>0 DEF JobsOnStep, OthersStay, Without
<1> QED  BY <1>1, <1>2, <1>3 DEF StepInv

\* Entering stores the former step, but the step entered was read before and is
\* stored again when the effects run; meanwhile no submission loses its step.
LEMMA StepNext == TypeInv /\ FileInv /\ StepInv /\ [Next]_vars => StepInv'
<1> SUFFICES ASSUME TypeInv, FileInv, StepInv, [Next]_vars PROVE StepInv'
  OBVIOUS
<1>0. Single /\ StepsOnList /\ StepsSaved /\ JobsOnStep
  BY DEF StepInv
<1>1. ASSUME NEW t \in Tabs,
             \/ OpenCourse(t) \/ OpenHome(t) \/ SettleLessons(t) \/ MarkTimer(t)
             \/ \E mode \in Modes : SwitchTab(t, mode)
             \/ \E m \in Modules : MarkComplete(t, m) \/ EnterWorkspace(t, m)
      PROVE  StepInv'
  <2>1. /\ OthersStay(t) /\ SameWork(tab[t], tab'[t])
        /\ tab'[t].page = "workspace" => tab[t].page = "workspace"
        /\ tab[t].due # "workspace" /\ tab'[t].due # "workspace"
        /\ UNCHANGED <<bank, where, saved>> /\ odd \subseteq odd'
    BY <1>1, CourseStep
  <2>2. Busy(t)' => Busy(t)
    BY <2>1 DEF SameWork, Busy
  <2>3. Single'
    BY <1>0, <2>1, <2>2, SingleQuiet
  <2> QED  BY <2>1, <2>2, <2>3, StepQuiet DEF SameWork
<1>2. ASSUME NEW t \in Tabs, EnterTimer(t), tab[t].page = "workspace" PROVE StepInv'
  <2>1. /\ OthersStay(t) /\ SameWork(tab[t], tab'[t])
        /\ tab[t].due = "none" /\ tab'[t].due = "none" /\ UNCHANGED <<bank, saved, odd>>
    BY <1>2, EnterTimerStep
  <2>2. Busy(t)
    BY <1>2 DEF Busy
  <2>3. Single'
    BY <1>0, <2>1, <2>2, SingleQuiet
  <2> QED  BY <2>1, <2>2, <2>3, StepQuiet DEF SameWork
<1>3. ASSUME NEW t \in Tabs,
             OpenWorkspace(t) \/ (EnterTimer(t) /\ tab[t].page # "workspace")
      PROVE  StepInv'
  <2> DEFINE p == AppPlace' r == tab[t] e == tab'[t]
  <2>1. /\ p \in Place /\ OthersStay(t) /\ e.page = "workspace" /\ e.at = p /\ e.list = bank[p]
        /\ e.due = "workspace" /\ e.job = r.job
        /\ bank[p] # <<>> => e.step = SafeStep(p)
        /\ saved' = IF OnStep(r) THEN [saved EXCEPT ![p] = r.step] ELSE saved
        /\ odd \subseteq odd' /\ (Without({"shared"})' => Alone(t))
        /\ r.job # None /\ r.at # p => "strayed" \in odd'
        /\ bank' = bank
    BY <1>3, EnterStep DEF Without
  <2>2. ASSUME Without({"shared"})', NEW u \in Tabs \ {t} PROVE ~Busy(u)' /\ tab'[u].due # "workspace"
    BY <2>1, <2>2, TabIs DEF Alone, OthersStay, Busy, TabOK
  <2>3. Single'
    BY <2>1, <2>2 DEF Single
  <2>4. StepsOnList'
    <3>1. e.list # <<>> => e.step \in 1 .. Len(e.list)
      BY <2>1, SafeStepIs
    <3> HIDE DEF e
    <3> QED  BY <1>0, <2>1, <3>1 DEF StepsOnList, OnStep, OthersStay, Without, e
  <2>5. StepsSaved'
    BY <2>1, <2>2 DEF StepsSaved, Without
  <2>6. JobsOnStep'
    <3>1. ASSUME Without({"strayed", "shared", "shifted"})', e.job # None
          PROVE  e.step = e.job.step /\ saved'[e.at] = e.step
      <4>1. r.at = p /\ Without({"strayed", "shared", "shifted"}) /\ Without({"strayed", "shifted"})
        BY <2>1, <3>1 DEF Without
      <4>2. r.step = r.job.step /\ saved[p] = r.step
        BY <1>0, <2>1, <3>1, <4>1 DEF JobsOnStep
      <4>3. r.job.step \in DOMAIN bank[p]
        BY <2>1, <3>1, <4>1 DEF FileInv, JobsAgree, JobAgrees
      <4>4. bank[p] \in Seq(Problem) /\ saved \in [Place -> 0 .. MaxSteps]
        BY <2>1 DEF TypeInv, TypeOK
      <4>5. bank[p] # <<>> /\ SafeStep(p) = r.step
        BY <4>2, <4>3, <4>4 DEF SafeStep
      <4>6. saved'[p] = r.step
        BY <2>1, <4>2, <4>4
      <4> QED  BY <2>1, <4>2, <4>5, <4>6
    <3>2. ASSUME Without({"shared"})', NEW u \in Tabs \ {t} PROVE tab'[u].job = None
      BY <2>2, <3>2 DEF Busy
    <3> QED  BY <3>1, <3>2 DEF JobsOnStep, Without
  <2> QED  BY <2>3, <2>4, <2>5, <2>6 DEF StepInv
<1>4. ASSUME NEW t \in Tabs, Reload(t) PROVE StepInv'
  <2> DEFINE p == AppPlace e == tab'[t]
  <2>1. /\ OthersStay(t) /\ e.page = tab[t].page /\ e.job = None
        /\ e.page # "workspace" => e.list = <<>> /\ e.due # "workspace" /\ saved' = saved
        /\ e.page = "workspace" =>
             /\ e.at = p /\ e.list = bank[p] /\ e.due = "workspace"
             /\ bank[p] # <<>> => e.step = SafeStep(p)
             /\ "shared" \in odd' \/ Alone(t)
        /\ p \in Place /\ UNCHANGED <<bank, where>> /\ odd \subseteq odd'
    BY <1>4, ReloadStep
  <2>2. StepsOnList'
    <3>1. e.list # <<>> => e.step \in 1 .. Len(e.list)
      BY <2>1, SafeStepIs
    <3> HIDE DEF e
    <3> QED  BY <1>0, <2>1, <3>1 DEF StepsOnList, OnStep, OthersStay, Without, e
  <2>3. CASE e.page = "workspace"
    <3>1. ASSUME Without({"shared"})', NEW u \in Tabs \ {t} PROVE ~Busy(u)' /\ tab'[u].due # "workspace"
      BY <2>1, <2>3, <3>1, TabIs DEF Alone, OthersStay, Busy, TabOK, Without
    <3>2. Single'
      BY <2>1, <2>3, <3>1 DEF Single, AppPlace
    <3>3. StepsSaved'
      BY <2>1, <2>3, <3>1 DEF StepsSaved, Without
    <3>4. JobsOnStep'
      BY <2>1, <3>1 DEF JobsOnStep, Without, Busy
    <3> QED  BY <2>2, <3>2, <3>3, <3>4 DEF StepInv
  <2>4. CASE e.page # "workspace"
    <3>1. ~Busy(t)'
      BY <2>1, <2>4 DEF Busy
    <3>2. Single'
      BY <1>0, <2>1, <2>4, <3>1, SingleQuiet
    <3>3. StepsSaved'
      BY <1>0, <2>1, <2>4, <3>1 DEF StepsSaved, Without, Busy, OthersStay, OnStep
    <3>4. JobsOnStep'
      BY <1>0, <2>1, <2>4 DEF JobsOnStep, Without, OthersStay
    <3> QED  BY <2>2, <3>2, <3>3, <3>4 DEF StepInv
  <2> QED  BY <2>3, <2>4
<1>5. ASSUME NEW t \in Tabs, SettleWorkspace(t) PROVE StepInv'
  <2> DEFINE r == tab[t] e == tab'[t]
  <2>1. /\ OthersStay(t) /\ r.due = "workspace" /\ r.page = "workspace"
        /\ e.due = "none" /\ e.at = r.at /\ e.list = r.list /\ e.step = r.step /\ e.job = r.job
        /\ saved' = Remember(r) /\ UNCHANGED <<bank, where, odd>>
    BY <1>5, SettleStep
  <2>2. Busy(t) /\ r.at \in Place
    BY <2>1, BusyPlace DEF Busy
  <2>3. Single'
    BY <1>0, <2>1, <2>2, SingleQuiet
  <2>4. StepsOnList'
    BY <1>0, <2>1 DEF StepsOnList, OnStep, OthersStay, Without
  <2>5. Without({"shared"}) => r.at = AppPlace
    BY <1>0, <2>1 DEF Single
  <2>6. saved' = IF OnStep(r) THEN [saved EXCEPT ![AppPlace] = r.step] ELSE saved
    BY <2>1 DEF Remember
  <2>7. ASSUME Without({"shared"}), NEW u \in Tabs \ {t} PROVE ~Busy(u)
    BY <1>0, <2>2, <2>7 DEF Single
  <2>8. saved \in [Place -> 0 .. MaxSteps]
    BY DEF TypeInv, TypeOK
  <2>9. StepsSaved'
    BY <2>1, <2>2, <2>5, <2>6, <2>7, <2>8 DEF StepsSaved, Without, OnStep, Busy, OthersStay
  <2>10. JobsOnStep'
    BY <1>0, <2>1, <2>2, <2>5, <2>6, <2>7, <2>8 DEF JobsOnStep, Without, Busy, OthersStay
  <2> QED  BY <2>3, <2>4, <2>9, <2>10 DEF StepInv
<1>6. ASSUME NEW t \in Tabs, NEW i \in Step, StepChange(t, i) PROVE StepInv'
  <2> DEFINE r == tab[t] e == tab'[t] p == AppPlace
  <2>1. /\ OthersStay(t) /\ r.page = "workspace" /\ i <= Len(r.list)
        /\ e.due = "none" /\ e.at = r.at /\ e.list = r.list /\ e.job = None /\ e.step = i
        /\ p \in Place /\ saved' = [saved EXCEPT ![p] = i] /\ odd' = odd \cup Strays(t)
        /\ UNCHANGED <<bank, where>>
    BY <1>6, StepChangeStep
  <2>2. Busy(t) /\ r.at \in Place
    BY <2>1, BusyPlace DEF Busy
  <2>3. Single'
    BY <1>0, <2>1, <2>2, SingleQuiet
  <2>4. StepsOnList'
    BY <1>0, <2>1 DEF StepsOnList, OnStep, OthersStay, Without
  <2>5. Without({"strayed"})' => r.at = p
    BY <2>1 DEF Strays, Without
  <2>6. ASSUME Without({"shared"})', NEW u \in Tabs \ {t} PROVE ~Busy(u)
    BY <1>0, <2>1, <2>2, <2>6 DEF Single, Without
  <2>7. saved \in [Place -> 0 .. MaxSteps]
    BY DEF TypeInv, TypeOK
  <2>8. StepsSaved'
    BY <2>1, <2>2, <2>5, <2>6, <2>7 DEF StepsSaved, Without, Busy, OthersStay
  <2>9. JobsOnStep'
    BY <2>1, <2>6 DEF JobsOnStep, Without, Busy, OthersStay
  <2> QED  BY <2>3, <2>4, <2>8, <2>9 DEF StepInv
<1>7. ASSUME NEW t \in Tabs, Submit(t) PROVE StepInv'
  <2> DEFINE r == tab[t] e == tab'[t]
  <2>1. /\ OthersStay(t) /\ r.page = "workspace" /\ r.due = "none" /\ OnStep(r)
        /\ e.due = "none" /\ e.at = r.at /\ e.list = r.list /\ e.step = r.step
        /\ e.job # None /\ e.job.step = r.step /\ UNCHANGED <<bank, where, saved, odd>>
    BY <1>7, SubmitStep
  <2>2. Busy(t)
    BY <2>1 DEF Busy
  <2>3. Single'
    BY <1>0, <2>1, <2>2, SingleQuiet
  <2>4. StepsOnList'
    BY <1>0, <2>1 DEF StepsOnList, OnStep, OthersStay, Without
  <2>5. StepsSaved'
    BY <1>0, <2>1, <2>2 DEF StepsSaved, OnStep, OthersStay, Without, Busy
  <2>6. JobsOnStep'
    BY <1>0, <2>1, <2>2 DEF StepsSaved, JobsOnStep, Without, OthersStay
  <2> QED  BY <2>3, <2>4, <2>5, <2>6 DEF StepInv
<1>8. ASSUME NEW t \in Tabs,
             LandError(t) \/ \E v \in {"passed", "failed"} : Land(t, v)
      PROVE  StepInv'
  <2> DEFINE r == tab[t] e == tab'[t]
  <2>1. /\ OthersStay(t) /\ e.due = r.due /\ e.at = r.at /\ e.list = r.list /\ e.step = r.step
        /\ r.job # None /\ (e.job = None \/ e.job.step = r.job.step)
        /\ UNCHANGED <<bank, where, saved>> /\ odd \subseteq odd'
    BY <1>8, LandErrorStep, LandStep
  <2>2. Busy(t)
    BY <2>1 DEF Busy
  <2>3. Single'
    BY <1>0, <2>1, <2>2, SingleQuiet
  <2> QED  BY <2>1, <2>2, <2>3, StepQuiet
<1>9. ASSUME NEW t \in Tabs, VerdictTimer(t) PROVE StepInv'
  <2> DEFINE r == tab[t] e == tab'[t] p == AppPlace j == tab[t].job
  <2>1. /\ OthersStay(t) /\ j # None /\ p \in Place
        /\ e.page = r.page /\ e.due = r.due /\ e.at = r.at /\ e.list = r.list /\ e.job = None
        /\ odd \subseteq odd' /\ UNCHANGED <<bank, where>>
        /\ \/ e.step = r.step /\ saved' = saved
           \/ /\ e.step \in 1 .. Len(j.list) /\ Strays(t) \subseteq odd'
              /\ IF r.page = "workspace"
                   THEN saved' = IF OnStep(e) THEN [saved EXCEPT ![p] = e.step] ELSE saved
                   ELSE saved' = saved
    BY <1>9, VerdictStep
  <2>2. Busy(t) /\ r.at \in Place
    BY <2>1, BusyPlace DEF Busy
  <2>3. Single'
    BY <1>0, <2>1, <2>2, SingleQuiet
  <2>4. CASE e.step = r.step /\ saved' = saved
    BY <2>1, <2>2, <2>3, <2>4, StepQuiet
  <2>5. CASE /\ e.step \in 1 .. Len(j.list) /\ Strays(t) \subseteq odd'
             /\ IF r.page = "workspace"
                  THEN saved' = IF OnStep(e) THEN [saved EXCEPT ![p] = e.step] ELSE saved
                  ELSE saved' = saved
    <3>1. StepsOnList'
      <4>1. Without({"strayed", "shifted"})' => Len(j.list) <= Len(r.list)
        BY <2>1 DEF FileInv, JobsAgree, JobAgrees, Without
      <4>2. Len(j.list) \in Nat /\ Len(r.list) \in Nat
        BY <2>1, TabIs DEF Tab, Job
      <4>3. Without({"strayed", "shifted"})' => OnStep(e)
        BY <2>1, <2>5, <4>1, <4>2 DEF OnStep
      <4> QED  BY <1>0, <2>1, <4>3 DEF StepsOnList, OnStep, OthersStay, Without
    <3>2. Without({"strayed"})' => r.at = p
      BY <2>5 DEF Strays, Without
    <3>3. ASSUME Without({"shared"})', NEW u \in Tabs \ {t} PROVE ~Busy(u)
      BY <1>0, <2>1, <2>2, <3>3 DEF Single, Without
    <3>4. saved \in [Place -> 0 .. MaxSteps]
      BY DEF TypeInv, TypeOK
    <3>5. StepsSaved'
      BY <2>1, <2>2, <2>5, <3>2, <3>3, <3>4 DEF StepsSaved, Without, Busy, OthersStay, OnStep
    <3>6. JobsOnStep'
      BY <2>1, <3>3 DEF JobsOnStep, Without, Busy, OthersStay
    <3> QED  BY <2>3, <3>1, <3>5, <3>6 DEF StepInv
  <2> QED  BY <2>1, <2>4, <2>5
<1>10. CASE \/ \E p \in Place : \E q \in Problem : Publish(p, q)
            \/ \E p \in Place : \E i \in Step : Withdraw(p, i)
            \/ \E t \in Tabs : TypeDraft(t)
            \/ UNCHANGED vars
  <2>1. UNCHANGED <<where, saved, tab>> /\ odd \subseteq odd'
    BY <1>10 DEF Publish, Withdraw, TypeDraft, vars, storage
  <2>2. Single'
    BY <1>0, <2>1 DEF Single, Busy, AppPlace, Without
  <2>3. StepsOnList' /\ StepsSaved' /\ JobsOnStep'
    BY <1>0, <2>1 DEF StepsOnList, StepsSaved, JobsOnStep, Busy, OnStep, Without
  <2> QED  BY <2>2, <2>3 DEF StepInv
<1> QED
  BY <1>1, <1>2, <1>3, <1>4, <1>5, <1>6, <1>7, <1>8, <1>9, <1>10 DEF Next

\* For any number of tabs: with one workspace open, and no submission carried to
\* another place, the step on screen is the one the place remembers, whichever
\* entries, reloads and verdicts lie between (App.jsx:347-441).
THEOREM StepsResumed == Spec => []StepResumed
<1>1. Init => TypeInv /\ FileInv /\ StepInv
  BY TypeInit, FileInit, StepInit
<1>2. TypeInv /\ FileInv /\ StepInv /\ [Next]_vars => (TypeInv /\ FileInv /\ StepInv)'
  BY TypeNext, FileNext, StepNext
<1>3. StepInv => StepResumed
  BY DEF StepInv, StepsOnList, StepsSaved, StepResumed, Busy, Without
<1> QED  BY <1>1, <1>2, <1>3, PTL DEF Spec

-----------------------------------------------------------------------------
(* A status is what the latest attempt says.                               *)

\* At first no step has an attempt.
LEMMA StatusInit == Init => StatusInv
<1> SUFFICES ASSUME Init PROVE StatusInv
  OBVIOUS
<1>1. \A t \in Tabs : tab[t].page = "home" /\ tab[t].job = None
  BY DEF Init, FreshTab
<1>2. \A p \in Place, i \in Step : statuses[p][i] = "none" /\ subs[p][i] = <<>>
  BY DEF Init, Blank
<1>3. StoredRight
  <2>1. StatusOf(<<>>) = {"none", "skipped"}
    BY DEF StatusOf
  <2> QED  BY <1>2, <2>1 DEF StoredRight
<1>4. \A t \in Tabs : TabRight(t)
  BY <1>1 DEF TabRight, Busy
<1> QED  BY <1>3, <1>4 DEF StatusInv

\* A step of one tab, alone at work, leaves the others right.
LEMMA OthersRight ==
  ASSUME StatusInv, Without({"strayed", "shared"})', odd \subseteq odd', NEW t \in Tabs, OthersStay(t),
         TabRight(t)', NEW u \in Tabs,
         UNCHANGED <<statuses, subs>> \/ (u # t => ~Busy(u))
  PROVE  TabRight(u)'
<1>1. CASE u = t
  BY <1>1
<1>2. CASE u # t
  <2>1. tab'[u] = tab[u] /\ TabRight(u) /\ (Without({"shifted"})' => Without({"shifted"}))
    BY <1>2 DEF OthersStay, StatusInv, Without
  <2> QED  BY <1>2, <2>1 DEF TabRight, Busy, OnStep
<1> QED  BY <1>1, <1>2

\* A tab alone at work holds the statuses it writes back; passes are not skipped.
LEMMA StatusNext ==
  TypeInv /\ FileInv /\ StepInv /\ StatusInv /\ [Next]_vars => StatusInv'
<1> SUFFICES ASSUME TypeInv, FileInv, StepInv, StatusInv, [Next]_vars,
                    Without({"strayed", "shared"})'
             PROVE  StoredRight' /\ \A t \in Tabs : TabRight(t)'
  BY DEF StatusInv
<1>0. odd \subseteq odd' => Without({"strayed", "shared"}) /\ StoredRight /\ \A t \in Tabs : TabRight(t)
  BY DEF StatusInv, Without
<1>s. ASSUME NEW t \in Tabs, Busy(t), odd \subseteq odd', NEW u \in Tabs, u # t
      PROVE  ~Busy(u)
  BY <1>s DEF StepInv, Single, Without
<1>1. ASSUME NEW t \in Tabs,
             \/ OpenCourse(t) \/ OpenHome(t) \/ SettleLessons(t) \/ MarkTimer(t)
             \/ \E mode \in Modes : SwitchTab(t, mode)
             \/ \E m \in Modules : MarkComplete(t, m) \/ EnterWorkspace(t, m)
      PROVE  StoredRight' /\ \A u \in Tabs : TabRight(u)'
  <2>1. /\ OthersStay(t) /\ SameWork(tab[t], tab'[t])
        /\ tab'[t].page = "workspace" => tab[t].page = "workspace" /\ tab'[t].due = tab[t].due
        /\ UNCHANGED <<bank, statuses, subs>> /\ odd \subseteq odd'
    BY <1>1, CourseStep
  <2>2. TabRight(t)'
    BY <1>0, <2>1 DEF TabRight, Busy, SameWork, OnStep, Without
  <2> QED  BY <1>0, <2>1, <2>2, OthersRight DEF StoredRight
<1>2. ASSUME NEW t \in Tabs, EnterTimer(t), tab[t].page = "workspace"
      PROVE  StoredRight' /\ \A u \in Tabs : TabRight(u)'
  <2>1. /\ OthersStay(t) /\ SameWork(tab[t], tab'[t]) /\ tab[t].due = "none"
        /\ UNCHANGED <<bank, statuses, subs, odd>>
    BY <1>2, EnterTimerStep
  <2>2. TabRight(t)'
    BY <1>0, <1>2, <2>1 DEF TabRight, Busy, SameWork, OnStep, Without
  <2> QED  BY <1>0, <2>1, <2>2, OthersRight DEF StoredRight
<1>3. ASSUME NEW t \in Tabs,
             OpenWorkspace(t) \/ (EnterTimer(t) /\ tab[t].page # "workspace")
      PROVE  StoredRight' /\ \A u \in Tabs : TabRight(u)'
  <2> DEFINE p == AppPlace' r == tab[t] e == tab'[t]
  <2>1. /\ OthersStay(t) /\ e.at = p /\ e.sts = statuses[p] /\ e.due = "workspace" /\ e.job = r.job
        /\ odd \subseteq odd' /\ (r.job # None /\ r.at # p => "strayed" \in odd')
        /\ UNCHANGED <<bank, statuses, subs>>
    BY <1>3, EnterStep
  <2> HIDE DEF p
  <2>2. r.job # None => r.at = p /\ r.sts = statuses[p]
    BY <1>0, <2>1 DEF Without, TabRight, Busy
  <2>3. TabRight(t)'
    BY <1>0, <2>1, <2>2 DEF TabRight
  <2> QED  BY <1>0, <2>1, <2>3, OthersRight DEF StoredRight
<1>4. ASSUME NEW t \in Tabs, Reload(t) PROVE StoredRight' /\ \A u \in Tabs : TabRight(u)'
  <2> DEFINE p == AppPlace e == tab'[t]
  <2>1. /\ OthersStay(t) /\ e.job = None
        /\ e.page = "workspace" => e.at = p /\ e.sts = statuses[p] /\ e.due = "workspace"
        /\ odd \subseteq odd' /\ UNCHANGED <<bank, statuses, subs>>
    BY <1>4, ReloadStep
  <2>2. TabRight(t)'
    BY <2>1 DEF TabRight, Busy
  <2> QED  BY <1>0, <2>1, <2>2, OthersRight DEF StoredRight
<1>5. ASSUME NEW t \in Tabs, SettleWorkspace(t) PROVE StoredRight' /\ \A u \in Tabs : TabRight(u)'
  <2> DEFINE r == tab[t] e == tab'[t]
  <2>1. /\ OthersStay(t) /\ r.due = "workspace" /\ r.page = "workspace"
        /\ e.at = r.at /\ e.list = r.list /\ e.step = r.step /\ e.sts = r.sts /\ e.job = r.job
        /\ OnStep(r) => e.shown = subs[AppPlace][r.step]
        /\ UNCHANGED <<bank, statuses, subs, odd>>
    BY <1>5, SettleStep
  <2>2. r.at = AppPlace
    BY <2>1 DEF StepInv, Single, Without
  <2>3. TabRight(t)'
    BY <1>0, <2>1, <2>2 DEF TabRight, Busy, OnStep
  <2> QED  BY <1>0, <2>1, <2>3, OthersRight DEF StoredRight
<1>6. ASSUME NEW t \in Tabs, NEW i \in Step, StepChange(t, i)
      PROVE  StoredRight' /\ \A u \in Tabs : TabRight(u)'
  <2> DEFINE r == tab[t] e == tab'[t] p == AppPlace
  <2>1. /\ OthersStay(t) /\ r.page = "workspace"
        /\ e.at = r.at /\ e.job = None /\ e.step = i /\ e.shown = subs[p][i] /\ p \in Place
        /\ \/ e.sts = r.sts /\ statuses' = statuses
           \/ /\ r.sts[r.step] # "passed" /\ e.sts = [r.sts EXCEPT ![r.step] = "skipped"]
              /\ statuses' = [statuses EXCEPT ![p] = e.sts]
        /\ odd' = odd \cup Strays(t) /\ UNCHANGED <<bank, subs>>
    BY <1>6, StepChangeStep
  <2>2. Busy(t) /\ r.at = p /\ r.step \in Step
    BY <2>1, BusyPlace DEF Busy, Strays, Without
  <2>3. r.sts = statuses[p]
    BY <1>0, <2>1, <2>2 DEF TabRight
  <2>4. statuses \in [Place -> [Step -> Status]]
    BY DEF TypeInv, TypeOK
  <2>5. TabRight(t)'
    BY <2>1, <2>2, <2>3, <2>4 DEF TabRight
  <2>6. StoredRight'
    <3> SUFFICES ASSUME NEW q \in Place, NEW k \in Step PROVE statuses'[q][k] \in StatusOf(subs'[q][k])
      BY DEF StoredRight
    <3>1. statuses[q][k] \in StatusOf(subs[q][k])
      BY <1>0, <2>1 DEF StoredRight
    <3>2. \/ statuses'[q][k] = statuses[q][k]
          \/ statuses[q][k] # "passed" /\ statuses'[q][k] = "skipped"
      BY <2>1, <2>2, <2>3, <2>4
    <3> QED  BY <2>1, <3>1, <3>2 DEF StatusOf
  <2> QED  BY <1>0, <1>s, <2>1, <2>2, <2>5, <2>6, OthersRight
<1>7. ASSUME NEW t \in Tabs, Submit(t) PROVE StoredRight' /\ \A u \in Tabs : TabRight(u)'
  <2> DEFINE r == tab[t] e == tab'[t]
  <2>1. /\ OthersStay(t) /\ r.page = "workspace" /\ r.due = "none" /\ ~Locked(r, r.step)
        /\ e.at = r.at /\ e.list = r.list /\ e.step = r.step /\ e.sts = r.sts /\ e.shown = r.shown
        /\ e.job.step = r.step /\ UNCHANGED <<bank, statuses, subs, odd>>
    BY <1>7, SubmitStep
  <2>2. Busy(t) /\ r.at \in Place
    BY <2>1, BusyPlace DEF Busy
  <2>3. r.at # None
    BY <2>2, Consts
  <2>4. TabRight(t)'
    BY <1>0, <2>1, <2>2, <2>3 DEF TabRight, OnStep, Locked, Without
  <2> QED  BY <1>0, <2>1, <2>4, OthersRight DEF StoredRight
<1>8. ASSUME NEW t \in Tabs, LandError(t) PROVE StoredRight' /\ \A u \in Tabs : TabRight(u)'
  <2> DEFINE r == tab[t] e == tab'[t]
  <2>1. /\ OthersStay(t) /\ e.page = r.page /\ e.due = r.due /\ e.at = r.at /\ e.list = r.list
        /\ e.step = r.step /\ e.sts = r.sts /\ e.shown = r.shown /\ r.job # None /\ e.job = None
        /\ UNCHANGED <<bank, statuses, subs, odd>>
    BY <1>8, LandErrorStep
  <2>2. TabRight(t)'
    BY <1>0, <2>1 DEF TabRight, OnStep, Busy, Without
  <2> QED  BY <1>0, <2>1, <2>2, OthersRight DEF StoredRight
<1>9. ASSUME NEW t \in Tabs, NEW v \in {"passed", "failed"}, Land(t, v)
      PROVE  StoredRight' /\ \A u \in Tabs : TabRight(u)'
  <2> DEFINE r == tab[t] e == tab'[t] p == AppPlace j == tab[t].job
             new == [problem |-> j.problem, passed |-> v = "passed"]
  <2>1. /\ OthersStay(t) /\ j # None /\ j \in Job /\ p \in Place
        /\ e.at = r.at /\ e.list = r.list /\ e.step = r.step
        /\ e.sts = [r.sts EXCEPT ![j.step] = v] /\ e.job.verdict = v
        /\ statuses' = [statuses EXCEPT ![p] = e.sts]
        /\ new \in Attempt /\ subs' = [subs EXCEPT ![p][j.step] = Append(subs[p][j.step], new)]
        /\ e.shown = subs'[p][j.step]
        /\ odd \cup Strays(t) \subseteq odd' /\ bank' = bank
    BY <1>9, LandStep
  <2>2. Busy(t) /\ r.at = p /\ j.step \in Step
    BY <2>1 DEF Busy, Strays, Without, Job
  <2>3. r.sts = statuses[p]
    BY <1>0, <2>1, <2>2 DEF TabRight
  <2>4. /\ statuses \in [Place -> [Step -> Status]] /\ subs \in [Place -> [Step -> Seq(Attempt)]]
        /\ new.passed = (v = "passed")
    BY DEF TypeInv, TypeOK
  <2>5. Without({"shifted"})' => r.step = j.step
    BY <2>1 DEF StepInv, JobsOnStep, Without
  <2> HIDE DEF new
  <2>6. TabRight(t)'
    BY <2>1, <2>2, <2>3, <2>4, <2>5 DEF TabRight
  <2>7. StoredRight'
    <3> SUFFICES ASSUME NEW q \in Place, NEW k \in Step PROVE statuses'[q][k] \in StatusOf(subs'[q][k])
      BY DEF StoredRight
    <3>1. CASE q = p /\ k = j.step
      <4>1. statuses'[q][k] = v
        BY <2>1, <2>2, <2>3, <2>4, <3>1
      <4>2. subs'[q][k] = Append(subs[q][k], new) /\ subs[q][k] \in Seq(Attempt)
        BY <2>1, <2>2, <2>4, <3>1
      <4>3. subs'[q][k] # <<>> /\ Last(subs'[q][k]) = new
        BY <2>1, <4>2, LastAppended
      <4> QED  BY <2>4, <4>1, <4>3 DEF StatusOf, LastPassed
    <3>2. CASE ~(q = p /\ k = j.step)
      BY <1>0, <2>1, <2>2, <2>3, <2>4, <3>2 DEF StoredRight
    <3> QED  BY <3>1, <3>2
  <2> QED  BY <1>0, <1>s, <2>1, <2>2, <2>6, <2>7, OthersRight
<1>10. ASSUME NEW t \in Tabs, VerdictTimer(t) PROVE StoredRight' /\ \A u \in Tabs : TabRight(u)'
  <2> DEFINE r == tab[t] e == tab'[t] p == AppPlace
  <2>1. /\ OthersStay(t) /\ r.job # None
        /\ e.page = r.page /\ e.due = r.due /\ e.at = r.at /\ e.list = r.list
        /\ e.sts = r.sts /\ e.job = None
        /\ \/ e.step = r.step /\ e.shown = r.shown
           \/ Strays(t) \subseteq odd' /\ (r.page = "workspace" /\ OnStep(e) => e.shown = subs[p][e.step])
        /\ odd \subseteq odd' /\ UNCHANGED <<bank, statuses, subs>>
    BY <1>10, VerdictStep
  <2>2. TabRight(t)'
    <3>1. CASE e.step = r.step /\ e.shown = r.shown
      BY <1>0, <2>1, <3>1 DEF TabRight, OnStep, Busy, Without
    <3>2. CASE Strays(t) \subseteq odd' /\ (r.page = "workspace" /\ OnStep(e) => e.shown = subs[p][e.step])
      <4>1. r.at = p
        BY <3>2 DEF Strays, Without
      <4> QED  BY <1>0, <2>1, <3>2, <4>1 DEF TabRight, OnStep, Busy
    <3> QED  BY <2>1, <3>1, <3>2
  <2> QED  BY <1>0, <2>1, <2>2, OthersRight DEF StoredRight
<1>11. CASE \/ \E p \in Place : \E q \in Problem : Publish(p, q)
            \/ \E p \in Place : \E i \in Step : Withdraw(p, i)
            \/ \E t \in Tabs : TypeDraft(t)
            \/ UNCHANGED vars
  <2>1. UNCHANGED <<statuses, subs, tab>> /\ odd \subseteq odd'
    BY <1>11 DEF Publish, Withdraw, TypeDraft, vars, storage
  <2> QED  BY <1>0, <2>1 DEF StoredRight, TabRight, Busy, OnStep, Without
<1> QED
  BY <1>1, <1>2, <1>3, <1>4, <1>5, <1>6, <1>7, <1>8, <1>9, <1>10, <1>11 DEF Next

\* For any number of tabs: with one workspace open, and no submission carried to
\* another place, a stored status is the verdict of the latest attempt, and a tab
\* that has come to rest shows what is stored (App.jsx:424-441, 516-570).
THEOREM StatusLatest == Spec => []StatusIsLatest
<1>1. Init => TypeInv /\ FileInv /\ StepInv /\ StatusInv
  BY TypeInit, FileInit, StepInit, StatusInit
<1>2. TypeInv /\ FileInv /\ StepInv /\ StatusInv /\ [Next]_vars =>
        (TypeInv /\ FileInv /\ StepInv /\ StatusInv)'
  BY TypeNext, FileNext, StepNext, StatusNext
<1>3. StatusInv => StatusIsLatest
  <2> SUFFICES ASSUME StatusInv, Without({"strayed", "shared"}) PROVE StatusIsLatest
    BY DEF StatusIsLatest
  <2>1. ASSUME NEW a
        PROVE  StatusOf(a) = CASE a = <<>>      -> {"none", "skipped"}
                               [] LastPassed(a) -> {"passed"}
                               [] OTHER         -> {"failed", "skipped"}
    <3>1. CASE a = <<>>
      <4>1. ~LastPassed(a)
        BY <3>1 DEF LastPassed
      <4> QED  BY <3>1, <4>1 DEF StatusOf
    <3>2. CASE a # <<>> /\ LastPassed(a)
      BY <3>2 DEF StatusOf
    <3>3. CASE a # <<>> /\ ~LastPassed(a)
      BY <3>3 DEF StatusOf
    <3> QED  BY <3>1, <3>2, <3>3
  <2>2. StoredRight /\ \A t \in Tabs : TabRight(t)
    BY DEF StatusInv
  <2> QED  BY <2>1, <2>2 DEF StoredRight, TabRight, StatusIsLatest, Busy
<1> QED  BY <1>1, <1>2, <1>3, PTL DEF Spec

-----------------------------------------------------------------------------
(* Nothing that was earned is lost.                                        *)

\* What is stored of a list.
Kept(l, mode) == IF l[mode] = None THEN {} ELSE l[mode]
\* A tab that has yet to store the list it restored.
Mends(f, mode, t) == f[t].due = "lessons" /\ f[t].act = mode
\* What the pages show of a list, as a function of the tabs and the storage.
Shows(f, l, mode) ==
  IF {t \in Tabs : Mends(f, mode, t)} = {} THEN Kept(l, mode)
  ELSE UNION {f[t].lst : t \in {u \in Tabs : Mends(f, mode, u)}}

\* Shows is what LessonsKept speaks of.
LEMMA ShownOnPage ==
  ASSUME NEW mode \in Modes
  PROVE  OnPage(mode) = Shows(tab, lessons, mode) /\ OnPage(mode)' = Shows(tab', lessons', mode)
BY DEF OnPage, Shows, Kept, Mends

\* When nobody mends a list, it is the stored one.
LEMMA ShowsKept ==
  ASSUME NEW f, NEW l, NEW mode, \A t \in Tabs : ~Mends(f, mode, t)
  PROVE  Shows(f, l, mode) = Kept(l, mode)
BY DEF Shows

\* When one tab mends it, it is that tab's.
LEMMA ShowsMended ==
  ASSUME NEW f, NEW l, NEW mode, NEW t \in Tabs, Mends(f, mode, t),
         \A u \in Tabs \ {t} : ~Mends(f, mode, u)
  PROVE  Shows(f, l, mode) = f[t].lst
<1>1. {u \in Tabs : Mends(f, mode, u)} = {t}
  OBVIOUS
<1> QED  BY <1>1 DEF Shows

\* A list depends on its own key and its own menders only.
LEMMA ShowsSame ==
  ASSUME NEW f, NEW g, NEW k, NEW l, NEW mode, k[mode] = l[mode],
         \A t \in Tabs : Mends(f, mode, t) <=> Mends(g, mode, t),
         \A t \in Tabs : Mends(f, mode, t) => f[t].lst = g[t].lst
  PROVE  Shows(f, k, mode) = Shows(g, l, mode)
<1>1. {t \in Tabs : Mends(f, mode, t)} = {t \in Tabs : Mends(g, mode, t)}
  OBVIOUS
<1>2. {f[t].lst : t \in {u \in Tabs : Mends(f, mode, u)}} = {g[t].lst : t \in {u \in Tabs : Mends(g, mode, u)}}
  BY <1>1
<1> QED  BY <1>1, <1>2 DEF Shows, Kept

\* Restoring a list keeps what is stored.
LEMMA LessonsAre ==
  ASSUME TypeInv, NEW mode \in Modes
  PROVE  Kept(lessons, mode) \in SUBSET Modules /\ Kept(lessons, mode) \subseteq Restored(mode)
<1>1. lessons[mode] \in (SUBSET Modules) \cup {None}
  BY DEF TypeInv, TypeOK
<1> QED  BY <1>1 DEF Kept, Restored

\* Steps that do not touch the list of a course page; a lesson may be marked in a
\* list that no page shows.
LEMMA LessonQuiet ==
  ASSUME TypeInv, TypeInv', LessonsRight,
         \A u \in Tabs :
           IF tab'[u].page = "coursetext"
             THEN /\ tab[u].page = "coursetext" /\ tab'[u].due = tab[u].due
                  /\ tab'[u].act = tab[u].act /\ tab'[u].lst = tab[u].lst
             ELSE tab[u].due # "lessons",
         \A mode \in Modes :
           \/ lessons'[mode] = lessons[mode]
           \/ /\ \A u \in Tabs : ~(tab[u].page = "coursetext" /\ tab[u].act = mode)
              /\ Kept(lessons, mode) \subseteq Kept(lessons', mode)
  PROVE  LessonsRight' /\ LessonsKept
<1>1. \A u \in Tabs : /\ tab[u].due = "lessons" => tab[u].page = "coursetext"
                      /\ tab'[u].due = "lessons" => tab'[u].page = "coursetext"
                      /\ tab[u].act \in Modes
  BY TabIs DEF TypeInv, TabOK, Tab
<1>2. LessonsRight'
  BY <1>1 DEF LessonsRight
<1>3. ASSUME NEW mode \in Modes PROVE OnPage(mode) \subseteq OnPage(mode)'
  <2>1. \A u \in Tabs : /\ Mends(tab, mode, u) <=> Mends(tab', mode, u)
                        /\ Mends(tab, mode, u) => tab[u].lst = tab'[u].lst
    BY <1>1 DEF Mends
  <2>2. CASE lessons'[mode] = lessons[mode]
    BY <2>1, <2>2, ShowsSame, ShownOnPage
  <2>3. CASE /\ \A u \in Tabs : ~(tab[u].page = "coursetext" /\ tab[u].act = mode)
             /\ Kept(lessons, mode) \subseteq Kept(lessons', mode)
    <3>1. \A u \in Tabs : ~Mends(tab, mode, u) /\ ~Mends(tab', mode, u)
      BY <1>1, <2>1, <2>3 DEF Mends
    <3> QED  BY <2>3, <3>1, ShowsKept, ShownOnPage
  <2> QED  BY <2>2, <2>3
<1> QED  BY <1>2, <1>3 DEF LessonsKept

\* A page that restores a list: nobody mends that list, and if the step stores
\* something under it, no other page shows it.
LEMMA LessonRestored ==
  ASSUME TypeInv, LessonsRight, NEW t \in Tabs, NEW mode \in Modes, OthersStay(t),
         tab[t].due = "none",
         tab'[t].page = "coursetext", tab'[t].due = "lessons",
         tab'[t].act = mode, tab'[t].lst = Restored(mode),
         ~Mended(t, mode),
         \A m \in Modes \ {mode} : lessons'[m] = lessons[m],
         lessons' = lessons \/ ~Overlaps(t, mode)
  PROVE  LessonsRight' /\ LessonsKept
<1>1. \A u \in Tabs \ {t} : tab'[u] = tab[u] /\ ~Mends(tab, mode, u)
  BY DEF OthersStay, Mended, Mends
<1>2. \A u \in Tabs : tab[u].act \in Modes
  BY TabIs DEF Tab
<1>3. LessonsRight'
  BY <1>1, <1>2 DEF LessonsRight, Mends, Overlaps
<1>4. OnPage(mode) \subseteq OnPage(mode)'
  <2>1. Shows(tab, lessons, mode) = Kept(lessons, mode)
    <3>1. ~Mends(tab, mode, t)
      BY DEF Mends
    <3> QED  BY <1>1, <3>1, ShowsKept
  <2>2. Shows(tab', lessons', mode) = Restored(mode)
    <3>1. Mends(tab', mode, t) /\ \A u \in Tabs \ {t} : ~Mends(tab', mode, u)
      BY <1>1 DEF Mends
    <3> QED  BY <3>1, ShowsMended
  <2> QED  BY <2>1, <2>2, LessonsAre, ShownOnPage
<1>5. ASSUME NEW m \in Modes, m # mode PROVE OnPage(m) \subseteq OnPage(m)'
  <2>1. \A u \in Tabs : /\ Mends(tab, m, u) <=> Mends(tab', m, u)
                        /\ Mends(tab, m, u) => tab[u].lst = tab'[u].lst
    BY <1>1, <1>5 DEF Mends
  <2> QED  BY <1>5, <2>1, ShowsSame, ShownOnPage
<1> QED  BY <1>3, <1>4, <1>5 DEF LessonsKept

\* A page that stores its list, and a list that another page shows only when it
\* is stored as it was.
LEMMA LessonStored ==
  ASSUME TypeInv, LessonsRight, NEW t \in Tabs, NEW l \in SUBSET Modules, OthersStay(t),
         tab[t].page = "coursetext",
         tab[t].due \in {"none", "lessons"}, tab[t].due = "lessons" \/ ~Overlaps(t, tab[t].act),
         tab'[t].page = "coursetext", tab'[t].due = "none",
         tab'[t].act = tab[t].act, tab'[t].lst = l, tab[t].lst \subseteq l,
         lessons' = [lessons EXCEPT ![tab[t].act] = l],
         lessons[tab[t].act] = l \/ ~Overlaps(t, tab[t].act)
  PROVE  LessonsRight' /\ LessonsKept
<1> DEFINE mode == tab[t].act
<1>0. mode \in Modes /\ lessons \in [Modes -> (SUBSET Modules) \cup {None}] /\ l # None
  BY TabIs, WorkspaceAssumption DEF Tab, TypeInv, TypeOK
<1>1. /\ lessons'[mode] = l /\ \A m \in Modes \ {mode} : lessons'[m] = lessons[m]
      /\ \A u \in Tabs \ {t} : tab'[u] = tab[u]
      /\ \A u \in Tabs : tab[u].act \in Modes /\ (tab[u].due = "lessons" => tab[u].page = "coursetext")
  BY <1>0, TabIs DEF OthersStay, Tab, TabOK
<1>2. \A u \in Tabs \ {t} : ~Mends(tab, mode, u)
  BY <1>1 DEF LessonsRight, Mends, Overlaps
<1>3. LessonsRight'
  BY <1>1, <1>2 DEF LessonsRight, Mends, Overlaps
<1>4. OnPage(mode) \subseteq OnPage(mode)'
  <2>1. Shows(tab, lessons, mode) \subseteq tab[t].lst
    <3>1. CASE tab[t].due = "lessons"
      BY <1>2, <3>1, ShowsMended DEF Mends
    <3>2. CASE tab[t].due = "none"
      <4>1. Shows(tab, lessons, mode) = Kept(lessons, mode)
        BY <1>2, <3>2, ShowsKept DEF Mends
      <4> QED  BY <3>2, <4>1 DEF LessonsRight, Kept
    <3> QED  BY <3>1, <3>2
  <2>2. Shows(tab', lessons', mode) = l
    <3>1. \A u \in Tabs : ~Mends(tab', mode, u)
      BY <1>1, <1>2 DEF Mends
    <3>2. Shows(tab', lessons', mode) = Kept(lessons', mode)
      BY <3>1, ShowsKept, Zenon
    <3> QED  BY <1>0, <1>1, <3>2 DEF Kept
  <2> QED  BY <1>0, <2>1, <2>2, ShownOnPage
<1>5. ASSUME NEW m \in Modes, m # mode PROVE OnPage(m) \subseteq OnPage(m)'
  <2>1. \A u \in Tabs : /\ Mends(tab, m, u) <=> Mends(tab', m, u)
                        /\ Mends(tab, m, u) => tab[u].lst = tab'[u].lst
    BY <1>1, <1>5 DEF Mends
  <2>2. lessons[m] = lessons'[m]
    BY <1>1, <1>5
  <2>3. Shows(tab, lessons, m) = Shows(tab', lessons', m)
    BY ONLY <2>1, <2>2, ShowsSame
  <2> QED  BY <1>5, <2>3, ShownOnPage, Zenon
<1> QED  BY <1>3, <1>4, <1>5 DEF LessonsKept

\* Every step keeps the lists that pages show and what they show of them.
LEMMA LessonNext ==
  ASSUME TypeInv, TypeInv', LessonInv, [Next]_vars, Without({"crossed", "cut"})'
  PROVE  LessonsRight' /\ LessonsKept
<1>0. odd \subseteq odd' => LessonsRight
  BY DEF LessonInv, Without
<1>1. ASSUME NEW t \in Tabs, OpenCourse(t) PROVE LessonsRight' /\ LessonsKept
  <2> DEFINE s == [tab[t] EXCEPT !.page = "coursetext", !.act = activeTab,
                                  !.lst = Restored(activeTab), !.due = "lessons"]
  <2>1. /\ tab' = [tab EXCEPT ![t] = s] /\ tab[t].due = "none" /\ lessons' = lessons
        /\ odd \subseteq odd' /\ ~Mended(t, activeTab)
    BY <1>1 DEF OpenCourse, Moves, Crossing, Without, storage
  <2>2. s.page = "coursetext" /\ s.due = "lessons" /\ s.act = activeTab /\ s.lst = Restored(activeTab)
    BY TabIs DEF Tab
  <2> HIDE DEF s
  <2>3. tab'[t] = s /\ OthersStay(t) /\ activeTab \in Modes
    BY <2>1, Replaced DEF TypeInv, TypeOK
  <2> QED  BY <1>0, <2>1, <2>2, <2>3, LessonRestored
<1>2. ASSUME NEW t \in Tabs, NEW mode \in Modes, SwitchTab(t, mode) PROVE LessonsRight' /\ LessonsKept
  <2> DEFINE s == [tab[t] EXCEPT !.act = mode, !.lst = Restored(mode), !.due = "lessons"]
  <2>1. /\ tab' = [tab EXCEPT ![t] = s] /\ tab[t].due = "none" /\ tab[t].page = "coursetext"
        /\ lessons' = [lessons EXCEPT ![mode] = tab[t].lst]
        /\ odd \subseteq odd' /\ ~Mended(t, mode) /\ ~Overlaps(t, mode)
    BY <1>2 DEF SwitchTab, Clicks, Moves, Crossing, Without
  <2>2. s.page = tab[t].page /\ s.due = "lessons" /\ s.act = mode /\ s.lst = Restored(mode)
    BY TabIs DEF Tab
  <2> HIDE DEF s
  <2>3. /\ tab'[t] = s /\ OthersStay(t)
        /\ \A m \in Modes \ {mode} : lessons'[m] = lessons[m]
    BY <2>1, Replaced DEF TypeInv, TypeOK
  <2> QED  BY <1>0, <2>1, <2>2, <2>3, LessonRestored
<1>3. ASSUME NEW t \in Tabs, SettleLessons(t) PROVE LessonsRight' /\ LessonsKept
  <2> DEFINE s == [tab[t] EXCEPT !.due = "none"]
             l == tab[t].lst
  <2>1. /\ tab' = [tab EXCEPT ![t] = s] /\ tab[t].due = "lessons" /\ tab[t].page = "coursetext"
        /\ lessons' = [lessons EXCEPT ![tab[t].act] = l]
        /\ odd \subseteq odd' /\ (lessons[tab[t].act] = l \/ ~Overlaps(t, tab[t].act))
    BY <1>3, TabIs DEF SettleLessons, Crossing, Without, TabOK
  <2>2. s.page = tab[t].page /\ s.due = "none" /\ s.act = tab[t].act /\ s.lst = l /\ l \in SUBSET Modules
    BY TabIs DEF Tab
  <2> HIDE DEF s
  <2>3. tab'[t] = s /\ OthersStay(t)
    BY <2>1, Replaced
  <2> QED  BY <1>0, <2>1, <2>2, <2>3, LessonStored
<1>4. ASSUME NEW t \in Tabs, MarkTimer(t) PROVE LessonsRight' /\ LessonsKept
  <2> DEFINE l == tab[t].lst \cup {tab[t].mark}
             s == [tab[t] EXCEPT !.mark = None, !.lst = l]
  <2>1. /\ tab' = [tab EXCEPT ![t] = s] /\ tab[t].due = "none" /\ tab[t].mark # None
        /\ lessons' = [lessons EXCEPT ![tab[t].act] = l]
        /\ odd \subseteq odd' /\ ~Overlaps(t, tab[t].act)
    BY <1>4 DEF MarkTimer, Without
  <2>2. /\ s.page = tab[t].page /\ s.due = tab[t].due /\ s.act = tab[t].act /\ s.lst = l
        /\ tab[t].page = "coursetext" /\ l \in SUBSET Modules /\ tab[t].lst \subseteq l
    BY <2>1, TabIs DEF TabOK, Tab
  <2> HIDE DEF s, l
  <2>3. tab'[t] = s /\ OthersStay(t)
    BY <2>1, Replaced
  <2> QED  BY <1>0, <2>1, <2>2, <2>3, LessonStored
<1>quiet. ASSUME NEW t \in Tabs, OthersStay(t), odd \subseteq odd', UNCHANGED lessons,
                 IF tab'[t].page = "coursetext"
                   THEN /\ tab[t].page = "coursetext" /\ tab'[t].due = tab[t].due
                        /\ tab'[t].act = tab[t].act /\ tab'[t].lst = tab[t].lst
                   ELSE tab[t].due # "lessons"
          PROVE  LessonsRight' /\ LessonsKept
  <2>1. \A u \in Tabs : tab[u].due = "lessons" => tab[u].page = "coursetext"
    BY TabIs DEF TabOK
  <2> QED  BY <1>0, <1>quiet, <2>1, LessonQuiet DEF OthersStay
<1>5. ASSUME NEW t \in Tabs, OpenHome(t) PROVE LessonsRight' /\ LessonsKept
  <2> DEFINE l == Left(tab[t], "home")
             s == [l EXCEPT !.page = "home"]
  <2>1. tab' = [tab EXCEPT ![t] = s] /\ tab[t].due = "none" /\ lessons' = lessons /\ odd' = odd
    BY <1>5 DEF OpenHome, Moves, storage
  <2>2. l \in Tab
    BY TabIs DEF Left, Tab
  <2> HIDE DEF l
  <2>3. s.page = "home"
    BY <2>2 DEF Tab
  <2> HIDE DEF s
  <2>4. tab'[t] = s /\ OthersStay(t)
    BY <2>1, Replaced
  <2> QED  BY <1>quiet, <2>1, <2>3, <2>4
<1>6. ASSUME NEW t \in Tabs, NEW m \in Modules, MarkComplete(t, m) \/ EnterWorkspace(t, m)
      PROVE  LessonsRight' /\ LessonsKept
  <2>1. PICK s : /\ tab' = [tab EXCEPT ![t] = s]
                 /\ s \in {[tab[t] EXCEPT !.mark = m],
                          [tab[t] EXCEPT !.enter = [mode |-> tab[t].act, module |-> m]]}
    BY <1>6 DEF MarkComplete, EnterWorkspace
  <2>2. s.page = tab[t].page /\ s.due = tab[t].due /\ s.act = tab[t].act /\ s.lst = tab[t].lst
    BY <2>1, TabIs DEF Tab
  <2>3. tab'[t] = s /\ OthersStay(t)
    BY <2>1, Replaced
  <2>4. tab[t].page = "coursetext" /\ UNCHANGED <<lessons, odd>>
    BY <1>6 DEF MarkComplete, EnterWorkspace, storage
  <2> QED  BY <1>quiet, <2>2, <2>3, <2>4
<1>7. ASSUME NEW t \in Tabs, OpenWorkspace(t) \/ EnterTimer(t) PROVE LessonsRight' /\ LessonsKept
  <2>1. CASE OpenWorkspace(t) \/ tab[t].page # "workspace"
    BY <1>7, <1>quiet, <2>1, EnterStep
  <2>2. CASE EnterTimer(t) /\ tab[t].page = "workspace"
    BY <1>7, <1>quiet, <2>2, EnterTimerStep
  <2> QED  BY <1>7, <2>1, <2>2
<1>8. ASSUME NEW t \in Tabs, Reload(t) PROVE LessonsRight' /\ LessonsKept
  <2> DEFINE e == tab'[t]
  <2>1. /\ OthersStay(t) /\ e.page = tab[t].page /\ tab[t].due = "none"
        /\ e.page = "coursetext" =>
             /\ e.due = "lessons" /\ e.act = activeTab /\ e.lst = Restored(activeTab)
             /\ ~Mended(t, activeTab)
        /\ lessons' = lessons /\ odd \subseteq odd' /\ activeTab \in Modes
    BY <1>8, ReloadStep DEF Without, TypeInv, TypeOK
  <2>2. CASE e.page = "coursetext"
    BY <1>0, <2>1, <2>2, LessonRestored
  <2>3. CASE e.page # "coursetext"
    BY <1>quiet, <2>1, <2>3
  <2> QED  BY <2>2, <2>3
<1>9. ASSUME NEW t \in Tabs,
             \/ SettleWorkspace(t) \/ Submit(t) \/ LandError(t) \/ VerdictTimer(t)
             \/ \E i \in Step : StepChange(t, i)
      PROVE  LessonsRight' /\ LessonsKept
  <2>1. CASE SettleWorkspace(t)
    BY <1>quiet, <2>1, SettleStep
  <2>2. CASE Submit(t)
    BY <1>quiet, <2>2, SubmitStep
  <2>3. CASE LandError(t) \/ VerdictTimer(t)
    <3>1. tab[t].due = "lessons" => tab[t].page = "coursetext"
      BY TabIs DEF TabOK
    <3> QED  BY <1>quiet, <2>3, <3>1, LandErrorStep, VerdictStep
  <2>4. CASE \E i \in Step : StepChange(t, i)
    <3>1. /\ OthersStay(t) /\ tab'[t].page = "workspace" /\ tab[t].due = "none"
          /\ lessons' = lessons /\ odd \subseteq odd'
      BY <2>4, StepChangeStep
    <3> QED  BY <1>quiet, <3>1
  <2> QED  BY <1>9, <2>1, <2>2, <2>3, <2>4
<1>10. ASSUME NEW t \in Tabs, NEW v \in {"passed", "failed"}, Land(t, v) PROVE LessonsRight' /\ LessonsKept
  <2> DEFINE r == tab[t] e == tab'[t] p == AppPlace
  <2>0. "crossed" \notin odd'
    BY DEF Without
  <2>1. /\ OthersStay(t) /\ p \in Place /\ e.page = r.page /\ e.due = r.due /\ e.act = r.act /\ e.lst = r.lst
        /\ lessons' = CompletedBy(p, e.sts, v)
        /\ lessons' # lessons => \A u \in Tabs : ~(tab[u].page = "coursetext" /\ tab[u].act = p.mode)
        /\ odd \subseteq odd'
    BY <1>10, <2>0, LandStep
  <2> HIDE DEF p
  <2>2. \/ lessons' = lessons
        \/ lessons' = [lessons EXCEPT ![p.mode] = Marked(lessons[p.mode], p.module)]
    BY <2>1 DEF CompletedBy
  <2>3. lessons \in [Modes -> (SUBSET Modules) \cup {None}] /\ p.mode \in Modes
    BY <2>1 DEF TypeInv, TypeOK, Place
  <2>4. ASSUME NEW mode \in Modes
        PROVE  \/ lessons'[mode] = lessons[mode]
               \/ /\ \A u \in Tabs : ~(tab[u].page = "coursetext" /\ tab[u].act = mode)
                  /\ Kept(lessons, mode) \subseteq Kept(lessons', mode)
    <3>1. CASE mode = p.mode /\ lessons' # lessons
      <4>1. lessons'[mode] = Marked(lessons[mode], p.module)
        BY <2>2, <2>3, <3>1
      <4>2. lessons[mode] # None => lessons'[mode] = lessons[mode] \cup {p.module}
        BY <4>1 DEF Marked
      <4>3. lessons'[mode] # None \/ lessons[mode] = None
        <5>1. p.module \in Modules /\ lessons[mode] \in (SUBSET Modules) \cup {None}
          BY <2>1, <2>3 DEF Place
        <5> QED  BY <4>2, <5>1, WorkspaceAssumption
      <4> QED  BY <2>1, <3>1, <4>2, <4>3 DEF Kept
    <3>2. CASE mode # p.mode \/ lessons' = lessons
      BY <2>2, <2>3, <3>2
    <3> QED  BY <3>1, <3>2
  <2>5. \A u \in Tabs : tab[u].due = "lessons" => tab[u].page = "coursetext"
    BY TabIs DEF TabOK
  <2> QED  BY <1>0, <2>1, <2>4, <2>5, LessonQuiet DEF OthersStay
<1>11. CASE \/ \E p \in Place : \E q \in Problem : Publish(p, q)
            \/ \E p \in Place : \E i \in Step : Withdraw(p, i)
            \/ \E t \in Tabs : TypeDraft(t)
            \/ UNCHANGED vars
  <2>1. UNCHANGED <<lessons, tab>> /\ odd \subseteq odd'
    BY <1>11 DEF Publish, Withdraw, TypeDraft, vars, storage
  <2>2. \A u \in Tabs : tab[u].due = "lessons" => tab[u].page = "coursetext"
    BY TabIs DEF TabOK
  <2> QED  BY <1>0, <2>1, <2>2, LessonQuiet
<1> QED
  BY <1>1, <1>2, <1>3, <1>4, <1>5, <1>6, <1>7, <1>8, <1>9, <1>10, <1>11 DEF Next

\* At first no course page is open.
LEMMA LessonInit == Init => LessonInv
<1>1. Init => \A t \in Tabs : tab[t].page = "home"
  BY DEF Init, FreshTab
<1> QED  BY <1>1 DEF LessonInv, LessonsRight

\* Only a verdict changes what is stored of the attempts.
LEMMA OnlyVerdicts ==
  ASSUME TypeInv, [Next]_vars,
         ~\E t \in Tabs, v \in {"passed", "failed"} : Land(t, v)
  PROVE  subs' = subs
<1>1. ASSUME NEW t \in Tabs,
             \/ OpenCourse(t) \/ OpenHome(t) \/ SettleLessons(t) \/ MarkTimer(t)
             \/ \E mode \in Modes : SwitchTab(t, mode)
             \/ \E m \in Modules : MarkComplete(t, m) \/ EnterWorkspace(t, m)
      PROVE  subs' = subs
  BY <1>1, CourseStep
<1>2. ASSUME NEW t \in Tabs, OpenWorkspace(t) \/ EnterTimer(t) PROVE subs' = subs
  BY <1>2, EnterStep, EnterTimerStep
<1>3. ASSUME NEW t \in Tabs,
             \/ Reload(t) \/ SettleWorkspace(t) \/ TypeDraft(t) \/ Submit(t) \/ LandError(t) \/ VerdictTimer(t)
             \/ \E i \in Step : StepChange(t, i)
      PROVE  subs' = subs
  BY <1>3 DEF Reload, SettleWorkspace, TypeDraft, Submit, LandError, VerdictTimer, StepChange, storage
<1>4. CASE \/ \E p \in Place : \E q \in Problem : Publish(p, q)
           \/ \E p \in Place : \E i \in Step : Withdraw(p, i)
           \/ UNCHANGED vars
  BY <1>4 DEF Publish, Withdraw, vars, storage
<1> QED  BY <1>1, <1>2, <1>3, <1>4 DEF Next

\* A verdict appends to one step's attempts.
LEMMA AttemptsNext == ASSUME TypeInv, [Next]_vars PROVE AttemptsKept
<1>1. CASE subs' = subs
  BY <1>1 DEF AttemptsKept
<1>2. ASSUME NEW t \in Tabs, NEW v \in {"passed", "failed"}, Land(t, v) PROVE AttemptsKept
  <2> DEFINE p == AppPlace k == tab[t].job.step
             new == [problem |-> tab[t].job.problem, passed |-> v = "passed"]
  <2>0. /\ p \in Place /\ tab[t].job \in Job /\ new \in Attempt
        /\ subs' = [subs EXCEPT ![p][k] = Append(subs[p][k], new)]
    BY <1>2, LandStep
  <2>1. k \in Step
    BY <2>0 DEF Job
  <2>2. subs \in [Place -> [Step -> Seq(Attempt)]]
    BY DEF TypeInv, TypeOK
  <2> HIDE DEF p, k, new
  <2>3. subs'[p][k] = Append(subs[p][k], new)
    BY <2>0, <2>1, <2>2
  <2>4. \A q \in Place, i \in Step : <<q, i>> # <<p, k>> => subs'[q][i] = subs[q][i]
    BY <2>0, <2>1, <2>2
  <2> QED  BY <2>0, <2>1, <2>3, <2>4 DEF AttemptsKept
<1> QED  BY <1>1, <1>2, OnlyVerdicts

\* A crossing once noted stays noted.
LEMMA OddGrows == ASSUME TypeInv, [Next]_vars PROVE odd \subseteq odd'
<1>1. ASSUME NEW t \in Tabs,
             \/ OpenCourse(t) \/ OpenHome(t) \/ SettleLessons(t) \/ MarkTimer(t)
             \/ \E mode \in Modes : SwitchTab(t, mode)
             \/ \E m \in Modules : MarkComplete(t, m) \/ EnterWorkspace(t, m)
      PROVE  odd \subseteq odd'
  BY <1>1, CourseStep
<1>2. ASSUME NEW t \in Tabs, OpenWorkspace(t) \/ EnterTimer(t) PROVE odd \subseteq odd'
  BY <1>2, EnterStep, EnterTimerStep
<1>3. ASSUME NEW t \in Tabs,
             \/ Reload(t) \/ SettleWorkspace(t) \/ TypeDraft(t) \/ Submit(t) \/ LandError(t) \/ VerdictTimer(t)
             \/ \E i \in Step : StepChange(t, i)
             \/ \E v \in {"passed", "failed"} : Land(t, v)
      PROVE  odd \subseteq odd'
  BY <1>3 DEF Reload, SettleWorkspace, TypeDraft, Submit, LandError, VerdictTimer, StepChange, Land
<1>4. CASE \/ \E p \in Place : \E q \in Problem : Publish(p, q)
           \/ \E p \in Place : \E i \in Step : Withdraw(p, i)
           \/ UNCHANGED vars
  BY <1>4 DEF Publish, Withdraw, vars
<1> QED  BY <1>1, <1>2, <1>3, <1>4 DEF Next

\* A list of problems changes only by an instructor's edit, which is counted.
LEMMA OnlyEdits ==
  ASSUME [Next]_vars, Without({"shifted"})'
  PROVE  \/ UNCHANGED <<bank, edits>>
         \/ \E p \in Place, q \in Problem :
              bank' = [bank EXCEPT ![p] = Append(bank[p], q)] /\ edits' = edits + 1
<1>1. ASSUME NEW p \in Place, NEW q \in Problem, Publish(p, q)
      PROVE  bank' = [bank EXCEPT ![p] = Append(bank[p], q)] /\ edits' = edits + 1
  BY <1>1 DEF Publish
<1>2. ASSUME NEW p \in Place, NEW i \in Step, Withdraw(p, i) PROVE FALSE
  BY <1>2 DEF Withdraw, Without
<1>3. ASSUME NEW t \in Tabs,
             \/ OpenCourse(t) \/ OpenHome(t) \/ SettleLessons(t) \/ MarkTimer(t)
             \/ \E mode \in Modes : SwitchTab(t, mode)
             \/ \E m \in Modules : MarkComplete(t, m) \/ EnterWorkspace(t, m)
      PROVE  UNCHANGED <<bank, edits>>
  BY <1>3 DEF OpenCourse, OpenHome, SettleLessons, MarkTimer, SwitchTab, MarkComplete, EnterWorkspace
<1>4. ASSUME NEW t \in Tabs,
             \/ OpenWorkspace(t) \/ EnterTimer(t) \/ Reload(t) \/ SettleWorkspace(t)
             \/ TypeDraft(t) \/ Submit(t) \/ LandError(t) \/ VerdictTimer(t)
             \/ \E i \in Step : StepChange(t, i)
             \/ \E v \in {"passed", "failed"} : Land(t, v)
      PROVE  UNCHANGED <<bank, edits>>
  BY <1>4 DEF OpenWorkspace, EnterTimer, Reload, SettleWorkspace, TypeDraft, Submit, LandError,
              VerdictTimer, StepChange, Land
<1>5. CASE UNCHANGED vars
  BY <1>5 DEF vars
<1> QED  BY <1>1, <1>2, <1>3, <1>4, <1>5 DEF Next

\* A place's list grows by at most the edits made.
LEMMA ListGrows ==
  ASSUME TypeInv, [Next]_vars, Without({"shifted"})', NEW p \in Place
  PROVE  /\ Len(bank[p]) \in Nat /\ Len(bank'[p]) \in Nat /\ edits \in Nat /\ edits' \in Nat
         /\ Len(bank[p]) <= Len(bank'[p]) /\ edits <= edits'
         /\ Len(bank'[p]) + edits <= Len(bank[p]) + edits'
<1>1. bank \in [Place -> Seq(Problem)] /\ edits \in Nat
  BY Consts DEF TypeInv, TypeOK
<1>2. CASE UNCHANGED <<bank, edits>>
  BY <1>1, <1>2
<1>3. ASSUME NEW r \in Place, NEW q \in Problem,
             bank' = [bank EXCEPT ![r] = Append(bank[r], q)] /\ edits' = edits + 1
      PROVE  /\ Len(bank[p]) \in Nat /\ Len(bank'[p]) \in Nat /\ edits \in Nat /\ edits' \in Nat
             /\ Len(bank[p]) <= Len(bank'[p]) /\ edits <= edits'
             /\ Len(bank'[p]) + edits <= Len(bank[p]) + edits'
  <2>1. bank[p] \in Seq(Problem) /\ Len(bank[p]) \in Nat /\ Len(Append(bank[p], q)) = Len(bank[p]) + 1
    BY <1>1
  <2>2. bank'[p] = bank[p] \/ bank'[p] = Append(bank[p], q)
    BY <1>1, <1>3
  <2>3. Len(bank'[p]) = Len(bank[p]) \/ Len(bank'[p]) = Len(bank[p]) + 1
    BY <2>1, <2>2
  <2> QED  BY <1>1, <1>3, <2>1, <2>3
<1> QED  BY <1>2, <1>3, OnlyEdits

\* The problems answered right, among those that a place lists.
Answered(p) == {i \in 1 .. Len(bank[p]) : LastPassed(subs[p][i])}

\* In an exam, a verdict is never for a problem already answered right.
LEMMA ScoreNext ==
  ASSUME TypeInv, FileInv, StepInv, StatusInv, [Next]_vars, Without({"shared", "strayed", "shifted"})'
  PROVE  ScoreStands
<1> SUFFICES ASSUME NEW p \in Place, p.mode = "EXAM" PROVE Score(p)' >= Score(p)
  BY DEF ScoreStands
<1>0. /\ bank \in [Place -> Seq(Problem)] /\ \A q \in Place : Len(bank[q]) <= MaxSteps
      /\ subs \in [Place -> [Step -> Seq(Attempt)]]
  BY DEF TypeInv, TypeOK
<1>1. Len(bank[p]) \in Nat /\ Len(bank'[p]) \in Nat /\ Len(bank[p]) <= Len(bank'[p]) /\ Len(bank[p]) <= MaxSteps
  BY <1>0, ListGrows DEF Without
<1>2. Answered(p) \subseteq Answered(p)'
  <2>1. CASE subs' = subs
    BY <1>1, <2>1 DEF Answered
  <2>2. ASSUME NEW t \in Tabs, NEW v \in {"passed", "failed"}, Land(t, v)
        PROVE  Answered(p) \subseteq Answered(p)'
    <3> DEFINE j == tab[t].job q == AppPlace
               new == [problem |-> j.problem, passed |-> v = "passed"]
    <3>1. /\ j # None /\ j \in Job /\ j.verdict = "verifying" /\ q \in Place /\ new \in Attempt
          /\ subs' = [subs EXCEPT ![q][j.step] = Append(subs[q][j.step], new)]
          /\ odd \cup Strays(t) \subseteq odd'
      BY <2>2, LandStep
    <3>2. tab[t].at = q /\ Busy(t) /\ j.step \in Step /\ StoredRight /\ TabRight(t)
      BY <3>1 DEF Strays, Without, Busy, Job, StatusInv
    <3> HIDE DEF q, new
    <3>3. q = p => ~LastPassed(subs[p][j.step])
      <4> SUFFICES ASSUME q = p, LastPassed(subs[p][j.step]) PROVE FALSE
        OBVIOUS
      <4>1. statuses[p][j.step] # "passed"
        BY <3>1, <3>2 DEF TabRight
      <4>2. statuses[p][j.step] \in {"passed"}
        BY <3>2 DEF StoredRight, StatusOf, LastPassed
      <4> QED  BY <4>1, <4>2
    <3>4. ASSUME NEW i \in Answered(p) PROVE i \in Answered(p)'
      <4>1. i \in 1 .. Len(bank'[p]) /\ i \in Step /\ LastPassed(subs[p][i])
        BY <1>1, Consts DEF Answered
      <4>2. subs'[p][i] = subs[p][i]
        BY <1>0, <3>1, <3>2, <3>3, <4>1
      <4> QED  BY <4>1, <4>2 DEF Answered
    <3> QED  BY <3>4
  <2> QED  BY <2>1, <2>2, OnlyVerdicts
<1>3. Score(p) = Cardinality(Answered(p)) /\ Score(p)' = Cardinality(Answered(p)')
  BY DEF Score, Answered
<1>4. IsFiniteSet(Answered(p)')
  <2>1. IsFiniteSet(1 .. Len(bank'[p]))
    BY <1>1, FS_Interval
  <2>2. Answered(p)' \subseteq 1 .. Len(bank'[p])
    BY DEF Answered
  <2> QED  BY <2>1, <2>2, FS_Subset
<1>5. Cardinality(Answered(p)) <= Cardinality(Answered(p)')
  BY <1>2, <1>4, FS_Subset
<1>6. Cardinality(Answered(p)) \in Nat /\ Cardinality(Answered(p)') \in Nat
  BY <1>2, <1>4, FS_Subset, FS_CardinalityType
<1> QED  BY <1>3, <1>5, <1>6

\* For any number of tabs: a step never loses a stored attempt; unless two
\* workspaces, or two pages of one list, crossed, it lowers no exam's score and
\* takes no completed lesson away (App.jsx:516-570, CourseText.jsx:124-172).
THEOREM NothingIsLost == Spec => NothingLost
<1> DEFINE All == TypeInv /\ FileInv /\ StepInv /\ StatusInv /\ LessonInv
           Keeps == /\ AttemptsKept
                    /\ odd' \cap {"shared", "strayed", "shifted"} = {} => ScoreStands
                    /\ odd' \cap {"crossed", "cut"} = {} => LessonsKept
<1>1. Init => All
  BY TypeInit, FileInit, StepInit, StatusInit, LessonInit
<1>2. All /\ [Next]_vars => All'
  BY TypeNext, FileNext, StepNext, StatusNext, LessonNext DEF LessonInv
<1>3. All /\ [Next]_vars => Keeps
  <2> SUFFICES ASSUME All, [Next]_vars PROVE Keeps
    OBVIOUS
  <2>1. AttemptsKept
    BY AttemptsNext
  <2>2. ASSUME odd' \cap {"shared", "strayed", "shifted"} = {} PROVE ScoreStands
    BY <2>2, ScoreNext DEF Without
  <2>3. ASSUME odd' \cap {"crossed", "cut"} = {} PROVE LessonsKept
    BY <1>2, <2>3, LessonNext DEF Without
  <2> QED  BY <2>1, <2>2, <2>3
<1>4. Keeps => [Keeps]_vars
  OBVIOUS
<1> HIDE DEF All
<1>5. Spec => [][Keeps]_vars
  BY <1>1, <1>2, <1>3, <1>4, PTL DEF Spec
<1> QED  BY <1>5 DEF NothingLost
-----------------------------------------------------------------------------
(* A lab is completed only by passing its problems.                        *)

\* The place of a module's lab, and whether all its problems are passed.
Lab(m) == [mode |-> "ASSIGNMENT", module |-> m]
Done(m) == AllPassed(Lab(m), statuses[Lab(m)])

\* The problems with a right answer among their attempts.
Earned(s, p) == {i \in Step : \E k \in DOMAIN s[p][i] : s[p][i][k].passed}

\* A status says passed, in storage or in a tab at work, only of a problem once
\* answered right.
Stored(sts, s) == \A p \in Place : PassedSteps(sts[p]) \subseteq Earned(s, p)
Copied(r, s)   ==
  r.page = "workspace" \/ r.job # None => PassedSteps(r.sts) \subseteq Earned(s, r.at)
PassInv ==
  Without({"strayed"}) => Stored(statuses, subs) /\ \A t \in Tabs : Copied(tab[t], subs)

\* A module's lab is a place.
LEMMA LabIs == \A m \in Modules : Lab(m) \in Place
BY DEF Lab, Place, Modes

\* The lessons that pages show are modules.
LEMMA OnPageIs ==
  ASSUME TypeInv', NEW mode \in Modes
  PROVE  OnPage(mode)' \subseteq Modules
<1>1. \A t \in Tabs : tab'[t].lst \subseteq Modules
  BY DEF TypeInv, TypeOK, Tab
<1>2. Kept(lessons', mode) \subseteq Modules
  <2>1. lessons'[mode] \in (SUBSET Modules) \cup {None}
    BY DEF TypeInv, TypeOK
  <2> QED  BY <2>1 DEF Kept
<1> QED  BY <1>1, <1>2, ShownOnPage DEF Shows

\* What was answered right stays so.
LEMMA EarnedGrows ==
  ASSUME TypeInv, [Next]_vars, NEW p \in Place
  PROVE  Earned(subs, p) \subseteq Earned(subs', p)
<1>1. ASSUME NEW i \in Step, NEW k \in DOMAIN subs[p][i], subs[p][i][k].passed
      PROVE  k \in DOMAIN subs'[p][i] /\ subs'[p][i][k].passed
  <2>1. subs'[p][i] = subs[p][i] \/ \E a \in Attempt : subs'[p][i] = Append(subs[p][i], a)
    BY AttemptsNext DEF AttemptsKept
  <2>2. subs[p][i] \in Seq(Attempt)
    BY DEF TypeInv, TypeOK
  <2> QED  BY <1>1, <2>1, <2>2
<1> QED  BY <1>1 DEF Earned

\* Every step keeps the statuses earned.
LEMMA PassNext ==
  TypeInv /\ PassInv /\ [Next]_vars => PassInv'
<1> SUFFICES ASSUME TypeInv, PassInv, [Next]_vars, Without({"strayed"})'
             PROVE  Stored(statuses', subs') /\ \A u \in Tabs : Copied(tab'[u], subs')
  BY DEF PassInv
<1>0. odd \subseteq odd' => Stored(statuses, subs) /\ \A t \in Tabs : Copied(tab[t], subs)
  BY DEF PassInv, Without
<1>g. \A p \in Place : Earned(subs, p) \subseteq Earned(subs', p)
  BY EarnedGrows
<1>p. ASSUME NEW t \in Tabs, Busy(t) PROVE tab[t].at \in Place
  BY <1>p, BusyPlace DEF Busy
<1>s. ASSUME odd \subseteq odd', statuses' = statuses PROVE Stored(statuses', subs')
  BY <1>0, <1>g, <1>s DEF Stored
<1>o. ASSUME NEW t \in Tabs, odd \subseteq odd', OthersStay(t), NEW u \in Tabs \ {t}
      PROVE  Copied(tab'[u], subs')
  <2>1. tab'[u] = tab[u] /\ Copied(tab[u], subs)
    BY <1>0, <1>o DEF OthersStay
  <2>2. Busy(u) => tab[u].at \in Place
    BY <1>p
  <2> QED  BY <1>g, <2>1, <2>2 DEF Copied, Busy
<1>k. ASSUME NEW t \in Tabs, odd \subseteq odd', OthersStay(t), statuses' = statuses,
             tab'[t].sts = tab[t].sts, tab'[t].at = tab[t].at,
             tab'[t].page = "workspace" \/ tab'[t].job # None => Busy(t)
      PROVE  Stored(statuses', subs') /\ \A u \in Tabs : Copied(tab'[u], subs')
  <2>1. Copied(tab'[t], subs')
    BY <1>0, <1>g, <1>p, <1>k DEF Copied, Busy
  <2> QED  BY <1>k, <1>o, <1>s, <2>1
<1>e. ASSUME NEW t \in Tabs, NEW p \in Place, odd \subseteq odd', OthersStay(t), statuses' = statuses,
             tab'[t].sts = statuses[p], tab'[t].at = p
      PROVE  Stored(statuses', subs') /\ \A u \in Tabs : Copied(tab'[u], subs')
  <2>1. Copied(tab'[t], subs')
    BY <1>0, <1>g, <1>e DEF Stored, Copied
  <2> QED  BY <1>e, <1>o, <1>s, <2>1
<1>1. ASSUME NEW t \in Tabs,
             \/ OpenCourse(t) \/ OpenHome(t) \/ SettleLessons(t) \/ MarkTimer(t)
             \/ \E mode \in Modes : SwitchTab(t, mode)
             \/ \E m \in Modules : MarkComplete(t, m) \/ EnterWorkspace(t, m)
      PROVE  Stored(statuses', subs') /\ \A u \in Tabs : Copied(tab'[u], subs')
  <2>1. /\ OthersStay(t) /\ SameWork(tab[t], tab'[t])
        /\ tab'[t].page = "workspace" => tab[t].page = "workspace"
        /\ statuses' = statuses /\ odd \subseteq odd'
    BY <1>1, CourseStep
  <2> QED  BY <1>k, <2>1 DEF SameWork, Busy
<1>2. ASSUME NEW t \in Tabs, EnterTimer(t), tab[t].page = "workspace"
      PROVE  Stored(statuses', subs') /\ \A u \in Tabs : Copied(tab'[u], subs')
  <2>1. /\ OthersStay(t) /\ SameWork(tab[t], tab'[t]) /\ statuses' = statuses /\ odd' = odd
    BY <1>2, EnterTimerStep
  <2> QED  BY <1>2, <1>k, <2>1 DEF SameWork, Busy
<1>3. ASSUME NEW t \in Tabs,
             OpenWorkspace(t) \/ (EnterTimer(t) /\ tab[t].page # "workspace")
      PROVE  Stored(statuses', subs') /\ \A u \in Tabs : Copied(tab'[u], subs')
  <2> DEFINE p == AppPlace'
  <2>1. /\ p \in Place /\ OthersStay(t) /\ tab'[t].at = p /\ tab'[t].sts = statuses[p]
        /\ statuses' = statuses /\ odd \subseteq odd'
    BY <1>3, EnterStep
  <2> HIDE DEF p
  <2> QED  BY <1>e, <2>1
<1>4. ASSUME NEW t \in Tabs, Reload(t)
      PROVE  Stored(statuses', subs') /\ \A u \in Tabs : Copied(tab'[u], subs')
  <2>1. /\ OthersStay(t) /\ tab'[t].page = tab[t].page /\ tab'[t].job = None /\ AppPlace \in Place
        /\ tab'[t].page = "workspace" => tab'[t].at = AppPlace /\ tab'[t].sts = statuses[AppPlace]
        /\ statuses' = statuses /\ odd \subseteq odd'
    BY <1>4, ReloadStep
  <2>2. CASE tab'[t].page = "workspace"
    BY <1>e, <2>1, <2>2
  <2>3. CASE tab'[t].page # "workspace"
    <3>1. Copied(tab'[t], subs')
      BY <2>1, <2>3 DEF Copied
    <3> QED  BY <1>o, <1>s, <2>1, <3>1
  <2> QED  BY <2>2, <2>3
<1>5. ASSUME NEW t \in Tabs, SettleWorkspace(t)
      PROVE  Stored(statuses', subs') /\ \A u \in Tabs : Copied(tab'[u], subs')
  <2>1. /\ OthersStay(t) /\ tab[t].page = "workspace" /\ tab'[t].at = tab[t].at
        /\ tab'[t].sts = tab[t].sts /\ statuses' = statuses /\ odd' = odd
    BY <1>5, SettleStep
  <2> QED  BY <1>k, <2>1 DEF Busy
<1>6. ASSUME NEW t \in Tabs, NEW i \in Step, StepChange(t, i)
      PROVE  Stored(statuses', subs') /\ \A u \in Tabs : Copied(tab'[u], subs')
  <2> DEFINE r == tab[t] e == tab'[t] p == AppPlace
  <2>1. /\ OthersStay(t) /\ r.page = "workspace" /\ e.at = r.at /\ p \in Place
        /\ \/ e.sts = r.sts /\ statuses' = statuses
           \/ /\ r.sts[r.step] # "passed" /\ e.sts = [r.sts EXCEPT ![r.step] = "skipped"]
              /\ statuses' = [statuses EXCEPT ![p] = e.sts]
        /\ odd' = odd \cup Strays(t)
    BY <1>6, StepChangeStep
  <2> HIDE DEF p
  <2>2. Busy(t) /\ r.at = p
    BY <2>1 DEF p, Busy, Strays, Without
  <2>3. /\ statuses \in [Place -> [Step -> Status]] /\ r.sts \in [Step -> Status]
        /\ Copied(r, subs) /\ Stored(statuses, subs)
    BY <1>0, <2>1, TabIs DEF TypeInv, TypeOK, Tab
  <2>4. PassedSteps(e.sts) \subseteq PassedSteps(r.sts)
    BY <2>1, <2>3 DEF PassedSteps
  <2>5. PassedSteps(e.sts) \subseteq Earned(subs', p)
    BY <1>g, <2>1, <2>2, <2>3, <2>4 DEF Copied, Busy
  <2>6. \A q \in Place : statuses'[q] = statuses[q] \/ (q = p /\ statuses'[q] = e.sts)
    BY <2>1, <2>3
  <2>7. Stored(statuses', subs')
    BY <1>g, <2>3, <2>5, <2>6 DEF Stored
  <2>8. Copied(tab'[t], subs')
    BY <2>1, <2>2, <2>5 DEF Copied
  <2> QED  BY <1>o, <2>1, <2>7, <2>8
<1>7. ASSUME NEW t \in Tabs, Submit(t) \/ LandError(t) \/ VerdictTimer(t)
      PROVE  Stored(statuses', subs') /\ \A u \in Tabs : Copied(tab'[u], subs')
  <2>1. /\ OthersStay(t) /\ tab'[t].sts = tab[t].sts /\ tab'[t].at = tab[t].at
        /\ statuses' = statuses /\ odd \subseteq odd' /\ (tab[t].page = "workspace" \/ tab[t].job # None)
    BY <1>7, SubmitStep, LandErrorStep, VerdictStep
  <2> QED  BY <1>k, <2>1 DEF Busy
<1>8. ASSUME NEW t \in Tabs, NEW v \in {"passed", "failed"}, Land(t, v)
      PROVE  Stored(statuses', subs') /\ \A u \in Tabs : Copied(tab'[u], subs')
  <2> DEFINE r == tab[t] e == tab'[t] p == AppPlace j == tab[t].job
             new == [problem |-> j.problem, passed |-> v = "passed"]
  <2>0. /\ j # None /\ j \in Job /\ p \in Place /\ new \in Attempt
        /\ subs' = [subs EXCEPT ![p][j.step] = Append(subs[p][j.step], new)]
        /\ odd \cup Strays(t) \subseteq odd'
    BY <1>8, LandStep
  <2> HIDE DEF new
  <2>1. /\ OthersStay(t) /\ e.at = r.at /\ e.sts = [r.sts EXCEPT ![j.step] = v]
        /\ statuses' = [statuses EXCEPT ![p] = e.sts]
    BY <1>8, LandStep
  <2> HIDE DEF p
  <2>2. Busy(t) /\ r.at = p /\ j.step \in Step /\ new.passed = (v = "passed")
    BY <2>0, <2>1 DEF p, new, Busy, Strays, Without, Job
  <2>3. /\ statuses \in [Place -> [Step -> Status]] /\ r.sts \in [Step -> Status]
        /\ subs \in [Place -> [Step -> Seq(Attempt)]]
        /\ Copied(r, subs) /\ Stored(statuses, subs)
    BY <1>0, <2>0, <2>1, TabIs DEF TypeInv, TypeOK, Tab
  <2>4. v = "passed" => j.step \in Earned(subs', p)
    <3>1. /\ subs'[p][j.step] = Append(subs[p][j.step], new) /\ subs[p][j.step] \in Seq(Attempt)
      BY <2>0, <2>1, <2>2, <2>3
    <3>2. /\ Len(subs[p][j.step]) + 1 \in DOMAIN subs'[p][j.step]
          /\ subs'[p][j.step][Len(subs[p][j.step]) + 1] = new
      BY <2>0, <2>1, <3>1
    <3> QED  BY <2>2, <3>2 DEF Earned
  <2>5. PassedSteps(e.sts) \subseteq PassedSteps(r.sts) \cup (IF v = "passed" THEN {j.step} ELSE {})
    BY <2>0, <2>1, <2>2, <2>3 DEF PassedSteps
  <2>6. PassedSteps(e.sts) \subseteq Earned(subs', p)
    BY <1>g, <2>0, <2>1, <2>2, <2>3, <2>4, <2>5 DEF Copied, Busy
  <2>7. \A q \in Place : statuses'[q] = statuses[q] \/ (q = p /\ statuses'[q] = e.sts)
    BY <2>0, <2>1, <2>3
  <2>8. Stored(statuses', subs')
    BY <1>g, <2>3, <2>6, <2>7 DEF Stored
  <2>9. Copied(tab'[t], subs')
    BY <2>0, <2>1, <2>2, <2>6 DEF Copied
  <2> QED  BY <1>o, <2>0, <2>1, <2>8, <2>9
<1>9. CASE \/ \E p \in Place : \E q \in Problem : Publish(p, q)
           \/ \E p \in Place : \E i \in Step : Withdraw(p, i)
           \/ \E t \in Tabs : TypeDraft(t)
           \/ UNCHANGED vars
  <2>1. UNCHANGED <<statuses, tab>> /\ odd \subseteq odd'
    BY <1>9 DEF Publish, Withdraw, TypeDraft, vars, storage
  <2> QED  BY <1>0, <1>g, <1>p, <1>s, <2>1 DEF Copied, Busy
<1> QED
  BY <1>1, <1>2, <1>3, <1>4, <1>5, <1>6, <1>7, <1>8, <1>9 DEF Next
\* Where nobody starts or stops mending the labs' list, what the pages show of it
\* is as before.
LEMMA LabsSame ==
  ASSUME NEW mode \in Modes, lessons'[mode] = lessons[mode],
         \A u \in Tabs : /\ Mends(tab', mode, u) <=> Mends(tab, mode, u)
                         /\ Mends(tab, mode, u) => tab'[u].lst = tab[u].lst
  PROVE  OnPage(mode)' = OnPage(mode)
BY ShownOnPage, ShowsSame

\* A page that restores the labs' list adds the labs that are done.
LEMMA LabsRestored ==
  ASSUME TypeInv, NEW t \in Tabs, NEW mode \in Modes, OthersStay(t),
         tab[t].due = "none", ~Mended(t, mode),
         tab'[t].due = "lessons", tab'[t].act = mode, tab'[t].lst = Restored(mode),
         mode # "ASSIGNMENT" => lessons'["ASSIGNMENT"] = lessons["ASSIGNMENT"],
         UNCHANGED <<bank, statuses>>
  PROVE  \A m \in OnPage("ASSIGNMENT")' : m \in OnPage("ASSIGNMENT") \/ Done(m)'
<1>0. "ASSIGNMENT" \in Modes
  BY DEF Modes
<1>1. \A u \in Tabs \ {t} : tab'[u] = tab[u] /\ ~Mends(tab, mode, u)
  BY DEF OthersStay, Mended, Mends
<1>2. CASE mode = "ASSIGNMENT"
  <2>1. Shows(tab, lessons, mode) = Kept(lessons, mode)
    BY <1>1, ShowsKept DEF Mends
  <2>2. Shows(tab', lessons', mode) = Restored(mode)
    <3>1. Mends(tab', mode, t) /\ \A u \in Tabs \ {t} : ~Mends(tab', mode, u)
      BY <1>1 DEF Mends
    <3> QED  BY <3>1, ShowsMended
  <2>3. \A m \in Restored(mode) : m \in Kept(lessons, mode) \/ Done(m)
    BY <1>2 DEF Restored, Kept, Done, Lab
  <2>4. \A m : Done(m) => Done(m)'
    BY DEF Done, AllPassed
  <2> QED  BY <1>0, <1>2, <2>1, <2>2, <2>3, <2>4, ShownOnPage
<1>3. CASE mode # "ASSIGNMENT"
  <2>1. \A u \in Tabs : /\ Mends(tab', "ASSIGNMENT", u) <=> Mends(tab, "ASSIGNMENT", u)
                        /\ Mends(tab, "ASSIGNMENT", u) => tab'[u].lst = tab[u].lst
    BY <1>1, <1>3 DEF Mends
  <2> QED  BY <1>0, <1>3, <2>1, LabsSame
<1> QED  BY <1>2, <1>3

\* A lab that a step adds to what the pages show is done.
LEMMA LabsNext ==
  ASSUME TypeInv, TypeInv', LessonInv, [Next]_vars, Without({"crossed", "cut", "slipped"})'
  PROVE  \A m \in OnPage("ASSIGNMENT")' : m \in OnPage("ASSIGNMENT") \/ Done(m)'
<1> DEFINE Good == \A m \in OnPage("ASSIGNMENT")' : m \in OnPage("ASSIGNMENT") \/ Done(m)'
<1>0. /\ odd \subseteq odd' => LessonsRight
      /\ "ASSIGNMENT" \in Modes /\ lessons \in [Modes -> (SUBSET Modules) \cup {None}]
  BY DEF LessonInv, Without, Modes, TypeInv, TypeOK
<1>quiet. ASSUME NEW t \in Tabs, OthersStay(t), lessons'["ASSIGNMENT"] = lessons["ASSIGNMENT"],
                 IF tab'[t].page = "coursetext"
                   THEN /\ tab[t].page = "coursetext" /\ tab'[t].due = tab[t].due
                        /\ tab'[t].act = tab[t].act
                        /\ tab[t].due = "lessons" => tab'[t].lst = tab[t].lst
                   ELSE tab[t].due # "lessons"
          PROVE  Good
  <2>1. /\ tab[t].due = "lessons" => tab[t].page = "coursetext"
        /\ tab'[t].due = "lessons" => tab'[t].page = "coursetext"
    BY TabIs DEF TypeInv, TabOK
  <2>2. \A u \in Tabs : /\ Mends(tab', "ASSIGNMENT", u) <=> Mends(tab, "ASSIGNMENT", u)
                        /\ Mends(tab, "ASSIGNMENT", u) => tab'[u].lst = tab[u].lst
    BY <1>quiet, <2>1 DEF OthersStay, Mends
  <2> QED  BY <1>0, <1>quiet, <2>2, LabsSame
<1>1. ASSUME NEW t \in Tabs, OpenCourse(t) PROVE Good
  <2> DEFINE s == [tab[t] EXCEPT !.page = "coursetext", !.act = activeTab,
                                  !.lst = Restored(activeTab), !.due = "lessons"]
  <2>1. /\ tab' = [tab EXCEPT ![t] = s] /\ tab[t].due = "none" /\ lessons' = lessons
        /\ ~Mended(t, activeTab) /\ UNCHANGED <<bank, statuses>>
    BY <1>1 DEF OpenCourse, Moves, Crossing, Without, storage
  <2>2. s.due = "lessons" /\ s.act = activeTab /\ s.lst = Restored(activeTab)
    BY TabIs DEF Tab
  <2> HIDE DEF s
  <2>3. tab'[t] = s /\ OthersStay(t) /\ activeTab \in Modes
    BY <2>1, Replaced DEF TypeInv, TypeOK
  <2> QED  BY <2>1, <2>2, <2>3, LabsRestored
<1>2. ASSUME NEW t \in Tabs, NEW mode \in Modes, SwitchTab(t, mode) PROVE Good
  <2> DEFINE s == [tab[t] EXCEPT !.act = mode, !.lst = Restored(mode), !.due = "lessons"]
  <2>1. /\ tab' = [tab EXCEPT ![t] = s] /\ tab[t].due = "none"
        /\ lessons' = [lessons EXCEPT ![mode] = tab[t].lst]
        /\ ~Mended(t, mode) /\ UNCHANGED <<bank, statuses>>
    BY <1>2 DEF SwitchTab, Clicks, Moves, Crossing, Without
  <2>2. s.due = "lessons" /\ s.act = mode /\ s.lst = Restored(mode)
    BY TabIs DEF Tab
  <2> HIDE DEF s
  <2>3. /\ tab'[t] = s /\ OthersStay(t)
        /\ mode # "ASSIGNMENT" => lessons'["ASSIGNMENT"] = lessons["ASSIGNMENT"]
    BY <1>0, <2>1, Replaced
  <2> QED  BY <2>1, <2>2, <2>3, LabsRestored
<1>3. ASSUME NEW t \in Tabs, SettleLessons(t) PROVE Good
  <2> DEFINE s == [tab[t] EXCEPT !.due = "none"]
             mode == tab[t].act
  <2>1. /\ tab' = [tab EXCEPT ![t] = s] /\ tab[t].due = "lessons" /\ tab[t].page = "coursetext"
        /\ lessons' = [lessons EXCEPT ![mode] = tab[t].lst] /\ odd \subseteq odd'
    BY <1>3, TabIs DEF SettleLessons, Crossing, TabOK
  <2>2. s.page = tab[t].page /\ s.due = "none" /\ s.act = mode /\ s.lst = tab[t].lst
        /\ tab[t].lst \in SUBSET Modules /\ mode \in Modes
    BY TabIs DEF Tab
  <2> HIDE DEF s
  <2>3. tab'[t] = s /\ OthersStay(t)
    BY <2>1, Replaced
  <2>4. \A u \in Tabs \ {t} : ~Mends(tab, mode, u) /\ tab'[u] = tab[u]
    BY <1>0, <2>1, <2>3 DEF LessonsRight, Mends, OthersStay
  <2>5. CASE mode = "ASSIGNMENT"
    <3>1. Shows(tab, lessons, mode) = tab[t].lst
      BY <2>1, <2>4, ShowsMended DEF Mends
    <3>2. \A u \in Tabs : ~Mends(tab', mode, u)
      BY <2>2, <2>3, <2>4 DEF Mends
    <3>3. Shows(tab', lessons', mode) = Kept(lessons', mode)
      BY <3>2, ShowsKept, Zenon
    <3>4. lessons'[mode] = tab[t].lst /\ tab[t].lst # None
      BY <1>0, <2>1, <2>2, WorkspaceAssumption
    <3> QED  BY <1>0, <2>5, <3>1, <3>3, <3>4, ShownOnPage DEF Kept
  <2>6. CASE mode # "ASSIGNMENT"
    <3>1. \A u \in Tabs : /\ Mends(tab', "ASSIGNMENT", u) <=> Mends(tab, "ASSIGNMENT", u)
                          /\ Mends(tab, "ASSIGNMENT", u) => tab'[u].lst = tab[u].lst
      BY <2>2, <2>3, <2>4, <2>6 DEF Mends
    <3>2. lessons'["ASSIGNMENT"] = lessons["ASSIGNMENT"]
      BY <1>0, <2>1, <2>6
    <3> QED  BY <1>0, <3>1, <3>2, LabsSame
  <2> QED  BY <2>5, <2>6
<1>4. ASSUME NEW t \in Tabs, MarkTimer(t) PROVE Good
  <2> DEFINE l == tab[t].lst \cup {tab[t].mark}
             s == [tab[t] EXCEPT !.mark = None, !.lst = l]
  <2>1. /\ tab' = [tab EXCEPT ![t] = s] /\ tab[t].due = "none"
        /\ lessons' = [lessons EXCEPT ![tab[t].act] = l] /\ tab[t].act = "COURSE"
    BY <1>4 DEF MarkTimer, Without
  <2>2. s.page = tab[t].page /\ s.due = tab[t].due /\ s.act = tab[t].act
    BY TabIs DEF Tab
  <2> HIDE DEF s, l
  <2>3. tab'[t] = s /\ OthersStay(t) /\ lessons'["ASSIGNMENT"] = lessons["ASSIGNMENT"]
    BY <1>0, <2>1, Replaced
  <2> QED  BY <1>quiet, <2>1, <2>2, <2>3
<1>5. ASSUME NEW t \in Tabs, OpenHome(t) PROVE Good
  <2> DEFINE h == Left(tab[t], "home")
             s == [h EXCEPT !.page = "home"]
  <2>1. tab' = [tab EXCEPT ![t] = s] /\ tab[t].due = "none" /\ lessons' = lessons
    BY <1>5 DEF OpenHome, Moves, storage
  <2>2. h \in Tab
    BY TabIs DEF Left, Tab
  <2> HIDE DEF h
  <2>3. s.page = "home"
    BY <2>2 DEF Tab
  <2> HIDE DEF s
  <2>4. tab'[t] = s /\ OthersStay(t)
    BY <2>1, Replaced
  <2> QED  BY <1>quiet, <2>1, <2>3, <2>4
<1>6. ASSUME NEW t \in Tabs, NEW m \in Modules, MarkComplete(t, m) \/ EnterWorkspace(t, m)
      PROVE  Good
  <2>1. PICK s : /\ tab' = [tab EXCEPT ![t] = s]
                 /\ s \in {[tab[t] EXCEPT !.mark = m],
                          [tab[t] EXCEPT !.enter = [mode |-> tab[t].act, module |-> m]]}
    BY <1>6 DEF MarkComplete, EnterWorkspace
  <2>2. s.page = tab[t].page /\ s.due = tab[t].due /\ s.act = tab[t].act /\ s.lst = tab[t].lst
    BY <2>1, TabIs DEF Tab
  <2>3. tab'[t] = s /\ OthersStay(t)
    BY <2>1, Replaced
  <2>4. tab[t].page = "coursetext" /\ UNCHANGED lessons
    BY <1>6 DEF MarkComplete, EnterWorkspace, storage
  <2> QED  BY <1>quiet, <2>2, <2>3, <2>4
<1>7. ASSUME NEW t \in Tabs, OpenWorkspace(t) \/ EnterTimer(t) PROVE Good
  <2>1. CASE OpenWorkspace(t) \/ tab[t].page # "workspace"
    BY <1>7, <1>quiet, <2>1, EnterStep
  <2>2. CASE EnterTimer(t) /\ tab[t].page = "workspace"
    BY <1>7, <1>quiet, <2>2, EnterTimerStep
  <2> QED  BY <1>7, <2>1, <2>2
<1>8. ASSUME NEW t \in Tabs, Reload(t) PROVE Good
  <2> DEFINE e == tab'[t]
  <2>1. /\ OthersStay(t) /\ e.page = tab[t].page /\ tab[t].due = "none"
        /\ e.page = "coursetext" =>
             /\ e.due = "lessons" /\ e.act = activeTab /\ e.lst = Restored(activeTab)
             /\ ~Mended(t, activeTab)
        /\ UNCHANGED <<lessons, bank, statuses>> /\ activeTab \in Modes
    BY <1>8, ReloadStep DEF Without, TypeInv, TypeOK
  <2>2. CASE e.page = "coursetext"
    BY <2>1, <2>2, LabsRestored
  <2>3. CASE e.page # "coursetext"
    BY <1>quiet, <2>1, <2>3
  <2> QED  BY <2>2, <2>3
<1>9. ASSUME NEW t \in Tabs,
             \/ SettleWorkspace(t) \/ Submit(t) \/ LandError(t) \/ VerdictTimer(t)
             \/ \E i \in Step : StepChange(t, i)
      PROVE  Good
  <2>1. CASE SettleWorkspace(t)
    BY <1>quiet, <2>1, SettleStep
  <2>2. CASE Submit(t)
    BY <1>quiet, <2>2, SubmitStep
  <2>3. CASE LandError(t) \/ VerdictTimer(t)
    <3>1. tab[t].due = "lessons" => tab[t].page = "coursetext"
      BY TabIs DEF TabOK
    <3> QED  BY <1>quiet, <2>3, <3>1, LandErrorStep, VerdictStep
  <2>4. CASE \E i \in Step : StepChange(t, i)
    <3>1. /\ OthersStay(t) /\ tab'[t].page = "workspace" /\ tab[t].due = "none" /\ lessons' = lessons
      BY <2>4, StepChangeStep
    <3> QED  BY <1>quiet, <3>1
  <2> QED  BY <1>9, <2>1, <2>2, <2>3, <2>4
<1>10. ASSUME NEW t \in Tabs, NEW v \in {"passed", "failed"}, Land(t, v) PROVE Good
  <2> DEFINE r == tab[t] e == tab'[t]
  <2>p. PICK p \in Place : p = AppPlace
    BY PlacesAre
  <2>0. "crossed" \notin odd' /\ (tab[t].due = "lessons" => tab[t].page = "coursetext")
    BY TabIs DEF Without, TabOK
  <2>1. /\ OthersStay(t) /\ p \in Place /\ e.page = r.page /\ e.due = r.due /\ e.act = r.act /\ e.lst = r.lst
        /\ lessons' = CompletedBy(p, e.sts, v) /\ statuses' = [statuses EXCEPT ![p] = e.sts]
        /\ lessons' # lessons => \A u \in Tabs : ~(tab[u].page = "coursetext" /\ tab[u].act = p.mode)
        /\ bank' = bank
    BY <1>10, <2>0, <2>p, LandStep
  <2>2. p.mode \in Modes /\ p.module \in Modules /\ p = [mode |-> p.mode, module |-> p.module]
        /\ lessons[p.mode] \in (SUBSET Modules) \cup {None} /\ statuses \in [Place -> [Step -> Status]]
    BY <1>0, <2>1 DEF Place, TypeInv, TypeOK
  <2>3. CASE lessons'["ASSIGNMENT"] = lessons["ASSIGNMENT"]
    BY <1>quiet, <2>0, <2>1, <2>3
  <2>4. CASE lessons'["ASSIGNMENT"] # lessons["ASSIGNMENT"]
    <3>1. /\ Completes(p, e.sts, v) /\ p.mode = "ASSIGNMENT"
          /\ lessons'[p.mode] = Marked(lessons[p.mode], p.module)
      BY <1>0, <2>1, <2>2, <2>4 DEF CompletedBy
    <3>2. p = Lab(p.module) /\ AllPassed(p, e.sts) /\ statuses'[p] = e.sts
      BY <2>1, <2>2, <3>1 DEF Lab, Completes
    <3>3. Done(p.module)'
      <4>1. statuses'[Lab(p.module)] = e.sts /\ bank'[Lab(p.module)] = bank[p]
        BY <2>1, <3>2
      <4> QED  BY <3>2, <4>1 DEF Done, AllPassed
    <3>4. Kept(lessons', "ASSIGNMENT") \subseteq Kept(lessons, "ASSIGNMENT") \cup {p.module}
      BY <2>2, <3>1, WorkspaceAssumption DEF Kept, Marked
    <3>5. \A u \in Tabs : ~Mends(tab, "ASSIGNMENT", u) /\ ~Mends(tab', "ASSIGNMENT", u)
      <4>1. \A u \in Tabs : tab[u].due = "lessons" => tab[u].page = "coursetext"
        BY TabIs DEF TabOK
      <4> QED  BY <2>1, <2>4, <3>1, <4>1 DEF Mends, OthersStay
    <3>6. OnPage("ASSIGNMENT")' = Kept(lessons', "ASSIGNMENT") /\ OnPage("ASSIGNMENT") = Kept(lessons, "ASSIGNMENT")
      BY <1>0, <3>5, ShowsKept, ShownOnPage
    <3> QED  BY <3>3, <3>4, <3>6
  <2> QED  BY <2>3, <2>4
<1>11. CASE \/ \E p \in Place : \E q \in Problem : Publish(p, q)
            \/ \E p \in Place : \E i \in Step : Withdraw(p, i)
            \/ \E t \in Tabs : TypeDraft(t)
            \/ UNCHANGED vars
  <2>1. UNCHANGED <<lessons, tab>>
    BY <1>11 DEF Publish, Withdraw, TypeDraft, vars, storage
  <2> QED  BY <1>0, <2>1, LabsSame
<1> QED
  BY <1>1, <1>2, <1>3, <1>4, <1>5, <1>6, <1>7, <1>8, <1>9, <1>10, <1>11 DEF Next
\* The steps answered right are finitely many.
LEMMA EarnedCount ==
  ASSUME NEW s, NEW p, NEW S, S \subseteq Earned(s, p)
  PROVE  /\ Cardinality(S) \in Nat /\ Cardinality(Earned(s, p)) \in Nat
         /\ Cardinality(S) <= Cardinality(Earned(s, p))
         /\ Cardinality(S) > 0 => S # {}
<1>1. IsFiniteSet(Step)
  BY Consts, FS_Interval
<1>2. Earned(s, p) \subseteq Step
  BY DEF Earned
<1>3. IsFiniteSet(Earned(s, p)) /\ IsFiniteSet(S)
  BY <1>1, <1>2, FS_Subset
<1>4. Cardinality(S) \in Nat /\ Cardinality(Earned(s, p)) \in Nat /\ Cardinality(S) <= Cardinality(Earned(s, p))
  BY <1>3, FS_Subset, FS_CardinalityType
<1>5. Cardinality({}) = 0
  BY FS_EmptySet
<1> QED  BY <1>4, <1>5

\* A lab on a page was earned.
Paid(m) ==
  /\ Earned(subs, Lab(m)) # {}
  /\ Cardinality(Earned(subs, Lab(m))) + edits >= Len(bank[Lab(m)])
PaidInv ==
  Without({"strayed", "slipped", "cut", "crossed", "shifted"}) =>
    \A m \in OnPage("ASSIGNMENT") : Paid(m)

\* A lab stays earned, for a problem added to it counts as an edit; and a lab added
\* to a page has all its problems passed.
LEMMA PaidNext ==
  TypeInv /\ TypeInv' /\ LessonInv /\ PassInv' /\ PaidInv /\ [Next]_vars => PaidInv'
<1> SUFFICES ASSUME TypeInv, TypeInv', LessonInv, PassInv', PaidInv, [Next]_vars,
                    Without({"strayed", "slipped", "cut", "crossed", "shifted"})',
                    NEW m \in OnPage("ASSIGNMENT")'
             PROVE  Paid(m)'
  BY DEF PaidInv
<1>1. Without({"strayed"})' /\ Without({"crossed", "cut", "slipped"})' /\ Without({"shifted"})'
  BY DEF Without
<1>2. m \in Modules /\ Lab(m) \in Place
  BY OnPageIs, LabIs DEF Modes
<1>3. ASSUME Done(m)' PROVE Paid(m)'
  <2> DEFINE S == PassedSteps(statuses'[Lab(m)])
             n == Len(bank'[Lab(m)])
  <2>1. n > 0 /\ Cardinality(S) >= n
    BY <1>3 DEF Done, AllPassed
  <2>2. S \subseteq Earned(subs', Lab(m))
    BY <1>1, <1>2 DEF PassInv, Stored
  <2>3. n \in Nat /\ edits' \in Nat
    BY <1>1, <1>2, ListGrows
  <2> HIDE DEF S, n
  <2>4. /\ Cardinality(S) \in Nat /\ Cardinality(Earned(subs', Lab(m))) \in Nat
        /\ Cardinality(S) <= Cardinality(Earned(subs', Lab(m)))
        /\ Cardinality(S) > 0 => S # {}
    BY <2>2, EarnedCount
  <2>5. Cardinality(Earned(subs', Lab(m))) + edits' >= n
    BY <2>1, <2>3, <2>4
  <2>6. Earned(subs', Lab(m)) # {}
    BY <2>1, <2>2, <2>3, <2>4
  <2> QED  BY <2>5, <2>6 DEF Paid, n
<1>4. ASSUME m \in OnPage("ASSIGNMENT") PROVE Paid(m)'
  <2>1. odd \subseteq odd'
    BY OddGrows
  <2>2. Paid(m)
    BY <1>4, <2>1 DEF PaidInv, Without
  <2>3. Earned(subs, Lab(m)) \subseteq Earned(subs', Lab(m))
    BY <1>2, EarnedGrows
  <2>4. /\ Cardinality(Earned(subs, Lab(m))) \in Nat /\ Cardinality(Earned(subs', Lab(m))) \in Nat
        /\ Cardinality(Earned(subs, Lab(m))) <= Cardinality(Earned(subs', Lab(m)))
    BY <2>3, EarnedCount
  <2>5. /\ Len(bank[Lab(m)]) \in Nat /\ Len(bank'[Lab(m)]) \in Nat /\ edits \in Nat /\ edits' \in Nat
        /\ Len(bank'[Lab(m)]) + edits <= Len(bank[Lab(m)]) + edits'
    BY <1>1, <1>2, ListGrows
  <2>6. Cardinality(Earned(subs', Lab(m))) + edits' >= Len(bank'[Lab(m)])
    BY <2>2, <2>4, <2>5 DEF Paid
  <2>7. Earned(subs', Lab(m)) # {}
    BY <2>2, <2>3 DEF Paid
  <2> QED  BY <2>6, <2>7 DEF Paid
<1> QED  BY <1>1, <1>3, <1>4, LabsNext

\* For any number of tabs and problems: while no tab's list, keys or marks crossed,
\* a lab shown as completed has a right answer to as many of its problems as it
\* had when it was completed, and never to none (App.jsx:546-568,
\* CourseText.jsx:124-172).
THEOREM LabsEarned == Spec => []CompletedEarned
<1>1. Init => TypeInv /\ LessonInv
  BY TypeInit, LessonInit
<1>2. Init => PassInv
  <2> SUFFICES ASSUME Init PROVE PassInv
    OBVIOUS
  <2>1. \A p \in Place : PassedSteps(statuses[p]) = {}
    BY DEF Init, Blank, PassedSteps
  <2>2. \A t \in Tabs : PassedSteps(tab[t].sts) = {}
    BY DEF Init, FreshTab, Blank, PassedSteps
  <2> QED  BY <2>1, <2>2 DEF PassInv, Stored, Copied
<1>3. Init => PaidInv
  <2> SUFFICES ASSUME Init PROVE PaidInv
    OBVIOUS
  <2>1. "ASSIGNMENT" \in Modes /\ lessons["ASSIGNMENT"] = None /\ \A t \in Tabs : tab[t].due = "none"
    BY DEF Init, FreshTab, Modes
  <2>2. OnPage("ASSIGNMENT") = Kept(lessons, "ASSIGNMENT")
    BY <2>1, ShowsKept, ShownOnPage DEF Mends
  <2> QED  BY <2>1, <2>2 DEF PaidInv, Kept
<1>4. TypeInv /\ LessonInv /\ PassInv /\ PaidInv /\ [Next]_vars => (TypeInv /\ LessonInv /\ PassInv /\ PaidInv)'
  <2> SUFFICES ASSUME TypeInv, LessonInv, PassInv, PaidInv, [Next]_vars
               PROVE  (TypeInv /\ LessonInv /\ PassInv /\ PaidInv)'
    OBVIOUS
  <2>1. TypeInv' /\ PassInv'
    BY TypeNext, PassNext
  <2> QED  BY <2>1, LessonNext, PaidNext DEF LessonInv
<1>5. PaidInv => CompletedEarned
  BY DEF PaidInv, CompletedEarned, Paid, Earned, Lab
<1> QED  BY <1>1, <1>2, <1>3, <1>4, <1>5, PTL DEF Spec
=============================================================================
