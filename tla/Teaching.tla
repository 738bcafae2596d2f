------------------------------ MODULE Teaching ------------------------------
(***************************************************************************)
(* The teaching console and the exam clock.  Problems, announcements and   *)
(* content are three lists in localStorage that are read, saved and        *)
(* deleted alike, one of which is modelled; the schedule of a module's     *)
(* exam lies beside them.  Each console works on React copies that store   *)
(* events refresh; a student's workspace reads the schedule once a second  *)
(* (instructor-store.js, InstructorDashboard.jsx, RightPanel.jsx,          *)
(* LeftPanel.jsx, CourseText.jsx).                                         *)
(*                                                                         *)
(* Time counts the seconds of the workspace's interval timers, which a     *)
(* browser keeps for the page on screen; 0 stands for null where the code  *)
(* tests a time or a limit for truth.                                      *)
(***************************************************************************)
EXTENDS Naturals, Sequences, FiniteSets

CONSTANTS
  Consoles,      \* tabs that show the teaching console
  Ids,           \* ids that genId may draw
  Bodies,        \* what an item says
  Configs,       \* the schedules an earlier session may have left, or None
  Lists,         \* the lists an earlier session may have left
  Typed,         \* what an instructor may type: a rule of the schedule, a value
  Scenes,        \* bound: what a behaviour exercises, see Scenery
  Legacy,        \* the fixed time limit of an exam without a schedule
  MaxTime,       \* bound: seconds
  MaxEdits,      \* bound: changes of the list and of the schedule
  None

Time  == 1 .. MaxTime
Rules == {"open", "close", "limit"}
Schedule == [open : Time \cup {0}, close : Time \cup {0}, limit : Nat]
Item  == [id : Ids, body : Bodies]
Change == [rules : Schedule, typed : Rules, shown : Schedule \cup {None}]
Draft == [id : Ids \cup {None}, body : Bodies]

ASSUME TeachingAssumption ==
  /\ MaxTime \in Nat \ {0} /\ Legacy \in Nat \ {0} /\ MaxEdits \in Nat
  /\ Configs \subseteq Schedule \cup {None} /\ Lists \subseteq Seq(Item)
  /\ Typed \subseteq Rules \X (Time \cup {0})
  /\ None \notin Ids \cup Schedule \cup Draft \cup Change \cup Time

VARIABLES
  items,      \* the stored list
  config,     \* its_exam_configs, for the one module, or None
  scene,      \* what this behaviour exercises
  con,        \* each console: its copies and what its editors hold
  pending,    \* the consoles a storage event is on its way to
  edits,
  now,
  due,        \* the clocks of the workspace that have this second's turn to come
  started,    \* exam_start_<user>_<module>, or None
  userData,   \* sessionStorage has the student's userData
  page,       \* the student's page
  gate,       \* the workspace's examGate.reason, "open" for null
  bar,        \* the time bar shows zero
  shut,       \* history: the seconds begun since the rules closed the exam, or 0
  late,       \* history: the most of them that any submission had behind it
  gone,       \* history: the ids of deleted items
  fresh,      \* history: the schedule is the one this second began with
  odd         \* history: the rare crossings that have happened, by name

teach   == <<items, config, scene, con, pending, edits, gone>>
student == <<now, due, started, userData, page, gate, bar, late, fresh>>
vars    == <<teach, student, shut, odd>>

-----------------------------------------------------------------------------
(* The exam clock.                                                         *)

\* Scenery: the list and the schedule have keys of their own, and no action
\* on one reads the other, so that a behaviour may keep to one of them.
OnLists == "list" \in scene
OnExam == "exam" \in scene

\* Mutant: the end of the schedule is not looked at.
Reason_NeverCloses(cfg, start) ==
  IF cfg = None
    THEN IF start # None /\ start + Legacy <= now THEN "time_up" ELSE "open"
    ELSE IF cfg.open # 0 /\ now < cfg.open THEN "not_open"
    ELSE IF cfg.limit # 0 /\ start # None /\ start + cfg.limit <= now THEN "time_up"
    ELSE "open"

\* examLockState, and the fixed limit where there is no schedule.
Reason(cfg, start) ==
  IF cfg = None
    THEN IF start # None /\ start + Legacy <= now THEN "time_up" ELSE "open"
    ELSE IF cfg.open # 0 /\ now < cfg.open THEN "not_open"
    ELSE IF cfg.close # 0 /\ now > cfg.close THEN "closed"
    ELSE IF cfg.limit # 0 /\ start # None /\ start + cfg.limit <= now THEN "time_up"
    ELSE "open"

\* Both clocks look the start up under the id in userData; without userData
\* they look for a guest's, who has started nothing.
Seen == IF userData THEN started ELSE None

\* The time bar knows the fixed limit only.
BarUp == Seen # None /\ Seen + Legacy <= now

\* The exam is open by the rules: the reference the gate is held against.
OpenByRules(cfg, start, t) ==
  IF cfg = None
    THEN start = None \/ t < start + Legacy
    ELSE /\ cfg.open = 0 \/ t >= cfg.open
         /\ cfg.close = 0 \/ t <= cfg.close
         /\ cfg.limit = 0 \/ start = None \/ t < start + cfg.limit

\* At the end of a step: since when the rules have been closed.
Shuts == shut' = IF OpenByRules(config', started', now') THEN 0
                 ELSE IF now' # now THEN IF shut < 3 THEN shut + 1 ELSE 3
                 ELSE IF shut = 0 THEN 1 ELSE shut

Init ==
  /\ items \in Lists
  /\ config \in Configs /\ scene \in Scenes
  /\ con = [t \in Consoles |-> [view |-> items, cfg |-> config, draft |-> None, sched |-> None]]
  /\ pending = {} /\ edits = 0 /\ gone = {}
  /\ odd = IF \E i, k \in DOMAIN items : i # k /\ items[i].id = items[k].id THEN {"clash"} ELSE {}
  /\ now = 1 /\ due = {} /\ started = None /\ userData = TRUE
  /\ page = "course" /\ gate = "open" /\ bar = FALSE
  /\ shut = (IF OpenByRules(config, None, 1) THEN 0 ELSE 1) /\ late = 0 /\ fresh = TRUE

-----------------------------------------------------------------------------
(* A console.                                                              *)

\* An open editor covers the page.
Free(t) == con[t].draft = None /\ con[t].sched = None

\* Mutant: nothing is dispatched in the tab that writes.
Refreshed_Silent(t) == [con[t] EXCEPT !.draft = None, !.sched = None]

\* A write notifies this tab at once, which reads everything anew and closes
\* the editor; the browser notifies the others if the value changed.
Refreshed(t) == [view |-> items', cfg |-> config', draft |-> None, sched |-> None]
Write(t) ==
  /\ edits < MaxEdits /\ edits' = edits + 1
  /\ con' = [con EXCEPT ![t] = Refreshed(t)]
  /\ pending' = IF items' = items /\ config' = config THEN pending
                ELSE pending \cup (Consoles \ {t})

\* A storage event arrives, of this write or of any other to localStorage.
Deliver(t) ==
  /\ t \in pending /\ pending' = pending \ {t}
  /\ con' = [con EXCEPT ![t].view = items, ![t].cfg = config]
  /\ UNCHANGED <<items, config, scene, edits, gone, student, shut, odd>>

\* Leaving the console and coming back: its editors are gone.
Reopen(t) ==
  /\ con' = [con EXCEPT ![t] = [view |-> items, cfg |-> config, draft |-> None, sched |-> None]]
  /\ UNCHANGED <<items, config, scene, pending, edits, gone, student, shut, odd>>

Cancel(t) ==
  /\ ~Free(t)
  /\ con' = [con EXCEPT ![t].draft = None, ![t].sched = None]
  /\ UNCHANGED <<items, config, scene, pending, edits, gone, student, shut, odd>>

\* New, and Edit of an item on the page; the body is what will be typed.
OpenNew(t, b) ==
  /\ OnLists /\ Free(t)
  /\ con' = [con EXCEPT ![t].draft = [id |-> None, body |-> b]]
  /\ UNCHANGED <<items, config, scene, pending, edits, gone, student, shut, odd>>

OpenEdit(t, i, b) ==
  /\ OnLists /\ Free(t) /\ i \in DOMAIN con[t].view
  /\ con' = [con EXCEPT ![t].draft = [id |-> con[t].view[i].id, body |-> b]]
  /\ odd' = odd \cup (IF con[t].view[i].id \in gone THEN {"overtaken"} ELSE {})
  /\ UNCHANGED <<items, config, scene, pending, edits, gone, student, shut>>

IdsOf(list) == {list[i].id : i \in DOMAIN list}

\* Mutant: the list on the page is written back, not the one stored.
Saved_View(t, id) ==
  LET list == con[t].view
      d == con[t].draft
      same == {i \in DOMAIN list : list[i].id = d.id}
  IN IF same # {} THEN [list EXCEPT ![CHOOSE i \in same : \A k \in same : i <= k].body = d.body]
     ELSE Append(list, [id |-> id, body |-> d.body])

\* saveCustomProblem, saveAnnouncement, saveContent: on the stored list, the
\* first item with the draft's id is replaced; an id that is not there, or a
\* new one, goes to the end.
Saved(t, id) ==
  LET d == con[t].draft
      same == {i \in DOMAIN items : items[i].id = d.id}
  IN IF same # {} THEN [items EXCEPT ![CHOOSE i \in same : \A k \in same : i <= k].body = d.body]
     ELSE Append(items, [id |-> id, body |-> d.body])

\* genId adds a random part to the time: two ids drawn within a second may be
\* the same.
Save(t, id) ==
  /\ con[t].draft # None
  /\ con[t].draft.id \in {None, id}
  /\ items' = Saved(t, id)
  /\ odd' = odd \cup (IF con[t].draft.id = None /\ id \in IdsOf(items) \cup gone THEN {"clash"} ELSE {})
  /\ UNCHANGED <<config, scene>>
  /\ Write(t)
  /\ UNCHANGED <<gone, student, shut>>

\* Array.filter: the items of a list whose id is one of those given, in their
\* order; of the first 0, 1, ... items, and of all.
Filtering(list, ids) ==
  LET upTo[n \in 0 .. Len(list)] ==
        IF n = 0 THEN <<>>
        ELSE IF list[n].id \in ids THEN Append(upTo[n - 1], list[n]) ELSE upTo[n - 1]
  IN upTo

Filtered(list, ids) == Filtering(list, ids)[Len(list)]

\* deleteCustomProblem, deleteAnnouncement, deleteContent.
Remove(t, id) ==
  /\ OnLists /\ Free(t) /\ id \in IdsOf(con[t].view)
  /\ items' = Filtered(items, Ids \ {id})
  /\ gone' = gone \cup ({id} \cap IdsOf(items))
  /\ odd' = odd \cup (IF \E u \in Consoles : con[u].draft # None /\ con[u].draft.id = id
                      THEN {"overtaken"} ELSE {})
  /\ UNCHANGED <<config, scene>>
  /\ Write(t)
  /\ UNCHANGED <<student, shut>>

\* Mutant: without a schedule the limit's field has nothing in it.
Shown_Bare(cfg) ==
  IF cfg = None THEN [open |-> 0, close |-> 0, limit |-> None]
  ELSE [cfg EXCEPT !.limit = IF @ = 0 THEN Legacy ELSE @]

\* Edit of the schedule: the editor shows the console's copy, with the fixed
\* limit where there is none, and the instructor types one of the rules.
Shown(cfg) ==
  IF cfg = None THEN [open |-> 0, close |-> 0, limit |-> Legacy]
  ELSE [cfg EXCEPT !.limit = IF @ = 0 THEN Legacy ELSE @]

OpenSchedule(t, rule, v) ==
  /\ OnExam /\ Free(t)
  /\ LET s == [Shown(con[t].cfg) EXCEPT ![rule] = v] IN
       con' = [con EXCEPT ![t].sched = [rules |-> s, typed |-> rule, shown |-> con[t].cfg]]
  /\ UNCHANGED <<items, config, scene, pending, edits, gone, student, shut, odd>>

SaveSchedule(t) ==
  /\ con[t].sched # None
  /\ config' = con[t].sched.rules
  /\ UNCHANGED <<items, scene>>
  /\ Write(t)
  /\ fresh' = FALSE
  /\ UNCHANGED <<gone, now, due, started, userData, page, gate, bar, late, odd>>
  /\ Shuts

ClearSchedule(t) ==
  /\ OnExam /\ Free(t) /\ con[t].cfg # None /\ \E r \in Rules : con[t].cfg[r] # 0
  /\ config' = None
  /\ UNCHANGED <<items, scene>>
  /\ Write(t)
  /\ fresh' = FALSE
  /\ UNCHANGED <<gone, now, due, started, userData, page, gate, bar, late, odd>>
  /\ Shuts

-----------------------------------------------------------------------------
(* The student.                                                            *)

\* Start Exam, on a course page that redraws each second; the clock starts on
\* the first start.
StartExam ==
  /\ OnExam /\ page = "course" /\ page' = "entering"
  /\ started # None => now < started + Legacy + 1
  /\ started' = IF started = None THEN now ELSE started
  /\ UNCHANGED <<teach, now, due, userData, gate, bar, late, fresh, odd>>
  /\ Shuts

\* The workspace appears, half a second after Start or by the browser's own
\* forward; both clocks read at once.
Arrive ==
  /\ OnExam /\ page \in {"course", "entering"} /\ page' = "exam"
  /\ gate' = Reason(config, Seen) /\ bar' = BarUp /\ due' = {}
  /\ UNCHANGED <<teach, now, started, userData, late, fresh, shut, odd>>

Leave ==
  /\ page = "exam" /\ page' = "course" /\ due' = {} /\ gate' = "open" /\ bar' = FALSE
  /\ UNCHANGED <<teach, now, started, userData, late, fresh, shut, odd>>

\* The next second; the timers of the last have run.
Tick ==
  /\ OnExam /\ now < MaxTime /\ due = {} /\ now' = now + 1
  /\ due' = IF page = "exam" THEN {"gate", "bar"} ELSE {}
  /\ fresh' = TRUE
  /\ UNCHANGED <<teach, started, userData, page, gate, bar, late, odd>>
  /\ Shuts

\* The gate is also looked at whenever the problem changes.
EvaluateGate ==
  /\ page = "exam"
  /\ gate' = Reason(config, Seen) /\ due' = due \ {"gate"}
  /\ UNCHANGED <<teach, now, started, userData, page, bar, late, fresh, shut, odd>>

EvaluateBar ==
  /\ "bar" \in due
  /\ bar' = BarUp /\ due' = due \ {"bar"}
  /\ UNCHANGED <<teach, now, started, userData, page, gate, late, fresh, shut, odd>>

\* Submit looks at what the gate showed last.
Submit ==
  /\ page = "exam" /\ gate = "open"
  /\ late' = IF shut > late THEN shut ELSE late
  /\ UNCHANGED <<teach, now, due, started, userData, page, gate, bar, fresh, shut, odd>>

\* A call answered 401 removes userData; the page stays.
LoseUserData ==
  /\ OnExam /\ userData /\ userData' = FALSE
  /\ UNCHANGED <<teach, now, due, started, page, gate, bar, late, fresh, shut, odd>>

-----------------------------------------------------------------------------
Next ==
  \/ \E t \in Consoles :
       \/ Deliver(t) \/ Reopen(t) \/ Cancel(t)
       \/ \E b \in Bodies : OpenNew(t, b) \/ \E i \in 1 .. Len(con[t].view) : OpenEdit(t, i, b)
       \/ \E id \in Ids : Save(t, id) \/ Remove(t, id)
       \/ \E ch \in Typed : OpenSchedule(t, ch[1], ch[2])
       \/ SaveSchedule(t) \/ ClearSchedule(t)
  \/ StartExam \/ Arrive \/ Leave \/ Tick \/ EvaluateGate \/ EvaluateBar
  \/ Submit \/ LoseUserData

Spec == Init /\ [][Next]_vars

-----------------------------------------------------------------------------
(* Properties.                                                             *)

\* Every stored value, console and clock has its shape.
TypeOK ==
  /\ items \in Seq(Item) /\ config \in Schedule \cup {None}
  /\ con \in [Consoles -> [view : Seq(Item), cfg : Schedule \cup {None}, draft : Draft \cup {None},
                           sched : Change \cup {None}]]
  /\ scene \in Scenes /\ pending \subseteq Consoles /\ edits \in 0 .. MaxEdits /\ gone \subseteq Ids
  /\ now \in Time /\ due \subseteq {"gate", "bar"} /\ started \in Time \cup {None}
  /\ userData \in BOOLEAN /\ page \in {"course", "entering", "exam"}
  /\ gate \in {"open", "not_open", "closed", "time_up"} /\ bar \in BOOLEAN
  /\ shut \in 0 .. 3 /\ late \in 0 .. 3
  /\ fresh \in BOOLEAN /\ odd \subseteq {"clash", "overtaken"}

Without(crossings) == odd \cap crossings = {}

Others(list, id) == Filtered(list, Ids \ {id})
Own(list, id)    == Filtered(list, {id})

\* ItemsKept: from however old a page, an edit takes out one id's items or
\* puts one item of an open editor in; all others stay, in their order.
ItemsKept ==
  items' # items =>
    \E id \in Ids :
      /\ Others(items', id) = Others(items, id)
      /\ \/ Own(items', id) = <<>>
         \/ \E t \in Consoles :
              /\ con[t].draft # None
              /\ LET x == [id |-> id, body |-> con[t].draft.body] IN
                   Own(items', id) \in {Append(Own(items, id), x)} \cup
                     {[Own(items, id) EXCEPT ![1] = x] : k \in {1} \cap DOMAIN Own(items, id)}

\* ScheduleKept: a saved schedule differs from the stored one in the rule that
\* was typed, and in a limit that was not set and becomes the fixed one,
\* provided the stored one is the one the editor was opened on.
ScheduleKept ==
  config' \notin {config, None} =>
    \E t \in Consoles :
      /\ con[t].sched # None
      /\ con[t].sched.shown = config =>
           \A r \in Rules \ {con[t].sched.typed} : config'[r] = Shown(config)[r]

\* No console overwrites what it did not edit, although it works on copies:
\* other items never, other rules of the schedule only when another console
\* replaced them since the editor's copy was taken.
EditsKept == [][ItemsKept /\ ScheduleKept]_vars

\* A console that no event is on its way to shows what is stored; an id names
\* one item, unless genId drew it twice; and a deleted item stays deleted,
\* unless an editor still held it.
ConsolesAgree ==
  /\ \A t \in Consoles \ pending : con[t].view = items /\ con[t].cfg = config
  /\ Without({"clash"}) => \A i, k \in DOMAIN items : items[i].id = items[k].id => i = k
  /\ Without({"clash", "overtaken"}) => gone \cap IdsOf(items) = {}

\* The gate is checked once a second and not by Submit: a submission begins
\* at most in the second in which the exam closed, or in the next, unless a
\* 401 took the userData that the clock looks the start up under.  Where no
\* schedule is set, the bar and the gate run out together, once both have had
\* their turn of the second.
GateHolds ==
  userData =>
    /\ late <= 2
    /\ (page = "exam" /\ due = {} /\ fresh /\ config = None) => (bar <=> gate = "time_up")
=============================================================================
