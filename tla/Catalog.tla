------------------------------ MODULE Catalog ------------------------------
(***************************************************************************)
(* The relational catalog of the backend: courses, modules, lessons,       *)
(* problems, datasets, hints, assignments with their list of problems, and *)
(* enrollments (api/courses.py, api/problems.py, api/admin.py over         *)
(* models/course.py, problem.py, assignment.py, enrollment.py).            *)
(*                                                                         *)
(* Every handler is one transaction that reads, decides and commits, and   *)
(* handlers interleave at their awaits.  What keeps the tables whole is    *)
(* split in three: the handlers' own checks, what SQLAlchemy does with the *)
(* collections it loaded, and the constraints of the database, which the   *)
(* deployed Postgres enforces in full and the default SQLite file only in  *)
(* part: it enforces uniqueness and NOT NULL but no foreign key (nothing   *)
(* sets PRAGMA foreign_keys) and reuses the largest id once it is free.    *)
(*                                                                         *)
(* A PUT on a course, module, lesson or problem only overwrites fields no  *)
(* other row depends on and is left out, and so is who may call a handler. *)
(***************************************************************************)
EXTENDS Integers, FiniteSets

CONSTANTS
  Request,  \* places for requests in flight
  User,
  Code,     \* course codes
  MaxId,    \* bound on the ids of each table
  MaxRows,  \* bound on the rows of all the tables, for Postgres (TRUE) and for SQLite
  None

\* The table a table's rows belong to, through ForeignKey(..., ondelete="CASCADE").
ParentKind ==
  [module |-> "course", lesson |-> "module", problem |-> "lesson", dataset |-> "problem",
   hint |-> "problem", assignment |-> "course", link |-> "assignment",
   enrollment |-> "course"]

Kind == {"course"} \cup DOMAIN ParentKind

ASSUME CatalogAssumption ==
  /\ MaxId \in [Kind -> Nat \ {0}] /\ MaxRows \in [BOOLEAN -> Nat]
  /\ None \notin User /\ None \notin Code /\ None \notin Nat
  /\ \A kind \in Kind : \A id \in 1 .. MaxId[kind] : <<kind, id>> # None

VARIABLES
  postgres,    \* is the database Postgres (else SQLite)?  Chosen at the start.
  rows,        \* the rows of all the tables
  lastId,      \* Postgres: where the id sequence of each table stands
  role,        \* users.role
  req,         \* the requests in flight
  overlapped,  \* history: assignments two requests worked on at once (see Overlap)
  excused      \* history: users whose role an admin set, or who lost an enrollment

vars == <<postgres, rows, lastId, role, req, overlapped, excused>>

\* Instructors and admins are to these handlers what a TA is: not a student.
Role == {"student", "ta"}

\* Mutant: Course has no relationship for its enrollments.
Collection_NoEnrollments ==
  [course |-> {"module"}, module |-> {"lesson"}, lesson |-> {"problem"},
   problem |-> {"dataset", "hint"}, assignment |-> {"link"}]

\* The children a select of a row loads with it (relationship(..., lazy="selectin")):
\* a course does not know its assignments, nor a problem the lists it is on.
Collection ==
  [course |-> {"module", "enrollment"}, module |-> {"lesson"}, lesson |-> {"problem"},
   problem |-> {"dataset", "hint"}, assignment |-> {"link"}]

Deletable == {"course", "module", "lesson", "problem", "dataset", "hint", "assignment"}

Id(kind) == 1 .. MaxId[kind]
Ids == UNION {Id(kind) : kind \in Kind}
Idle == [op |-> "idle"]

\* key: a course's code, an enrollment's user, a link's problem (a link is a row of
\* assignment_problems).  tag: an enrollment's role, the request that wrote a link.
Row == [kind : Kind, id : Ids, parent : Ids \cup {None},
        key : Code \cup User \cup Ids \cup {None},
        tag : Role \cup Request \cup {"created", None}]

Live(kind, id) == \E r \in rows : r.kind = kind /\ r.id = id
Kids(kind, id) ==
  {r \in rows : kind \in DOMAIN Collection /\ r.kind \in Collection[kind] /\ r.parent = id}
Links(a) == {r \in rows : r.kind = "link" /\ r.parent = a}
Enrollments(u, c) == {r \in rows : r.kind = "enrollment" /\ r.key = u /\ r.parent = c}

Belongs(r, s) ==
  \/ r.kind # "course" /\ s.kind = ParentKind[r.kind] /\ s.id = r.parent
  \/ r.kind = "link" /\ s.kind = "problem" /\ s.id = r.key

\* What ON DELETE CASCADE takes with the rows S: the chain from a course to a link or a
\* dataset is four tables long.
Below(S) == S \cup {r \in rows : \E s \in S : Belongs(r, s)}
Chain(S) == Below(Below(Below(Below(S))))
Swept(S) == IF postgres THEN Chain(S) ELSE S

\* All that hangs on a row, by whichever foreign key: a list entry hangs on its problem
\* as well as on its assignment.
Descendants(kind, id) ==
  LET row == {r \in rows : r.kind = kind /\ r.id = id} IN Chain(row) \ row

----------------------------------------------------------------------------
(* Ids, constraints and locks of the database. *)

Taken(kind) == {0} \cup {r.id : r \in {s \in rows : s.kind = kind}}

NextId(kind) ==
  IF postgres THEN lastId[kind] + 1
  ELSE 1 + (CHOOSE i \in Taken(kind) : \A j \in Taken(kind) : j <= i)

\* New rows of one kind, one for each key, their ids in the order of the keys' ranks.
Fresh(kind, parent, keys, tag) ==
  LET rank(k) == IF kind = "link" THEN Cardinality({x \in keys : x < k}) ELSE 0
  IN  {[kind |-> kind, id |-> NextId(kind) + rank(k), parent |-> parent, key |-> k,
        tag |-> tag] : k \in keys}

\* UniqueConstraint("user_id", "course_id") and courses.code unique.
Clash(r, s) ==
  /\ r.kind = s.kind /\ r.kind \in {"course", "enrollment"}
  /\ r.key = s.key /\ (r.kind = "enrollment" => r.parent = s.parent)

\* A foreign key of r that no row of S satisfies.
Dangles(r, S) ==
  \/ r.kind # "course" /\ ~ \E s \in S : s.kind = ParentKind[r.kind] /\ s.id = r.parent
  \/ r.kind = "link" /\ ~ \E s \in S : s.kind = "problem" /\ s.id = r.key

\* Mutant: the tables declare no UniqueConstraint.
Accepted_NoUnique(new) == postgres => \A r \in new : ~ Dangles(r, rows \cup new)

Accepted(new) ==
  /\ \A r \in new, s \in rows : ~ Clash(r, s)
  /\ postgres => \A r \in new : ~ Dangles(r, rows \cup new)

\* Mutant: update_assignment assigns the fields after it has read the list, so that only
\* the commit sends them.
Lock_LateFields(q) ==
  IF req[q].op = "ta" /\ req[q].flushed /\ req[q].role = "student"
    THEN <<"user", req[q].user>> ELSE None

\* An UPDATE that autoflush sends ahead of the commit holds its row, and in SQLite the
\* whole file, until then.
Lock(q) ==
  CASE req[q].op = "update" /\ req[q].changed -> <<"assignment", req[q].id>>
    [] req[q].op = "ta" /\ req[q].flushed /\ req[q].role = "student" -> <<"user", req[q].user>>
    [] OTHER -> None

MayWrite(q, things) ==
  \A p \in Request \ {q} : Lock(p) = None \/ (postgres /\ Lock(p) \notin things)

NoThing == {}

InBounds(S) ==
  /\ Cardinality(S) <= MaxRows[postgres]
  /\ \A r \in S : r.id <= MaxId[r.kind]

Write(old, new) ==
  /\ rows' = (rows \ old) \cup new
  /\ new # {} => InBounds(rows')
  /\ lastId' = [k \in Kind |-> IF postgres
                                 THEN lastId[k] + Cardinality({r \in new \ old : r.kind = k /\ r.id > lastId[k]})
                                 ELSE 0]

Finish(q) == req' = [req EXCEPT ![q] = Idle]
Begin(q, r) == req[q] = Idle /\ req' = [req EXCEPT ![q] = r]

Calm == UNCHANGED <<postgres, overlapped, excused>>
NoWrite == UNCHANGED <<rows, lastId, role>>

----------------------------------------------------------------------------
\* The tables are empty, or hold what seed.py puts there.
Blank == [kind |-> "course", id |-> 1, parent |-> None, key |-> None, tag |-> None]
Seeded(code) ==
  {[Blank EXCEPT !.key = code]} \cup
  {[Blank EXCEPT !.kind = k, !.parent = 1] : k \in {"module", "lesson", "problem", "dataset"}}

Init ==
  /\ postgres \in BOOLEAN
  /\ rows \in {{}} \cup {Seeded(code) : code \in Code}
  /\ lastId = [k \in Kind |-> IF postgres /\ Live(k, 1) THEN 1 ELSE 0]
  /\ role = [u \in User |-> "student"]
  /\ req = [q \in Request |-> Idle]
  /\ overlapped = {} /\ excused = {}

----------------------------------------------------------------------------
(* Creation.  A handler whose insert the database refuses answers 500 and  *)
(* leaves nothing behind.                                                  *)

\* create_course, up to its check that no course has the code.
CheckCode(q, code) ==
  /\ ~ \E r \in rows : r.kind = "course" /\ r.key = code
  /\ Begin(q, [op |-> "course", code |-> code])
  /\ NoWrite /\ Calm

\* create_course, its insert and commit.
InsertCourse(q) ==
  /\ req[q].op = "course"
  /\ MayWrite(q, NoThing)
  /\ LET new == Fresh("course", None, {req[q].code}, None)
     IN  Write({}, IF Accepted(new) THEN new ELSE {})
  /\ Finish(q)
  /\ UNCHANGED role /\ Calm

\* The handlers below insert under the parent id of the URL without looking it up.
Create(kind, parent) ==
  /\ \A q \in Request : MayWrite(q, NoThing)
  /\ LET new == Fresh(kind, parent, {None}, None)
     IN  Accepted(new) /\ Write({}, new)
  /\ UNCHANGED <<role, req>> /\ Calm

CreateModule(course) == Create("module", course)
CreateLesson(module) == Create("lesson", module)
CreateProblem(lesson) == Create("problem", lesson)
CreateDataset(problem) == Create("dataset", problem)
CreateHint(problem) == Create("hint", problem)

\* create_assignment: the assignment is flushed for its id, its list follows, and one
\* commit keeps or drops both.
CreateAssignment(course, problem_ids) ==
  /\ \A q \in Request : MayWrite(q, NoThing)
  /\ LET new == Fresh("assignment", course, {None}, None)
                  \cup Fresh("link", NextId("assignment"), problem_ids, "created")
     IN  Accepted(new) /\ Write({}, new)
  /\ UNCHANGED <<role, req>> /\ Calm

----------------------------------------------------------------------------
(* update_assignment *)

Working(p, a) ==
  \/ req[p].op = "update" /\ req[p].id = a
  \/ req[p].op = "delete" /\ req[p].kind = "assignment" /\ req[p].id = a

\* Two requests that work on assignment a at once: both updates, or one a delete.
\* Two updates that each change a field of the assignment never do (see Lock).
Overlap(q, a, changed) ==
  overlapped \cup {b \in {a} : \E p \in Request \ {q} :
                      Working(p, a) /\ ~ (changed /\ req[p].op = "update" /\ req[p].changed)}

\* The assignment is found, the fields of the payload are assigned, and the select of its
\* list first flushes them if one of them changed.
LoadLinks(q, a, problem_ids, changed) ==
  /\ Live("assignment", a)
  /\ changed => MayWrite(q, {<<"assignment", a>>})
  /\ Begin(q, [op |-> "update", id |-> a, list |-> problem_ids, changed |-> changed,
               seen |-> Links(a)])
  /\ overlapped' = Overlap(q, a, changed)
  /\ NoWrite /\ UNCHANGED <<postgres, excused>>

\* "Replace problems": the rows loaded are deleted, those of the payload inserted.
ReplaceLinks(q) ==
  /\ req[q].op = "update"
  /\ MayWrite(q, NoThing)
  /\ LET new == Fresh("link", req[q].id, req[q].list, q)
     IN  IF Accepted(new) THEN Write(req[q].seen, new) ELSE Write({}, {})
  /\ Finish(q)
  /\ UNCHANGED role /\ Calm

----------------------------------------------------------------------------
(* Deletion: one pattern for the seven handlers. *)

\* The row is loaded, and its collections with it: `known` when they hold anything.
\* `there` is history: all its descendants.
LoadDoomed(q, kind, id) ==
  /\ Live(kind, id)
  /\ Begin(q, [op |-> "delete", kind |-> kind, id |-> id, known |-> Kids(kind, id) # {},
               there |-> Descendants(kind, id)])
  /\ overlapped' = IF kind = "assignment" THEN Overlap(q, id, FALSE) ELSE overlapped
  /\ NoWrite /\ UNCHANGED <<postgres, excused>>

\* No relationship() says cascade or passive_deletes: before its DELETE, SQLAlchemy sets
\* the foreign key of the children it loaded to NULL, which the column refuses; a child
\* that went meanwhile makes that UPDATE match no row, which SQLAlchemy refuses.
RefuseDelete(q) ==
  /\ req[q].op = "delete"
  /\ req[q].known
  /\ Finish(q)
  /\ NoWrite /\ Calm

\* The DELETE: the database takes the rest.  Of a row already gone it takes nothing.
CommitDelete(q) ==
  /\ req[q].op = "delete"
  /\ ~ req[q].known
  /\ LET doomed == {r \in rows : r.kind = req[q].kind /\ r.id = req[q].id}
         gone == Swept(doomed)
     IN  /\ MayWrite(q, {<<r.kind, r.id>> : r \in gone})
         /\ Write(gone, {})
         /\ excused' = excused \cup {r.key : r \in {s \in gone : s.kind = "enrollment"}}
  /\ Finish(q)
  /\ UNCHANGED <<postgres, role, overlapped>>

----------------------------------------------------------------------------
(* Enrollment and teaching assistants *)

\* enroll_in_course, up to its check that the student is not enrolled yet.
CheckEnrolled(q, u, c) ==
  /\ Live("course", c)
  /\ Enrollments(u, c) = {}
  /\ Begin(q, [op |-> "enroll", user |-> u, course |-> c])
  /\ NoWrite /\ Calm

InsertEnrollment(q) ==
  /\ req[q].op = "enroll"
  /\ MayWrite(q, NoThing)
  /\ LET new == Fresh("enrollment", req[q].course, {req[q].user}, "student")
     IN  Write({}, IF Accepted(new) THEN new ELSE {})
  /\ Finish(q)
  /\ UNCHANGED role /\ Calm

\* assign_ta reads the user's role ...
LoadTarget(q, u, c) ==
  /\ Begin(q, [op |-> "ta", user |-> u, course |-> c, role |-> role[u], flushed |-> FALSE,
               seen |-> {}])
  /\ NoWrite /\ Calm

\* ... and selects the enrollment, which flushes the raised role first ...
LoadEnrollment(q) ==
  /\ req[q].op = "ta" /\ ~ req[q].flushed
  /\ req[q].role = "student" => MayWrite(q, {<<"user", req[q].user>>})
  /\ req' = [req EXCEPT ![q].flushed = TRUE,
                        ![q].seen = Enrollments(req[q].user, req[q].course)]
  /\ NoWrite /\ Calm

Retagged(S, tag) == {[r EXCEPT !.tag = tag] : r \in S}

\* Mutant: the role has been committed before the enrollment is written.
CommitTa_RoleFirst(q) ==
  LET u == req[q].user
      new == IF req[q].seen = {} THEN Fresh("enrollment", req[q].course, {u}, "ta") ELSE {}
  IN  /\ req[q].op = "ta" /\ req[q].flushed
      /\ MayWrite(q, NoThing)
      /\ Write({}, IF Accepted(new) THEN new ELSE {})
      /\ role' = IF req[q].role = "student" THEN [role EXCEPT ![u] = "ta"] ELSE role
      /\ Finish(q)
      /\ Calm

\* ... and commits the role and the enrollment together, or neither: the enrollment found
\* may have gone, or one may have been inserted where none was found.
CommitTa(q) ==
  LET u == req[q].user
      seen == req[q].seen
      stale == {r \in seen : r.tag # "ta" /\ ~ Live("enrollment", r.id)}
      here == {r \in rows : r.kind = "enrollment" /\ \E s \in seen : s.id = r.id /\ s.tag # "ta"}
      new == IF seen = {} THEN Fresh("enrollment", req[q].course, {u}, "ta") ELSE {}
      kept == stale = {} /\ Accepted(new)
  IN  /\ req[q].op = "ta" /\ req[q].flushed
      /\ MayWrite(q, NoThing)
      /\ IF kept THEN Write(here, Retagged(here, "ta") \cup new) ELSE Write({}, {})
      /\ role' = IF kept /\ req[q].role = "student" THEN [role EXCEPT ![u] = "ta"] ELSE role
      /\ Finish(q)
      /\ Calm

\* remove_ta selects the enrollment ...
LoadTa(q, u, c) ==
  /\ Enrollments(u, c) # {}
  /\ Begin(q, [op |-> "untag", seen |-> Enrollments(u, c)])
  /\ NoWrite /\ Calm

\* ... and makes it a student's; the user's own role stays.
CommitUntag(q) ==
  /\ req[q].op = "untag"
  /\ MayWrite(q, NoThing)
  /\ LET here == {r \in rows : /\ r.kind = "enrollment"
                               /\ \E s \in req[q].seen : s.id = r.id /\ s.tag = "ta"}
     IN  Write(here, Retagged(here, "student"))
  /\ Finish(q)
  /\ UNCHANGED role /\ Calm

\* assign_role: an admin sets a user's role, whatever it was.
AssignRole(u, r) ==
  /\ \A q \in Request : MayWrite(q, {<<"user", u>>})
  /\ role' = [role EXCEPT ![u] = r]
  /\ excused' = excused \cup {u}
  /\ UNCHANGED <<postgres, rows, lastId, req, overlapped>>

----------------------------------------------------------------------------
Author ==
  \/ \E c \in Id("course") : CreateModule(c)
  \/ \E m \in Id("module") : CreateLesson(m)
  \/ \E l \in Id("lesson") : CreateProblem(l)
  \/ \E p \in Id("problem") : CreateDataset(p) \/ CreateHint(p)
  \/ \E c \in Id("course"), list \in SUBSET Id("problem") : CreateAssignment(c, list)
  \/ \E q \in Request :
       \/ \E code \in Code : CheckCode(q, code)
       \/ InsertCourse(q)
       \/ \E a \in Id("assignment"), list \in SUBSET Id("problem"), changed \in BOOLEAN :
            LoadLinks(q, a, list, changed)
       \/ ReplaceLinks(q)
       \/ \E kind \in Deletable : \E id \in Id(kind) : LoadDoomed(q, kind, id)
       \/ RefuseDelete(q)
       \/ CommitDelete(q)

Staff ==
  \/ \E q \in Request :
       \/ \E u \in User, c \in Id("course") :
            CheckEnrolled(q, u, c) \/ LoadTarget(q, u, c) \/ LoadTa(q, u, c)
       \/ InsertEnrollment(q) \/ LoadEnrollment(q) \/ CommitTa(q) \/ CommitUntag(q)
  \/ \E u \in User, r \in Role : AssignRole(u, r)

Next == Author \/ Staff

Spec == Init /\ [][Next]_vars

----------------------------------------------------------------------------
RequestOK(r) ==
  CASE r.op = "idle" -> r = Idle
    [] r.op = "course" -> r.code \in Code
    [] r.op = "enroll" -> r.user \in User /\ r.course \in Id("course")
    [] r.op = "update" -> r.id \in Ids /\ r.list \subseteq Ids /\ r.seen \subseteq Row
    [] r.op = "delete" -> r.kind \in Deletable /\ r.id \in Ids /\ r.there \subseteq Row
    [] r.op = "ta" -> r.user \in User /\ r.role \in Role /\ Cardinality(r.seen) <= 1
    [] r.op = "untag" -> Cardinality(r.seen) = 1

\* Every row is a row of its table under an id of its own, and every request carries what
\* its handler has read so far: at most one enrollment, as scalar_one_or_none demands.
TypeOK ==
  /\ rows \subseteq Row
  /\ \A r, s \in rows : r.kind = s.kind /\ r.id = s.id => r = s
  /\ \A kind \in Kind : lastId[kind] \in 0 .. MaxId[kind]
  /\ role \in [User -> Role]
  /\ \A q \in Request : RequestOK(req[q])
  /\ overlapped \subseteq Ids /\ excused \subseteq User

\* However the checks of two requests interleave with their inserts, a student is enrolled
\* in a course at most once and a course code names one course (courses.py:76, :174).
KeysUnique ==
  \A r, s \in rows :
    /\ r.kind = s.kind /\ r.key = s.key
    /\ r.kind = "course" \/ (r.kind = "enrollment" /\ r.parent = s.parent)
    => r = s

\* update_assignment replaces the list of an assignment as a whole: two of its entries
\* come from different requests only if an update that changed no field of the assignment,
\* or a delete of it, ran beside another update (admin.py:275).
OneList ==
  \A r, s \in rows :
    r.kind = "link" /\ s.kind = "link" /\ r.parent = s.parent /\ r.tag # s.tag
      => r.parent \in overlapped

\* The descendants that no collection of a row leads to: a course knows nothing of its
\* assignments and their lists, nor a problem of the lists it is on.
Overlooked(kind) ==
  CASE kind = "course" -> {"assignment", "link"}
    [] kind = "problem" -> {"link"}
    [] OTHER -> {}

\* Of all that hung on a row when its handler looked, a delete neither takes with it nor
\* leaves behind any but what it overlooks: modules, lessons, problems, datasets, hints and
\* enrollments it loses were written while it was in flight, and so was an entry of the
\* list of the assignment it deletes (courses.py:142, problems.py:184, admin.py:311).
OnlyLateChildrenLost ==
  [][\A q \in Request :
       req[q].op = "delete" /\ req'[q] = Idle /\ rows' # rows
         => \A r \in req[q].there \cap rows : r.kind \in Overlooked(req[q].kind)]_vars

\* assign_ta is all or nothing, and nothing of it is undone by halves: someone it made a
\* TA is enrolled in a course, and someone enrolled as a TA is more than a student, unless
\* an admin set their role or their enrollment went with its course (admin.py:317).
TaRolesAgree ==
  \A u \in User \ excused :
    /\ role[u] = "ta" => \E r \in rows : r.kind = "enrollment" /\ r.key = u
    /\ (\E r \in rows : r.kind = "enrollment" /\ r.key = u /\ r.tag = "ta")
         => role[u] # "student"

\* What the models say of every child table (ondelete="CASCADE", models/course.py:34): the
\* row a delete names goes, and its children with it.
DeletesCascade ==
  [][\A q \in Request :
       req[q].op = "delete" /\ req'[q] = Idle
         => ~ \E r \in rows' : r.kind = req[q].kind /\ r.id = req[q].id]_vars
=============================================================================
