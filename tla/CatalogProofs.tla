--------------------------- MODULE CatalogProofs ---------------------------
(***************************************************************************)
(* What holds of the catalog for any number of requests, users and rows,   *)
(* in either database.                                                     *)
(*                                                                         *)
(* KeyInv: a keyed row enters through the database's check only.  TypeInv  *)
(* gives every row and everything a request has read its shape, and every  *)
(* id of a table one row.  ListInv: on an assignment that nobody overlaps  *)
(* on, one request at a time works, and it knows all entries of the list.  *)
(* LateInv: a delete that goes through without having known of children    *)
(* saw none but assignments.  TaInv: what assign_ta has read of a user     *)
(* still holds, unless an admin has set the role since.                    *)
(***************************************************************************)
EXTENDS Catalog, FiniteSetTheorems, WellFoundedInduction, TLAPS

Keyed == {"course", "enrollment"}

\* Every row is a record with the fields of Row, whatever their values.
Shaped(S) ==
  \A r \in S : r = [kind |-> r.kind, id |-> r.id, parent |-> r.parent,
                    key |-> r.key, tag |-> r.tag]

KeyInv == KeysUnique /\ Shaped(rows)

\* Deleting rows and inserting rows of tables without a key of their own breaks no key.
LEMMA UnkeyedKeeps ==
  ASSUME KeysUnique,
         NEW old, NEW new,
         rows' = (rows \ old) \cup new,
         \A r \in new : r.kind \notin Keyed
  PROVE  KeysUnique'
BY DEF KeysUnique, Keyed

\* A row the database accepts has a key that no row has.
LEMMA AcceptedKeeps ==
  ASSUME KeysUnique,
         NEW new,
         rows' = rows \cup new,
         Accepted(new),
         \A r, s \in new : r = s
  PROVE  KeysUnique'
<1> SUFFICES ASSUME NEW r \in rows', NEW s \in rows',
                    r.kind = s.kind, r.key = s.key,
                    r.kind = "course" \/ (r.kind = "enrollment" /\ r.parent = s.parent)
             PROVE  r = s
  BY DEF KeysUnique
<1>1. Clash(r, s) /\ Clash(s, r)
  BY DEF Clash
<1>2. CASE r \in rows /\ s \in rows
  BY <1>2 DEF KeysUnique
<1>3. CASE r \in new /\ s \in rows
  BY <1>1, <1>3 DEF Accepted
<1>4. CASE r \in rows /\ s \in new
  BY <1>1, <1>4 DEF Accepted
<1>5. CASE r \in new /\ s \in new
  BY <1>5
<1> QED  BY <1>2, <1>3, <1>4, <1>5

\* Rewriting tags leaves every key where it was.
LEMMA RetaggedKeeps ==
  ASSUME KeysUnique,
         NEW old \in SUBSET rows, NEW tag,
         Shaped(rows),
         rows' = (rows \ old) \cup Retagged(old, tag)
  PROVE  KeysUnique'
<1> SUFFICES ASSUME NEW r \in rows', NEW s \in rows',
                    r.kind = s.kind, r.key = s.key,
                    r.kind = "course" \/ (r.kind = "enrollment" /\ r.parent = s.parent)
             PROVE  r = s
  BY DEF KeysUnique
<1> DEFINE Of(x) == {y \in rows : /\ y.kind = x.kind /\ y.key = x.key /\ y.parent = x.parent
                                  /\ x = IF y \in old THEN [y EXCEPT !.tag = tag] ELSE y}
<1>1. ASSUME NEW x \in rows' PROVE \E y \in rows : y \in Of(x)
  <2>1. CASE x \in rows \ old
    BY <2>1
  <2>2. CASE x \in Retagged(old, tag)
    <3>1. PICK y \in old : x = [y EXCEPT !.tag = tag]
      BY <2>2 DEF Retagged
    <3>2. y = [kind |-> y.kind, id |-> y.id, parent |-> y.parent, key |-> y.key, tag |-> y.tag]
      BY DEF Shaped
    <3>3. x.kind = y.kind /\ x.key = y.key /\ x.parent = y.parent
      BY <3>1, <3>2
    <3> QED  BY <3>1, <3>3
  <2> QED  BY <2>1, <2>2
<1>2. PICK y \in rows : y \in Of(r)  BY <1>1
<1>3. PICK z \in rows : z \in Of(s)  BY <1>1
<1>4. y = z
  BY <1>2, <1>3 DEF KeysUnique
<1> QED  BY <1>2, <1>3, <1>4

LEMMA RetaggedShaped ==
  ASSUME NEW S, NEW tag, Shaped(S)
  PROVE  Shaped(Retagged(S, tag))
<1> SUFFICES ASSUME NEW x \in Retagged(S, tag)
             PROVE  x = [kind |-> x.kind, id |-> x.id, parent |-> x.parent,
                         key |-> x.key, tag |-> x.tag]
  BY DEF Shaped
<1>1. PICK y \in S : x = [y EXCEPT !.tag = tag]
  BY DEF Retagged
<1>2. y = [kind |-> y.kind, id |-> y.id, parent |-> y.parent, key |-> y.key, tag |-> y.tag]
  BY DEF Shaped
<1> QED  BY <1>1, <1>2

\* What Fresh returns: rows of the kind asked for, one for one key.
LEMMA FreshRows ==
  ASSUME NEW kind, NEW parent, NEW keys, NEW tag
  PROVE  /\ Shaped(Fresh(kind, parent, keys, tag))
         /\ \A r \in Fresh(kind, parent, keys, tag) : r.kind = kind
<1> SUFFICES ASSUME NEW r \in Fresh(kind, parent, keys, tag)
             PROVE  /\ r = [kind |-> r.kind, id |-> r.id, parent |-> r.parent,
                            key |-> r.key, tag |-> r.tag]
                    /\ r.kind = kind
  BY DEF Shaped
<1>1. \E i, k : r = [kind |-> kind, id |-> i, parent |-> parent, key |-> k, tag |-> tag]
  BY DEF Fresh
<1> QED  BY <1>1

LEMMA FreshRow ==
  ASSUME NEW kind, NEW parent, NEW k, NEW tag
  PROVE  \A r, s \in Fresh(kind, parent, {k}, tag) : r = s
BY DEF Fresh

\* The one row of a course or of an enrollment, if the database accepts it.
LEMMA InsertKeeps ==
  ASSUME KeyInv,
         NEW kind, NEW parent, NEW k, NEW tag, NEW new,
         new = Fresh(kind, parent, {k}, tag),
         Write({}, IF Accepted(new) THEN new ELSE {})
  PROVE  KeyInv'
<1>1. Shaped(rows')
  BY FreshRows DEF Write, KeyInv, Shaped
<1>2. CASE Accepted(new)
  <2>1. rows' = rows \cup new
    BY <1>2 DEF Write
  <2>2. \A r, s \in new : r = s
    BY FreshRow
  <2>3. KeysUnique'
    BY <1>2, <2>1, <2>2, AcceptedKeeps DEF KeyInv
  <2> QED  BY <1>1, <2>3 DEF KeyInv, Shaped
<1>3. CASE ~ Accepted(new)
  <2>1. rows' = rows
    BY <1>3 DEF Write
  <2> QED  BY <2>1 DEF KeyInv, KeysUnique, Shaped
<1> QED  BY <1>2, <1>3

LEMMA UnkeyedWriteKeeps ==
  ASSUME KeyInv, NEW old, NEW new, Write(old, new), Shaped(new),
         \A r \in new : r.kind \notin Keyed
  PROVE  KeyInv'
<1>1. rows' = (rows \ old) \cup new
  BY DEF Write
<1>2. KeysUnique'
  BY <1>1, UnkeyedKeeps DEF KeyInv
<1>3. Shaped(rows)'
  BY <1>1 DEF Shaped, KeyInv
<1> QED  BY <1>2, <1>3 DEF KeyInv

LEMMA RetaggedWriteKeeps ==
  ASSUME KeyInv, NEW old \in SUBSET rows, NEW tag, Write(old, Retagged(old, tag))
  PROVE  KeyInv'
<1>1. rows' = (rows \ old) \cup Retagged(old, tag)
  BY DEF Write
<1>2. KeysUnique'
  BY <1>1, RetaggedKeeps DEF KeyInv
<1>3. Shaped(old)
  BY DEF Shaped, KeyInv
<1>4. Shaped(rows)'
  BY <1>1, <1>3, RetaggedShaped DEF Shaped, KeyInv
<1> QED  BY <1>2, <1>4 DEF KeyInv

LEMMA CreateKeeps ==
  ASSUME KeyInv, NEW kind, kind \notin Keyed, NEW parent, Create(kind, parent)
  PROVE  KeyInv'
<1> DEFINE new == Fresh(kind, parent, {None}, None)
<1>1. Write({}, new)
  BY DEF Create
<1>2. Shaped(new) /\ \A r \in new : r.kind \notin Keyed
  BY FreshRows
<1> QED  BY <1>1, <1>2, UnkeyedWriteKeeps

LEMMA InitKeys == Init => KeyInv
<1> SUFFICES ASSUME Init PROVE KeyInv
  OBVIOUS
<1>1. CASE rows = {}
  BY <1>1 DEF KeyInv, KeysUnique, Shaped
<1>2. ASSUME NEW code \in Code, rows = Seeded(code) PROVE KeyInv
  <2>1. \A r \in rows : r.kind \in Keyed => r = [Blank EXCEPT !.key = code]
    BY <1>2 DEF Seeded, Blank, Keyed
  <2>2. KeysUnique
    BY <2>1 DEF KeysUnique, Keyed
  <2>3. Shaped(rows)
    <3>1. ASSUME NEW r \in rows
          PROVE  \E k, p, c : r = [kind |-> k, id |-> 1, parent |-> p, key |-> c, tag |-> None]
      <4>1. CASE r = [Blank EXCEPT !.key = code]
        BY <4>1 DEF Blank
      <4>2. CASE \E k \in {"module", "lesson", "problem", "dataset"} :
                   r = [Blank EXCEPT !.kind = k, !.parent = 1]
        BY <4>2 DEF Blank
      <4> QED  BY <1>2, <4>1, <4>2 DEF Seeded
    <3> QED  BY <3>1 DEF Shaped
  <2> QED  BY <2>2, <2>3 DEF KeyInv
<1> QED  BY <1>1, <1>2 DEF Init

LEMMA SameRowsKeep == ASSUME KeyInv, UNCHANGED rows PROVE KeyInv'
BY DEF KeyInv, KeysUnique, Shaped

\* No write of a handler breaks a key: creations and lists insert no keyed rows, deletes
\* insert none at all, the two checked inserts and assign_ta go through the database's
\* check, and the tag of an enrollment is not part of its key.
LEMMA NextKeepsKeys == KeyInv /\ [Next]_vars => KeyInv'
<1> SUFFICES ASSUME KeyInv, [Next]_vars PROVE KeyInv'
  OBVIOUS
<1>1. ASSUME NEW id, \/ CreateModule(id) \/ CreateLesson(id) \/ CreateProblem(id)
                      \/ CreateDataset(id) \/ CreateHint(id)
      PROVE KeyInv'
  <2>1. PICK kind \in {"module", "lesson", "problem", "dataset", "hint"} : Create(kind, id)
    BY <1>1 DEF CreateModule, CreateLesson, CreateProblem, CreateDataset, CreateHint
  <2>2. kind \notin Keyed
    BY DEF Keyed
  <2> QED  BY <2>1, <2>2, CreateKeeps
<1>2. ASSUME NEW c, NEW list, CreateAssignment(c, list) PROVE KeyInv'
  <2> DEFINE a == Fresh("assignment", c, {None}, None)
             l == Fresh("link", NextId("assignment"), list, "created")
  <2>1. Write({}, a \cup l)
    BY <1>2 DEF CreateAssignment
  <2>2. Shaped(a) /\ Shaped(l) /\ (\A r \in a : r.kind = "assignment") /\ (\A r \in l : r.kind = "link")
    BY FreshRows
  <2>3. Shaped(a \cup l) /\ \A r \in a \cup l : r.kind \notin Keyed
    BY <2>2 DEF Shaped, Keyed
  <2> HIDE DEF a, l
  <2> QED  BY <2>1, <2>3, UnkeyedWriteKeeps
<1>3. ASSUME NEW q \in Request, InsertCourse(q) PROVE KeyInv'
  BY <1>3, InsertKeeps DEF InsertCourse
<1>4. ASSUME NEW q \in Request, ReplaceLinks(q) PROVE KeyInv'
  <2> DEFINE new == Fresh("link", req[q].id, req[q].list, q)
  <2>1. Shaped(new) /\ \A r \in new : r.kind \notin Keyed
    BY FreshRows DEF Keyed
  <2>2. Write(req[q].seen, new) \/ Write({}, {})
    BY <1>4 DEF ReplaceLinks
  <2>3. Shaped({})
    BY DEF Shaped
  <2> HIDE DEF new
  <2> QED  BY <2>1, <2>2, <2>3, UnkeyedWriteKeeps
<1>5. ASSUME NEW q \in Request, CommitDelete(q) PROVE KeyInv'
  <2>1. PICK gone : Write(gone, {})
    BY <1>5 DEF CommitDelete
  <2>2. Shaped({})
    BY DEF Shaped
  <2> QED  BY <2>1, <2>2, UnkeyedWriteKeeps
<1>6. ASSUME NEW q \in Request, InsertEnrollment(q) PROVE KeyInv'
  BY <1>6, InsertKeeps DEF InsertEnrollment
<1>7. ASSUME NEW q \in Request, CommitTa(q) PROVE KeyInv'
  <2> DEFINE u == req[q].user
             seen == req[q].seen
             stale == {r \in seen : r.tag # "ta" /\ ~ Live("enrollment", r.id)}
             here == {r \in rows : r.kind = "enrollment" /\ \E s \in seen : s.id = r.id /\ s.tag # "ta"}
             new == IF seen = {} THEN Fresh("enrollment", req[q].course, {u}, "ta") ELSE {}
             kept == stale = {} /\ Accepted(new)
  <2>1. CASE ~ kept
    <3>1. rows' = rows
      BY <1>7, <2>1 DEF CommitTa, Write
    <3> QED  BY <3>1, SameRowsKeep
  <2>2. CASE kept /\ seen = {}
    <3>1. Write({}, Fresh("enrollment", req[q].course, {u}, "ta"))
      <4>1. here = {} /\ Retagged(here, "ta") = {}
        BY <2>2 DEF Retagged
      <4>2. Write(here, Retagged(here, "ta") \cup new)
        BY <1>7, <2>2 DEF CommitTa
      <4> QED  BY <2>2, <4>1, <4>2
    <3>2. Accepted(Fresh("enrollment", req[q].course, {u}, "ta"))
      BY <2>2
    <3> QED  BY <3>1, <3>2, InsertKeeps
  <2>3. CASE kept /\ seen # {}
    <3>1. Write(here, Retagged(here, "ta"))
      BY <1>7, <2>3 DEF CommitTa
    <3>2. here \in SUBSET rows
      OBVIOUS
    <3> HIDE DEF here
    <3> QED  BY <3>1, <3>2, RetaggedWriteKeeps
  <2> QED  BY <2>1, <2>2, <2>3
<1>8. ASSUME NEW q \in Request, CommitUntag(q) PROVE KeyInv'
  <2>1. PICK here \in SUBSET rows : Write(here, Retagged(here, "student"))
    BY <1>8 DEF CommitUntag
  <2> QED  BY <2>1, RetaggedWriteKeeps
<1>9. CASE UNCHANGED rows
  BY <1>9, SameRowsKeep
<1>10. ASSUME NEW q \in Request,
              \/ \E code \in Code : CheckCode(q, code)
              \/ \E a \in Id("assignment"), list \in SUBSET Id("problem"), changed \in BOOLEAN :
                   LoadLinks(q, a, list, changed)
              \/ \E kind \in Deletable : \E id \in Id(kind) : LoadDoomed(q, kind, id)
              \/ RefuseDelete(q)
              \/ \E v \in User, c \in Id("course") :
                   CheckEnrolled(q, v, c) \/ LoadTarget(q, v, c) \/ LoadTa(q, v, c)
              \/ LoadEnrollment(q)
       PROVE UNCHANGED rows
  BY <1>10 DEF CheckCode, LoadLinks, LoadDoomed, RefuseDelete, CheckEnrolled, LoadTarget,
     LoadTa, LoadEnrollment, NoWrite
<1>11. CASE \E u \in User, r \in Role : AssignRole(u, r)
  BY <1>9, <1>11 DEF AssignRole
<1>12. CASE Author
  BY <1>1, <1>2, <1>3, <1>4, <1>5, <1>9, <1>10, <1>12 DEF Author
<1>13. CASE Staff
  BY <1>6, <1>7, <1>8, <1>9, <1>10, <1>11, <1>13 DEF Staff
<1>14. CASE UNCHANGED vars
  BY <1>9, <1>14 DEF vars
<1> QED  BY <1>12, <1>13, <1>14 DEF Next

\* A student is enrolled in a course at most once and a code names one course, for any
\* number of requests in flight, users, codes and rows, and in either database.
THEOREM KeysAreUnique == Spec => []KeysUnique
<1>1. KeyInv => KeysUnique
  BY DEF KeyInv
<1> QED  BY InitKeys, NextKeepsKeys, <1>1, PTL DEF Spec
-----------------------------------------------------------------------------
(* Numbers.                                                                *)

\* A set of numbers has a least one ...
LEMMA Least ==
  ASSUME NEW T \in SUBSET Nat, T # {}
  PROVE  \E m \in T : \A k \in T : m <= k
<1> DEFINE R == OpToRel(<, Nat)
<1>1. IsWellFoundedOn(R, Nat)
  BY NatLessThanWellFounded
<1>2. \A k, m \in Nat : k < m => <<k, m>> \in R
  BY DEF OpToRel
<1> HIDE DEF R
<1>3. PICK m \in T : \A k \in T : ~ (<<k, m>> \in R)
  BY <1>1, WFMin
<1>4. ASSUME NEW k \in T PROVE m <= k
  <2>1. k \in Nat /\ m \in Nat
    OBVIOUS
  <2>2. ~ (k < m)
    BY <1>2, <1>3, <2>1, Zenon
  <2> QED  BY <2>1, <2>2
<1> QED  BY <1>4

\* ... and a greatest one, if it is bounded.
LEMMA Greatest ==
  ASSUME NEW n \in Nat, NEW T \in SUBSET (0 .. n), T # {}
  PROVE  \E m \in T : \A k \in T : k <= m
<1> DEFINE U == {u \in Nat : n - u \in T}
<1>1. U \in SUBSET Nat /\ U # {}
  <2>1. PICK k \in T : TRUE
    OBVIOUS
  <2>2. n - k \in Nat /\ n - (n - k) = k
    OBVIOUS
  <2> QED  BY <2>2
<1>2. PICK u \in U : \A k \in U : u <= k
  <2> HIDE DEF U
  <2> QED  BY <1>1, Least
<1>3. ASSUME NEW k \in T PROVE k <= n - u
  <2>1. n - k \in Nat /\ n - (n - k) = k
    OBVIOUS
  <2> QED  BY <1>2, <2>1
<1> QED  BY <1>2, <1>3

\* The number of keys before k.
Rank(keys, k) == Cardinality({x \in keys : x < k})

\* Ranks count the keys from 0 on, without a gap at the end.
LEMMA Ranks ==
  ASSUME NEW n \in Nat, NEW keys \in SUBSET (0 .. n)
  PROVE  /\ IsFiniteSet(keys) /\ Cardinality(keys) \in Nat
         /\ \A k \in keys : Rank(keys, k) \in 0 .. Cardinality(keys) - 1
         /\ \A k, l \in keys : k < l => Rank(keys, k) < Rank(keys, l)
         /\ keys # {} => \E k \in keys : Rank(keys, k) = Cardinality(keys) - 1
<1>1. IsFiniteSet(keys) /\ Cardinality(keys) \in Nat
  BY FS_Interval, FS_Subset, FS_CardinalityType, 0 \in Int, n \in Int
<1>2. ASSUME NEW S \in SUBSET keys, NEW x \in keys, x \notin S
      PROVE  IsFiniteSet(S) /\ Cardinality(S) \in Nat /\ Cardinality(S) <= Cardinality(keys) - 1
  <2>1. IsFiniteSet(S) /\ Cardinality(S) \in Nat /\ Cardinality(S) <= Cardinality(keys)
        /\ (Cardinality(keys) = Cardinality(S) => keys = S)
    BY <1>1, FS_Subset, FS_CardinalityType
  <2>2. Cardinality(S) # Cardinality(keys)
    BY <1>2, <2>1
  <2> QED  BY <1>1, <2>1, <2>2
<1>3. ASSUME NEW k \in keys PROVE Rank(keys, k) \in 0 .. Cardinality(keys) - 1
  <2> DEFINE S == {x \in keys : x < k}
  <2>1. S \in SUBSET keys /\ k \notin S
    OBVIOUS
  <2>2. Cardinality(S) \in Nat /\ Cardinality(S) <= Cardinality(keys) - 1
    <3> HIDE DEF S
    <3> QED  BY <1>2, <2>1
  <2> QED  BY <1>1, <2>2 DEF Rank
<1>4. ASSUME NEW k \in keys, NEW l \in keys, k < l PROVE Rank(keys, k) < Rank(keys, l)
  <2> DEFINE S == {x \in keys : x < k}
             T == {x \in keys : x < l}
  <2>1. S \in SUBSET T /\ T \in SUBSET keys /\ k \in T /\ k \notin S /\ l \notin T
    <3>1. \A x \in keys : (x < k => x < l) /\ ~ (k < k) /\ ~ (l < l)
      BY <1>4
    <3> QED  BY <1>4, <3>1, Zenon
  <2>2. IsFiniteSet(T) /\ Cardinality(T) \in Nat
    <3> HIDE DEF S, T
    <3> QED  BY <1>2, <2>1
  <2>3. IsFiniteSet(S) /\ Cardinality(S) \in Nat /\ Cardinality(S) <= Cardinality(T)
        /\ (Cardinality(T) = Cardinality(S) => T = S)
    <3> HIDE DEF S, T
    <3> QED  BY <2>1, <2>2, FS_Subset, FS_CardinalityType
  <2>4. Cardinality(S) < Cardinality(T)
    <3> HIDE DEF S, T
    <3> QED  BY <2>1, <2>2, <2>3
  <2> QED  BY <2>4 DEF Rank
<1>5. ASSUME keys # {} PROVE \E k \in keys : Rank(keys, k) = Cardinality(keys) - 1
  <2>1. PICK m \in keys : \A k \in keys : k <= m
    BY <1>5, Greatest
  <2>2. {x \in keys : x < m} = keys \ {m}
    <3>1. \A x \in keys : x \in Int /\ (x < m <=> x # m)
      BY <2>1
    <3> QED  BY <3>1, Zenon
  <2>3. Cardinality(keys \ {m}) = Cardinality(keys) - 1
    BY <1>1, FS_RemoveElement
  <2> QED  BY <2>2, <2>3 DEF Rank
<1> QED  BY <1>1, <1>3, <1>4, <1>5

-----------------------------------------------------------------------------
(* Ids.                                                                    *)

\* The tables: every row has its table's id and a type, ids are not used twice, and in
\* Postgres no id is ahead of its sequence.
RowsOK ==
  /\ postgres \in BOOLEAN
  /\ rows \subseteq Row /\ \A r \in rows : r.id \in Id(r.kind)
  /\ \A r, s \in rows : r.kind = s.kind /\ r.id = s.id => r = s
  /\ lastId \in [Kind -> Nat] /\ \A kind \in Kind : lastId[kind] <= MaxId[kind]
  /\ postgres => \A r \in rows : r.id <= lastId[r.kind]

\* The next id of a table is ahead of all of its rows.
LEMMA NextIdIsFresh ==
  ASSUME RowsOK, NEW kind \in Kind
  PROVE  /\ NextId(kind) \in Nat \ {0}
         /\ \A r \in rows : r.kind = kind => r.id \in Nat /\ r.id < NextId(kind)
         /\ postgres => NextId(kind) = lastId[kind] + 1
<1>0. MaxId[kind] \in Nat
  BY CatalogAssumption
<1>1. \A r \in rows : r.kind = kind => r.id \in 1 .. MaxId[kind]
  BY DEF RowsOK, Id
<1>2. CASE postgres
  BY <1>1, <1>2 DEF RowsOK, NextId
<1>3. CASE ~ postgres
  <2>1. Taken(kind) \in SUBSET (0 .. MaxId[kind]) /\ 0 \in Taken(kind)
    BY <1>0, <1>1 DEF Taken
  <2>2. \E i \in Taken(kind) : \A j \in Taken(kind) : j <= i
    BY <1>0, <2>1, Greatest
  <2> DEFINE m == CHOOSE i \in Taken(kind) : \A j \in Taken(kind) : j <= i
  <2>3. m \in Taken(kind) /\ \A j \in Taken(kind) : j <= m
    BY <2>2
  <2>4. NextId(kind) = 1 + m
    BY <1>3 DEF NextId
  <2> HIDE DEF m
  <2>5. \A r \in rows : r.kind = kind => r.id \in Taken(kind)
    BY DEF Taken
  <2> QED  BY <1>0, <1>1, <1>3, <2>1, <2>3, <2>4, <2>5
<1> QED  BY <1>2, <1>3 DEF RowsOK

OfKind(S, kind) == {r \in S : r.kind = kind}

\* The rows S take the next ids of their tables, one after the other.
Block(S) ==
  \A kind \in Kind :
    /\ IsFiniteSet(OfKind(S, kind))
    /\ \A r \in OfKind(S, kind) :
         r.id \in NextId(kind) .. NextId(kind) + Cardinality(OfKind(S, kind)) - 1
    /\ \A r, s \in OfKind(S, kind) : r.id = s.id => r = s
    /\ OfKind(S, kind) # {} =>
         \E r \in OfKind(S, kind) : r.id = NextId(kind) + Cardinality(OfKind(S, kind)) - 1

LEMMA EmptyBlock == Block({})
<1>1. \A kind : OfKind({}, kind) = {}
  BY DEF OfKind
<1> QED  BY <1>1, FS_EmptySet DEF Block

\* A row inserted alone.
LEMMA FreshOne ==
  ASSUME RowsOK, NEW kind \in Kind \ {"link"}, NEW parent, NEW k, NEW tag
  PROVE  /\ Fresh(kind, parent, {k}, tag)
               = {[kind |-> kind, id |-> NextId(kind), parent |-> parent, key |-> k, tag |-> tag]}
         /\ Block(Fresh(kind, parent, {k}, tag))
<1> DEFINE new == Fresh(kind, parent, {k}, tag)
           row == [kind |-> kind, id |-> NextId(kind), parent |-> parent, key |-> k, tag |-> tag]
<1>0. NextId(kind) \in Nat
  BY NextIdIsFresh
<1>1. new = {row}
  <2>1. NextId(kind) + 0 = NextId(kind)
    BY <1>0
  <2> QED  BY <2>1 DEF Fresh
<1>2. row.kind = kind /\ row.id = NextId(kind)
  OBVIOUS
<1> HIDE DEF new, row
<1>3. ASSUME NEW j \in Kind
      PROVE  OfKind(new, j) = IF j = kind THEN {row} ELSE {}
  BY <1>1, <1>2 DEF OfKind
<1>4. IsFiniteSet({row}) /\ Cardinality({row}) = 1 /\ IsFiniteSet({}) /\ Cardinality({}) = 0
  BY FS_Singleton, FS_EmptySet
<1>5. ASSUME NEW j \in Kind
      PROVE  /\ IsFiniteSet(OfKind(new, j))
             /\ \A r \in OfKind(new, j) :
                  r.id \in NextId(j) .. NextId(j) + Cardinality(OfKind(new, j)) - 1
             /\ \A r, s \in OfKind(new, j) : r.id = s.id => r = s
             /\ OfKind(new, j) # {} =>
                  \E r \in OfKind(new, j) : r.id = NextId(j) + Cardinality(OfKind(new, j)) - 1
  <2>1. CASE j = kind
    <3>1. OfKind(new, j) = {row} /\ Cardinality(OfKind(new, j)) = 1 /\ NextId(j) + 1 - 1 = NextId(j)
      BY <1>0, <1>3, <1>4, <2>1
    <3> QED  BY <1>0, <1>2, <1>4, <2>1, <3>1
  <2>2. CASE j # kind
    BY <1>3, <1>4, <2>2
  <2> QED  BY <2>1, <2>2
<1>6. Block(new)
  BY <1>5 DEF Block
<1> QED  BY <1>1, <1>6 DEF new, row

\* A list of rows inserted together.
LEMMA FreshList ==
  ASSUME RowsOK, NEW parent, NEW keys \in SUBSET Id("problem"), NEW tag
  PROVE  /\ \A r \in Fresh("link", parent, keys, tag) :
              /\ r = [kind |-> "link", id |-> r.id, parent |-> parent, key |-> r.key, tag |-> tag]
              /\ r.key \in keys
         /\ Block(Fresh("link", parent, keys, tag))
<1> DEFINE new == Fresh("link", parent, keys, tag)
           N == NextId("link")
           row(k) == [kind |-> "link", id |-> N + Rank(keys, k), parent |-> parent, key |-> k,
                      tag |-> tag]
<1>0. N \in Nat
  <2>1. "link" \in Kind
    BY DEF Kind, ParentKind
  <2> QED  BY <2>1, NextIdIsFresh
<1>1. new = {row(k) : k \in keys}
  BY DEF Fresh, Rank
<1>2. MaxId["problem"] \in Nat /\ keys \in SUBSET (0 .. MaxId["problem"])
  BY CatalogAssumption DEF Id, Kind, ParentKind
<1>3. /\ IsFiniteSet(keys) /\ Cardinality(keys) \in Nat
      /\ \A k \in keys : Rank(keys, k) \in 0 .. Cardinality(keys) - 1
      /\ \A k, l \in keys : k < l => Rank(keys, k) < Rank(keys, l)
      /\ keys # {} => \E k \in keys : Rank(keys, k) = Cardinality(keys) - 1
  BY <1>2, Ranks
<1>4. \A k : row(k).kind = "link" /\ row(k).id = N + Rank(keys, k) /\ row(k).parent = parent
             /\ row(k).key = k /\ row(k).tag = tag
  OBVIOUS
<1>5. \A r \in new : /\ r = [kind |-> "link", id |-> r.id, parent |-> parent, key |-> r.key, tag |-> tag]
                     /\ r.key \in keys /\ r.kind = "link"
  BY <1>1
<1>6. IsFiniteSet(new) /\ Cardinality(new) = Cardinality(keys)
  <2> DEFINE f == [k \in keys |-> row(k)]
  <2>1. f \in [keys -> new]
    BY <1>1
  <2>2. \A k, l \in keys : f[k] = f[l] => k = l
    BY <1>4
  <2>3. \A r \in new : \E k \in keys : f[k] = r
    BY <1>1
  <2> HIDE DEF f, new
  <2>4. f \in Bijection(keys, new)
    BY <2>1, <2>2, <2>3 DEF Bijection, Injection, Surjection, IsInjective
  <2> QED  BY <1>3, <2>4, FS_Bijection DEF ExistsBijection
<1>7. \A j : OfKind(new, j) = IF j = "link" THEN new ELSE {}
  <2> HIDE DEF new
  <2> QED  BY <1>5 DEF OfKind
<1>8. \A r \in new : r.id \in N .. N + Cardinality(keys) - 1
  <2> SUFFICES ASSUME NEW k \in keys PROVE row(k).id \in N .. N + Cardinality(keys) - 1
    BY <1>1
  <2> QED  BY <1>0, <1>3, <1>4
<1>9. \A r, s \in new : r.id = s.id => r = s
  <2> SUFFICES ASSUME NEW k \in keys, NEW l \in keys, row(k).id = row(l).id PROVE k = l
    BY <1>1
  <2>1. Rank(keys, k) = Rank(keys, l)
    BY <1>0, <1>3, <1>4
  <2>2. k \in Int /\ l \in Int
    BY <1>2
  <2> QED  BY <1>3, <2>1, <2>2
<1>10. new # {} => \E r \in new : r.id = N + Cardinality(keys) - 1
  <2>1. ASSUME new # {} PROVE \E r \in new : r.id = N + Cardinality(keys) - 1
    <3>1. PICK k \in keys : Rank(keys, k) = Cardinality(keys) - 1
      BY <1>1, <1>3, <2>1
    <3>2. row(k) \in new /\ row(k).id = N + (Cardinality(keys) - 1)
      BY <1>1, <1>4, <3>1
    <3> QED  BY <1>0, <1>3, <3>2
  <2> QED  BY <2>1
<1> HIDE DEF new, row
<1>11. Block(new)
  BY <1>6, <1>7, <1>8, <1>9, <1>10, FS_EmptySet DEF Block, N
<1> QED  BY <1>5, <1>11 DEF new

\* Two blocks of different tables.
LEMMA BlocksTogether ==
  ASSUME NEW S, NEW T, Block(S), Block(T), \A s \in S, t \in T : s.kind # t.kind
  PROVE  Block(S \cup T)
<1>1. \A kind : OfKind(S \cup T, kind) = OfKind(S, kind) \/ OfKind(S \cup T, kind) = OfKind(T, kind)
  BY DEF OfKind
<1> QED  BY <1>1 DEF Block
-----------------------------------------------------------------------------
(* Writes.                                                                 *)

\* A row in the making: all of Row but for the range of its id.
Typed(r) ==
  /\ r = [kind |-> r.kind, id |-> r.id, parent |-> r.parent, key |-> r.key, tag |-> r.tag]
  /\ r.kind \in Kind /\ r.parent \in Ids \cup {None}
  /\ r.key \in Code \cup User \cup Ids \cup {None}
  /\ r.tag \in Role \cup Request \cup {"created", None}

\* The sequences of Postgres only advance.
Grown == postgres => \A kind \in Kind : lastId[kind] <= lastId'[kind]

LEMMA IdInIds ==
  ASSUME NEW kind \in Kind, NEW id \in Id(kind)
  PROVE  id \in Ids /\ id \in Nat
BY CatalogAssumption DEF Ids, Id

LEMMA TypedRow ==
  ASSUME NEW r, Typed(r), r.id \in Ids
  PROVE  r \in Row
BY DEF Typed, Row

\* Inserting a block of new rows, whatever goes with it.
LEMMA WriteBlock ==
  ASSUME RowsOK, NEW old, NEW new, Block(new), Write(old, new), UNCHANGED postgres,
         \A r \in new : Typed(r),
         postgres => \A s \in old : s.kind \in Kind => s.id <= lastId[s.kind]
  PROVE  RowsOK' /\ Grown
<1>1. /\ rows' = (rows \ old) \cup new
      /\ new # {} => InBounds(rows')
      /\ \A k \in Kind : lastId'[k] = IF postgres
           THEN lastId[k] + Cardinality({r \in new \ old : r.kind = k /\ r.id > lastId[k]}) ELSE 0
      /\ lastId' = [k \in Kind |-> lastId'[k]]
  BY DEF Write
<1>2. \A k \in Kind : lastId[k] \in Nat /\ MaxId[k] \in Nat /\ lastId[k] <= MaxId[k]
  BY CatalogAssumption DEF RowsOK
<1>3. ASSUME NEW r \in new
      PROVE  /\ r.kind \in Kind /\ r.id \in Id(r.kind) /\ NextId(r.kind) <= r.id
             /\ r.id <= NextId(r.kind) + Cardinality(OfKind(new, r.kind)) - 1
  <2>1. r.kind \in Kind /\ r \in OfKind(new, r.kind)
    BY DEF Typed, OfKind
  <2>2. IsFiniteSet(OfKind(new, r.kind)) /\ Cardinality(OfKind(new, r.kind)) \in Nat
    BY <2>1, FS_CardinalityType DEF Block
  <2>3. r.id \in NextId(r.kind) .. NextId(r.kind) + Cardinality(OfKind(new, r.kind)) - 1
    BY <2>1 DEF Block
  <2>4. NextId(r.kind) \in Nat \ {0}
    BY <2>1, NextIdIsFresh
  <2>5. r.id <= MaxId[r.kind]
    BY <1>1 DEF InBounds
  <2> QED  BY <1>2, <2>1, <2>2, <2>3, <2>4, <2>5 DEF Id
<1>4. rows' \subseteq Row /\ \A r \in rows' : r.id \in Id(r.kind)
  BY <1>1, <1>3, IdInIds, TypedRow DEF RowsOK
<1>5. \A r, s \in rows' : r.kind = s.kind /\ r.id = s.id => r = s
  <2>1. ASSUME NEW r \in new, NEW s \in rows, r.kind = s.kind PROVE r.id # s.id
    <3>1. s.id \in Nat /\ s.id < NextId(r.kind) /\ NextId(r.kind) \in Nat
      BY <1>3, <2>1, NextIdIsFresh
    <3>2. r.id \in Nat /\ NextId(r.kind) <= r.id
      BY <1>3, IdInIds
    <3> QED  BY <3>1, <3>2
  <2>2. ASSUME NEW r \in new, NEW s \in new, r.kind = s.kind, r.id = s.id PROVE r = s
    <3>1. r.kind \in Kind /\ r \in OfKind(new, r.kind) /\ s \in OfKind(new, r.kind)
      BY <2>2 DEF Typed, OfKind
    <3> QED  BY <2>2, <3>1 DEF Block
  <2> QED  BY <1>1, <2>1, <2>2 DEF RowsOK
<1>6. ASSUME postgres, NEW k \in Kind
      PROVE  /\ Cardinality(OfKind(new, k)) \in Nat
             /\ lastId'[k] = lastId[k] + Cardinality(OfKind(new, k))
             /\ lastId'[k] <= MaxId[k]
  <2>1. IsFiniteSet(OfKind(new, k)) /\ Cardinality(OfKind(new, k)) \in Nat
    BY FS_CardinalityType DEF Block
  <2>2. NextId(k) = lastId[k] + 1
    BY <1>6, NextIdIsFresh
  <2>3. {r \in new \ old : r.kind = k /\ r.id > lastId[k]} = OfKind(new, k)
    <3>1. ASSUME NEW r \in new, r.kind = k PROVE r.id > lastId[k] /\ r \notin old
      <4>1. r.id \in Nat /\ r.id > lastId[k]
        BY <1>2, <1>3, <2>2, <3>1, IdInIds
      <4> QED  BY <1>2, <1>6, <3>1, <4>1
    <3> QED  BY <3>1 DEF OfKind
  <2>4. CASE OfKind(new, k) = {}
    BY <1>1, <1>2, <1>6, <2>1, <2>3, <2>4, FS_EmptySet
  <2>5. CASE OfKind(new, k) # {}
    <3>1. PICK r \in OfKind(new, k) : r.id = NextId(k) + Cardinality(OfKind(new, k)) - 1
      BY <2>5 DEF Block
    <3>2. r \in new /\ r.kind = k
      BY <3>1 DEF OfKind
    <3>3. r.id <= MaxId[k]
      BY <1>1, <3>2 DEF InBounds
    <3> QED  BY <1>1, <1>2, <1>6, <2>1, <2>2, <2>3, <3>1, <3>3
  <2> QED  BY <2>4, <2>5
<1>7. lastId' \in [Kind -> Nat] /\ \A k \in Kind : lastId'[k] <= MaxId[k]
  <2>1. ASSUME NEW k \in Kind PROVE lastId'[k] \in Nat /\ lastId'[k] <= MaxId[k]
    <3>1. CASE postgres
      BY <1>2, <1>6, <3>1
    <3>2. CASE ~ postgres
      BY <1>1, <1>2, <3>2
    <3> QED  BY <3>1, <3>2
  <2>2. [k \in Kind |-> lastId'[k]] \in [Kind -> Nat]
    BY <2>1
  <2> QED  BY <1>1, <2>1, <2>2
<1>8. ASSUME postgres, NEW r \in rows' PROVE r.id <= lastId'[r.kind]
  <2>1. CASE r \in rows
    <3>1. r.kind \in Kind /\ r.id \in Nat /\ r.id <= lastId[r.kind]
      BY <1>8, <2>1, IdInIds DEF RowsOK, Row
    <3> QED  BY <1>2, <1>6, <1>8, <3>1
  <2>2. CASE r \in new
    <3>1. r.kind \in Kind /\ r.id \in Nat /\ NextId(r.kind) = lastId[r.kind] + 1
      BY <1>3, <1>8, <2>2, NextIdIsFresh, IdInIds
    <3> QED  BY <1>2, <1>3, <1>6, <1>8, <2>2, <3>1
  <2> QED  BY <1>1, <2>1, <2>2
<1>9. Grown
  BY <1>2, <1>6 DEF Grown
<1> QED  BY <1>4, <1>5, <1>7, <1>8, <1>9 DEF RowsOK

\* Rewriting rows under their ids, or taking them away.
LEMMA WriteKnown ==
  ASSUME RowsOK, NEW old, NEW new, Write(old, new), UNCHANGED postgres,
         \A r \in new : r \in Row /\ \E s \in old \cap rows : s.kind = r.kind /\ s.id = r.id,
         \A r, s \in new : r.kind = s.kind /\ r.id = s.id => r = s
  PROVE  RowsOK' /\ Grown
<1>1. /\ rows' = (rows \ old) \cup new
      /\ \A k \in Kind : lastId'[k] = IF postgres
           THEN lastId[k] + Cardinality({r \in new \ old : r.kind = k /\ r.id > lastId[k]}) ELSE 0
      /\ lastId' = [k \in Kind |-> lastId'[k]]
  BY DEF Write
<1>2. \A k \in Kind : lastId[k] \in Nat /\ MaxId[k] \in Nat /\ lastId[k] <= MaxId[k]
  BY CatalogAssumption DEF RowsOK
<1>3. \A r \in new : r.kind \in Kind /\ r.id \in Id(r.kind) /\ r.id \in Nat
                     /\ (postgres => r.id <= lastId[r.kind])
  BY IdInIds DEF RowsOK, Row
<1>4. ASSUME postgres, NEW k \in Kind PROVE lastId'[k] = lastId[k]
  <2>1. {r \in new \ old : r.kind = k /\ r.id > lastId[k]} = {}
    BY <1>2, <1>3, <1>4
  <2> QED  BY <1>1, <1>2, <1>4, <2>1, FS_EmptySet
<1>5. lastId' \in [Kind -> Nat] /\ (\A k \in Kind : lastId'[k] <= MaxId[k]) /\ Grown
  <2>1. ASSUME NEW k \in Kind PROVE lastId'[k] \in Nat /\ lastId'[k] <= MaxId[k]
    <3>1. CASE postgres
      BY <1>2, <1>4, <3>1
    <3>2. CASE ~ postgres
      BY <1>1, <1>2, <3>2
    <3> QED  BY <3>1, <3>2
  <2>2. [k \in Kind |-> lastId'[k]] \in [Kind -> Nat]
    BY <2>1
  <2>3. Grown
    BY <1>2, <1>4 DEF Grown
  <2> QED  BY <1>1, <2>1, <2>2, <2>3
<1>6. rows' \subseteq Row /\ \A r \in rows' : r.id \in Id(r.kind)
  BY <1>1, <1>3 DEF RowsOK
<1>7. \A r, s \in rows' : r.kind = s.kind /\ r.id = s.id => r = s
  <2>1. ASSUME NEW r \in new, NEW s \in rows \ old PROVE r.kind # s.kind \/ r.id # s.id
    BY DEF RowsOK
  <2> QED  BY <1>1, <2>1 DEF RowsOK
<1>8. postgres => \A r \in rows' : r.id <= lastId'[r.kind]
  BY <1>1, <1>3, <1>4 DEF RowsOK, Row
<1> QED  BY <1>5, <1>6, <1>7, <1>8 DEF RowsOK

\* Nothing is written.
LEMMA WriteNothing ==
  ASSUME RowsOK, UNCHANGED postgres, UNCHANGED <<rows, lastId>> \/ Write({}, {})
  PROVE  RowsOK' /\ Grown /\ rows' = rows
<1>1. CASE UNCHANGED <<rows, lastId>>
  BY <1>1 DEF RowsOK, Grown
<1>2. CASE Write({}, {})
  <2>1. rows' = rows
    BY <1>2 DEF Write
  <2> QED  BY <1>2, <2>1, WriteKnown
<1> QED  BY <1>1, <1>2

\* The tag of some enrollments is rewritten.
LEMMA WriteTags ==
  ASSUME RowsOK, NEW old \in SUBSET rows, NEW tag \in Role, Write(old, Retagged(old, tag)),
         UNCHANGED postgres
  PROVE  /\ RowsOK' /\ Grown
         /\ \A r \in Retagged(old, tag) :
              \E s \in old : /\ r.kind = s.kind /\ r.id = s.id /\ r.parent = s.parent
                             /\ r.key = s.key /\ r.tag = tag
         /\ \A s \in old :
              \E r \in Retagged(old, tag) : /\ r.kind = s.kind /\ r.id = s.id /\ r.parent = s.parent
                                            /\ r.key = s.key /\ r.tag = tag
<1>1. ASSUME NEW s \in old
      PROVE  /\ [s EXCEPT !.tag = tag] = [kind |-> s.kind, id |-> s.id, parent |-> s.parent,
                                          key |-> s.key, tag |-> tag]
             /\ [s EXCEPT !.tag = tag] \in Row
  BY DEF RowsOK, Row
<1>2. \A r \in Retagged(old, tag) :
        r \in Row /\ \E s \in old : /\ r.kind = s.kind /\ r.id = s.id /\ r.parent = s.parent
                                    /\ r.key = s.key /\ r.tag = tag
  BY <1>1 DEF Retagged
<1>3. \A s \in old : 
        \E r \in Retagged(old, tag) : /\ r.kind = s.kind /\ r.id = s.id /\ r.parent = s.parent
                                      /\ r.key = s.key /\ r.tag = tag
  BY <1>1 DEF Retagged
<1>4. \A r, s \in Retagged(old, tag) : r.kind = s.kind /\ r.id = s.id => r = s
  <2> SUFFICES ASSUME NEW x \in old, NEW y \in old,
                      [x EXCEPT !.tag = tag].kind = [y EXCEPT !.tag = tag].kind,
                      [x EXCEPT !.tag = tag].id = [y EXCEPT !.tag = tag].id
               PROVE  x = y
    BY DEF Retagged
  <2> QED  BY <1>1 DEF RowsOK
<1> HIDE DEF Retagged
<1>5. \A r \in Retagged(old, tag) : r \in Row /\ \E s \in old \cap rows : s.kind = r.kind /\ s.id = r.id
  BY <1>2
<1> QED  BY <1>2, <1>3, <1>4, <1>5, WriteKnown
-----------------------------------------------------------------------------
(* Types.                                                                  *)

TaRequest == [op : {"ta"}, user : User, course : Id("course"), role : Role, flushed : BOOLEAN,
              seen : SUBSET Row]

\* What RequestOK leaves open of a request: the list of an update is one of problems, what
\* it has seen are list entries with ids given out before, and assign_ta's is a record of
\* its six fields.
Carries(r) ==
  /\ r.op = "update" => /\ r.list \subseteq Id("problem")
                        /\ \A s \in r.seen : s.kind = "link" /\ (postgres => s.id <= lastId["link"])
  /\ r.op = "ta" => r \in TaRequest

ReqsOK ==
  /\ req = [q \in Request |-> req[q]]
  /\ \A q \in Request : RequestOK(req[q]) /\ Carries(req[q])

\* An enrollment is some user's, a list entry some assignment's.
OwnersOK ==
  \A r \in rows : /\ r.kind = "enrollment" => r.key \in User
                  /\ r.kind = "link" => r.parent \in Ids

TypeInv ==
  /\ KeyInv /\ RowsOK /\ OwnersOK /\ ReqsOK
  /\ role \in [User -> Role] /\ overlapped \subseteq Ids /\ excused \subseteq User

LEMMA TypeInvTypes == TypeInv => TypeOK
BY DEF TypeInv, RowsOK, ReqsOK, TypeOK

LEMMA KindFacts ==
  /\ {"course", "module", "lesson", "problem", "dataset", "hint", "assignment", "link",
      "enrollment"} = Kind
  /\ Deletable \subseteq Kind
BY DEF Kind, ParentKind, Deletable

\* What a request carries, it carries on while others write.
LEMMA StillCarries ==
  ASSUME RowsOK, RowsOK', Grown, UNCHANGED postgres, NEW r, RequestOK(r), Carries(r)
  PROVE  Carries(r)'
<1>1. ASSUME postgres, r.op = "update", NEW s \in r.seen
      PROVE  s.id <= lastId'["link"]
  <2>1. s \in Row /\ s.id <= lastId["link"]
    BY <1>1 DEF RequestOK, Carries
  <2>2. "link" \in Kind
    BY KindFacts
  <2>3. s.id \in Ids /\ lastId["link"] \in Nat /\ lastId'["link"] \in Nat /\ lastId["link"] <= lastId'["link"]
    BY <1>1, <2>1, <2>2 DEF Row, RowsOK, Grown
  <2>4. s.id \in Nat
    BY <2>3, CatalogAssumption DEF Ids, Id
  <2> QED  BY <2>1, <2>3, <2>4
<1> QED  BY <1>1 DEF Carries

\* A request takes its next step.
LEMMA RequestStep ==
  ASSUME RowsOK, RowsOK', Grown, UNCHANGED postgres, ReqsOK,
         NEW q \in Request, NEW r, req' = [req EXCEPT ![q] = r], RequestOK(r), Carries(r)
  PROVE  ReqsOK'
<1>1. req' = [p \in Request |-> IF p = q THEN r ELSE req[p]]
  BY DEF ReqsOK
<1>2. \A p \in Request : RequestOK(req'[p]) /\ Carries(req'[p])
  BY <1>1 DEF ReqsOK
<1>3. ASSUME NEW p \in Request PROVE RequestOK(req[p])' /\ Carries(req[p])'
  <2>1. CASE p = q
    <3>1. Carries(r)'
      BY StillCarries
    <3>2. req'[p] = r
      BY <1>1, <2>1
    <3> QED  BY <3>1, <3>2 DEF RequestOK, Carries
  <2>2. CASE p # q
    <3>1. Carries(req[p]) /\ RequestOK(req[p]) /\ req'[p] = req[p]
      BY <1>1, <2>2 DEF ReqsOK
    <3>2. \A x : RequestOK(x) /\ Carries(x) => Carries(x)'
      BY StillCarries
    <3> QED  BY <3>1, <3>2 DEF RequestOK, Carries
  <2> QED  BY <2>1, <2>2
<1>4. req' = [p \in Request |-> req'[p]]
  BY <1>1
<1> QED  BY <1>3, <1>4 DEF ReqsOK

LEMMA RequestsWait ==
  ASSUME RowsOK, RowsOK', Grown, UNCHANGED <<postgres, req>>, ReqsOK
  PROVE  ReqsOK'
<1>1. ASSUME NEW p \in Request PROVE RequestOK(req[p])' /\ Carries(req[p])'
  <2>1. Carries(req[p]) /\ RequestOK(req[p]) /\ req'[p] = req[p]
    BY DEF ReqsOK
  <2>2. \A x : RequestOK(x) /\ Carries(x) => Carries(x)'
    BY StillCarries
  <2> QED  BY <2>1, <2>2 DEF RequestOK, Carries
<1> QED  BY <1>1 DEF ReqsOK

LEMMA RequestEnds ==
  ASSUME RowsOK, RowsOK', Grown, UNCHANGED postgres, ReqsOK, NEW q \in Request, Finish(q)
  PROVE  ReqsOK'
<1>1. RequestOK(Idle) /\ Carries(Idle)
  BY DEF RequestOK, Carries, Idle
<1> QED  BY <1>1, RequestStep DEF Finish
-----------------------------------------------------------------------------
(* What each handler does to the tables.                                   *)

LEMMA CreateEffect ==
  ASSUME RowsOK, NEW kind \in Kind \ {"course", "link", "enrollment"}, NEW parent \in Ids,
         Create(kind, parent)
  PROVE  /\ RowsOK' /\ Grown /\ UNCHANGED <<postgres, role, req, overlapped, excused>>
         /\ \E x : rows' = rows \cup {x} /\ x.kind = kind /\ x.id = NextId(kind)
<1> DEFINE new == Fresh(kind, parent, {None}, None)
           x == [kind |-> kind, id |-> NextId(kind), parent |-> parent, key |-> None, tag |-> None]
<1>1. new = {x} /\ Block(new)
  BY FreshOne
<1>2. Write({}, new) /\ UNCHANGED <<postgres, role, req, overlapped, excused>>
  BY DEF Create, Calm
<1>3. Typed(x) /\ x.kind = kind /\ x.id = NextId(kind)
  BY DEF Typed
<1> HIDE DEF new, x
<1>4. RowsOK' /\ Grown
  BY <1>1, <1>2, <1>3, WriteBlock
<1>5. rows' = rows \cup {x}
  BY <1>1, <1>2 DEF Write
<1> QED  BY <1>2, <1>3, <1>4, <1>5

LEMMA InsertEffect ==
  ASSUME RowsOK, NEW kind \in {"course", "enrollment"}, NEW parent \in Ids \cup {None},
         NEW k \in Code \cup User, NEW tag \in Role \cup {None},
         NEW new, new = Fresh(kind, parent, {k}, tag),
         Write({}, IF Accepted(new) THEN new ELSE {}), UNCHANGED postgres
  PROVE  /\ RowsOK' /\ Grown
         /\ rows' = rows \cup (IF Accepted(new) THEN
              {[kind |-> kind, id |-> NextId(kind), parent |-> parent, key |-> k, tag |-> tag]} ELSE {})
<1> DEFINE x == [kind |-> kind, id |-> NextId(kind), parent |-> parent, key |-> k, tag |-> tag]
<1>1. kind \in Kind \ {"link"}
  BY KindFacts
<1>2. new = {x} /\ Block(new)
  <2>1. Fresh(kind, parent, {k}, tag) = {x}
    BY <1>1, FreshOne
  <2>2. Block(Fresh(kind, parent, {k}, tag))
    BY <1>1, FreshOne
  <2> HIDE DEF x
  <2> QED  BY <2>1, <2>2
<1>3. Typed(x)
  BY <1>1 DEF Typed
<1> HIDE DEF x
<1>4. CASE Accepted(new)
  <2>1. RowsOK' /\ Grown
    BY <1>2, <1>3, <1>4, WriteBlock
  <2>2. rows' = rows \cup {x}
    BY <1>2, <1>4 DEF Write
  <2> QED  BY <1>4, <2>1, <2>2 DEF x
<1>5. CASE ~ Accepted(new)
  BY <1>5, WriteNothing
<1> QED  BY <1>4, <1>5

LEMMA InsertRow ==
  ASSUME TypeInv, NEW q \in Request, InsertCourse(q) \/ InsertEnrollment(q)
  PROVE  /\ RowsOK' /\ Grown /\ UNCHANGED <<postgres, role, overlapped, excused>> /\ Finish(q)
         /\ rows \subseteq rows'
         /\ \A r \in rows' \ rows :
              /\ r.kind = "course" \/ (r.kind = "enrollment" /\ r.key \in User /\ r.tag = "student")
              /\ r.id = NextId(r.kind)
<1>0. RowsOK /\ ReqsOK
  BY DEF TypeInv
<1>1. CASE InsertCourse(q)
  <2> DEFINE k == req[q].code
             new == Fresh("course", None, {k}, None)
  <2>1. /\ Write({}, IF Accepted(new) THEN new ELSE {}) /\ Finish(q)
        /\ UNCHANGED <<postgres, role, overlapped, excused>>
        /\ k \in Code \cup User /\ None \in Ids \cup {None} /\ None \in Role \cup {None}
        /\ new = Fresh("course", None, {k}, None)
    BY <1>0, <1>1 DEF InsertCourse, Calm, ReqsOK, RequestOK
  <2> HIDE DEF k, new
  <2>2. /\ RowsOK' /\ Grown
        /\ rows' = rows \cup (IF Accepted(new) THEN
             {[kind |-> "course", id |-> NextId("course"), parent |-> None, key |-> k, tag |-> None]} ELSE {})
    BY <1>0, <2>1, InsertEffect
  <2> QED  BY <2>1, <2>2
<1>2. CASE InsertEnrollment(q)
  <2> DEFINE c == req[q].course
             u == req[q].user
             new == Fresh("enrollment", c, {u}, "student")
  <2>1. c \in Id("course")
    BY <1>0, <1>2 DEF InsertEnrollment, ReqsOK, RequestOK
  <2>2. /\ Write({}, IF Accepted(new) THEN new ELSE {}) /\ Finish(q)
        /\ UNCHANGED <<postgres, role, overlapped, excused>> /\ u \in User
        /\ c \in Ids \cup {None} /\ u \in Code \cup User /\ "student" \in Role \cup {None}
        /\ new = Fresh("enrollment", c, {u}, "student")
    BY <1>0, <1>2, <2>1, IdInIds, KindFacts DEF InsertEnrollment, Calm, ReqsOK, RequestOK, Role
  <2> HIDE DEF c, u, new
  <2>3. /\ RowsOK' /\ Grown
        /\ rows' = rows \cup (IF Accepted(new) THEN
             {[kind |-> "enrollment", id |-> NextId("enrollment"), parent |-> c, key |-> u,
               tag |-> "student"]} ELSE {})
    BY <1>0, <2>2, InsertEffect
  <2> QED  BY <2>2, <2>3
<1> QED  BY <1>1, <1>2

LEMMA AssignmentEffect ==
  ASSUME RowsOK, NEW c \in Id("course"), NEW list \in SUBSET Id("problem"), CreateAssignment(c, list)
  PROVE  /\ RowsOK' /\ Grown /\ UNCHANGED <<postgres, role, req, overlapped, excused>>
         /\ NextId("assignment") \in Ids
         /\ \E x, l : /\ rows' = rows \cup {x} \cup l
                      /\ x.kind = "assignment" /\ x.id = NextId("assignment")
                      /\ \A r \in l : r.kind = "link" /\ r.parent = NextId("assignment") /\ r.tag = "created"
<1> DEFINE a == NextId("assignment")
           x == [kind |-> "assignment", id |-> a, parent |-> c, key |-> None, tag |-> None]
           l == Fresh("link", a, list, "created")
<1>1. "assignment" \in Kind \ {"link"} /\ "link" \in Kind /\ "course" \in Kind /\ "problem" \in Kind
  BY KindFacts
<1>2. Fresh("assignment", c, {None}, None) = {x} /\ Block({x})
  <2>1. Fresh("assignment", c, {None}, None) = {x}
    BY <1>1, FreshOne
  <2>2. Block(Fresh("assignment", c, {None}, None))
    BY <1>1, FreshOne
  <2> HIDE DEF x
  <2> QED  BY <2>1, <2>2
<1>3. /\ \A r \in l : /\ r = [kind |-> "link", id |-> r.id, parent |-> a, key |-> r.key, tag |-> "created"]
                      /\ r.key \in list
      /\ Block(l)
  BY FreshList
<1>4. x.kind = "assignment" /\ x.id = a
  OBVIOUS
<1>5. Write({}, {x} \cup l) /\ UNCHANGED <<postgres, role, req, overlapped, excused>>
  BY <1>2 DEF CreateAssignment, Calm
<1>6. Typed(x)
  BY <1>1, IdInIds DEF Typed
<1>7. \A r \in l : r.kind = "link" /\ r.parent = a /\ r.tag = "created"
  BY <1>3
<1> HIDE DEF x, l
<1>8. rows' = rows \cup {x} \cup l /\ InBounds(rows')
  BY <1>5 DEF Write
<1>9. a \in Ids
  <2>1. a \in Nat \ {0} /\ a <= MaxId["assignment"] /\ MaxId["assignment"] \in Nat
    BY <1>1, <1>4, <1>8, NextIdIsFresh, CatalogAssumption DEF InBounds
  <2>2. a \in Id("assignment")
    BY <2>1 DEF Id
  <2> QED  BY <1>1, <2>2, IdInIds
<1>10. \A r \in {x} \cup l : Typed(r)
  <2>1. ASSUME NEW r \in l PROVE Typed(r)
    <3>1. r.key \in Ids
      BY <1>1, <1>3, IdInIds
    <3>2. r = [kind |-> "link", id |-> r.id, parent |-> a, key |-> r.key, tag |-> "created"]
      BY <1>3
    <3>3. r.kind = "link" /\ r.parent = a /\ r.tag = "created"
      BY <1>7
    <3> QED  BY <1>1, <1>9, <3>1, <3>2, <3>3 DEF Typed
  <2> QED  BY <1>6, <2>1
<1>11. Block({x} \cup l)
  BY <1>2, <1>3, <1>4, <1>7, BlocksTogether
<1>12. RowsOK' /\ Grown
  BY <1>5, <1>10, <1>11, WriteBlock
<1> QED  BY <1>4, <1>5, <1>7, <1>8, <1>9, <1>12

LEMMA ReplaceEffect ==
  ASSUME TypeInv, NEW q \in Request, ReplaceLinks(q)
  PROVE  /\ RowsOK' /\ Grown /\ UNCHANGED <<postgres, role, overlapped, excused>> /\ Finish(q)
         /\ req[q].op = "update" /\ req[q].id \in Ids
         /\ \A r \in req[q].seen : r.kind = "link"
         /\ \/ rows' = rows
            \/ \E l : /\ rows' = (rows \ req[q].seen) \cup l
                      /\ \A r \in l : r.kind = "link" /\ r.parent = req[q].id /\ r.tag = q
                      /\ postgres /\ l # {} => Live("assignment", req[q].id)
<1> DEFINE a == req[q].id
           new == Fresh("link", a, req[q].list, q)
<1>1. /\ req[q].op = "update" /\ Finish(q) /\ UNCHANGED <<postgres, role, overlapped, excused>>
      /\ IF Accepted(new) THEN Write(req[q].seen, new) ELSE Write({}, {})
  BY DEF ReplaceLinks, Calm
<1>2. /\ a \in Ids /\ req[q].list \in SUBSET Id("problem") /\ RowsOK
      /\ \A s \in req[q].seen : s.kind = "link" /\ (postgres => s.id <= lastId["link"])
  BY <1>1 DEF TypeInv, ReqsOK, RequestOK, Carries
<1>3. /\ \A r \in new : /\ r = [kind |-> "link", id |-> r.id, parent |-> a, key |-> r.key, tag |-> q]
                        /\ r.key \in req[q].list
      /\ Block(new)
  BY <1>2, FreshList
<1>4. \A r \in new : r.kind = "link" /\ r.parent = a /\ r.tag = q
  BY <1>3
<1> HIDE DEF new
<1>5. \A r \in new : Typed(r)
  <2> SUFFICES ASSUME NEW r \in new PROVE Typed(r)
    OBVIOUS
  <2>1. r.key \in Ids
    BY <1>2, <1>3, IdInIds, KindFacts
  <2>2. r = [kind |-> "link", id |-> r.id, parent |-> a, key |-> r.key, tag |-> q]
    BY <1>3
  <2>3. r.kind = "link" /\ r.parent = a /\ r.tag = q /\ "link" \in Kind
    BY <1>4, KindFacts
  <2> QED  BY <1>2, <2>1, <2>2, <2>3 DEF Typed
<1>6. CASE Accepted(new)
  <2>1. Write(req[q].seen, new)
    BY <1>1, <1>6
  <2>2. postgres => \A s \in req[q].seen : s.kind \in Kind => s.id <= lastId[s.kind]
    BY <1>2
  <2>3. RowsOK' /\ Grown
    BY <1>1, <1>2, <1>3, <1>5, <2>1, <2>2, WriteBlock
  <2>4. rows' = (rows \ req[q].seen) \cup new
    BY <2>1 DEF Write
  <2>5. ASSUME postgres, new # {} PROVE Live("assignment", a)
    <3>1. PICK r \in new : ~ Dangles(r, rows \cup new)
      BY <1>6, <2>5 DEF Accepted
    <3>2. r.kind = "link" /\ r.parent = a
      BY <1>4
    <3>3. PICK s \in rows \cup new : s.kind = "assignment" /\ s.id = a
      BY <3>1, <3>2 DEF Dangles, ParentKind
    <3> QED  BY <1>4, <3>3 DEF Live
  <2> QED  BY <1>1, <1>2, <1>4, <2>3, <2>4, <2>5
<1>7. CASE ~ Accepted(new)
  BY <1>1, <1>2, <1>7, WriteNothing
<1> QED  BY <1>6, <1>7

\* Descendants are rows.
LEMMA DescendantsAreRows ==
  ASSUME NEW kind, NEW id
  PROVE  Descendants(kind, id) \subseteq rows
BY DEF Descendants, Chain, Below

\* What a cascade takes: of an assignment it takes, all list entries too.
LEMMA CascadeTakesLists ==
  ASSUME postgres, NEW D \in SUBSET rows, NEW x \in Swept(D), x.kind = "assignment"
  PROVE  Links(x.id) \subseteq Swept(D)
<1> DEFINE CoursesNamed(S) == \A r \in S : r.kind = "course" => r \in D
           ListsNear(S) == \A r \in S : r.kind = "assignment" => r \in Below(D)
<1>1. CoursesNamed(D) /\ ListsNear(D)
  BY DEF Below
<1>2. ASSUME NEW S, CoursesNamed(S), ListsNear(S) PROVE CoursesNamed(Below(S)) /\ ListsNear(Below(S))
  <2>1. ASSUME NEW r \in Below(S) \ S, r.kind = "course" PROVE FALSE
    BY <2>1 DEF Below, Belongs
  <2>2. ASSUME NEW r \in Below(S) \ S, r.kind = "assignment" PROVE r \in Below(D)
    <3>1. PICK s \in S : s.kind = "course" /\ s.id = r.parent
      BY <2>2 DEF Below, Belongs, ParentKind
    <3>2. s \in D /\ Belongs(r, s) /\ r \in rows
      BY <1>2, <2>2, <3>1 DEF Below, Belongs, ParentKind
    <3> QED  BY <3>2 DEF Below
  <2> QED  BY <1>2, <2>1, <2>2
<1> HIDE DEF CoursesNamed
<1> DEFINE B1 == Below(D)
           B2 == Below(B1)
           B3 == Below(B2)
           B4 == Below(B3)
<1>3. ListsNear(B4)
  <2> HIDE DEF ListsNear
  <2> QED  BY <1>1, <1>2
<1>4. x \in B1
  BY <1>3 DEF Swept, Chain
<1>5. Links(x.id) \subseteq B2
  <2> HIDE DEF B1
  <2>1. ASSUME NEW r \in Links(x.id) PROVE r \in rows /\ Belongs(r, x)
    BY DEF Links, Belongs, ParentKind
  <2> QED  BY <1>4, <2>1 DEF Below
<1>6. B2 \subseteq B4
  <2> HIDE DEF B2
  <2> QED  BY DEF Below
<1> QED  BY <1>5, <1>6 DEF Swept, Chain

LEMMA DeleteEffect ==
  ASSUME TypeInv, NEW q \in Request, CommitDelete(q)
  PROVE  /\ RowsOK' /\ Grown /\ UNCHANGED <<postgres, role, overlapped>> /\ Finish(q)
         /\ req[q].op = "delete" /\ ~ req[q].known /\ excused \subseteq excused' /\ excused' \subseteq User
         /\ \E gone : /\ rows' = rows \ gone
                      /\ \A r \in gone : r.kind = "enrollment" => r.key \in excused'
                      /\ ~ postgres => \A r \in gone : r.kind = req[q].kind /\ r.id = req[q].id
                      /\ postgres => \A x \in gone : x.kind = "assignment" => Links(x.id) \subseteq gone
<1> DEFINE doomed == {r \in rows : r.kind = req[q].kind /\ r.id = req[q].id}
           gone == Swept(doomed)
<1>1. /\ req[q].op = "delete" /\ ~ req[q].known /\ Write(gone, {}) /\ Finish(q)
      /\ excused' = excused \cup {r.key : r \in {s \in gone : s.kind = "enrollment"}}
      /\ UNCHANGED <<postgres, role, overlapped>>
  BY DEF CommitDelete
<1>2. gone \subseteq rows
  BY DEF Swept, Chain, Below
<1>3. ~ postgres => \A r \in gone : r.kind = req[q].kind /\ r.id = req[q].id
  BY DEF Swept
<1>4. ASSUME postgres, NEW x \in gone, x.kind = "assignment" PROVE Links(x.id) \subseteq gone
  <2>1. doomed \in SUBSET rows
    OBVIOUS
  <2> HIDE DEF doomed
  <2> QED  BY <1>4, <2>1, CascadeTakesLists
<1> HIDE DEF gone
<1>5. RowsOK' /\ Grown
  BY <1>1, WriteKnown DEF TypeInv
<1>6. rows' = rows \ gone
  BY <1>1 DEF Write
<1>7. (\A r \in gone : r.kind = "enrollment" => r.key \in excused') /\ excused' \subseteq User
  BY <1>1, <1>2 DEF TypeInv, OwnersOK
<1> QED  BY <1>1, <1>3, <1>4, <1>5, <1>6, <1>7

\* The rows that assign_ta finds, of those it read, to make a TA's.
Found(seen) == {r \in rows : r.kind = "enrollment" /\ \E s \in seen : s.id = r.id /\ s.tag # "ta"}

LEMMA TaEffect ==
  ASSUME TypeInv, NEW q \in Request, CommitTa(q)
  PROVE  /\ RowsOK' /\ Grown /\ UNCHANGED <<postgres, overlapped, excused>> /\ Finish(q)
         /\ req[q].op = "ta" /\ req[q].user \in User
         /\ \/ rows' = rows /\ role' = role
            \/ /\ role' = IF req[q].role = "student" THEN [role EXCEPT ![req[q].user] = "ta"] ELSE role
               /\ \/ /\ req[q].seen = {}
                     /\ \E e : /\ rows' = rows \cup {e}
                               /\ e.kind = "enrollment" /\ e.id = NextId("enrollment")
                               /\ e.key = req[q].user /\ e.tag = "ta"
                  \/ /\ req[q].seen # {}
                     /\ \A r \in req[q].seen : r.tag = "ta" \/ Live("enrollment", r.id)
                     /\ rows' = (rows \ Found(req[q].seen)) \cup Retagged(Found(req[q].seen), "ta")
                     /\ Write(Found(req[q].seen), Retagged(Found(req[q].seen), "ta"))
<1> DEFINE u == req[q].user
           seen == req[q].seen
           stale == {r \in seen : r.tag # "ta" /\ ~ Live("enrollment", r.id)}
           here == Found(seen)
           fresh == Fresh("enrollment", req[q].course, {u}, "ta")
           new == IF seen = {} THEN fresh ELSE {}
           kept == stale = {} /\ Accepted(new)
<1>1. /\ req[q].op = "ta" /\ Finish(q) /\ UNCHANGED <<postgres, overlapped, excused>>
      /\ IF kept THEN Write(here, Retagged(here, "ta") \cup new) ELSE Write({}, {})
      /\ role' = IF kept /\ req[q].role = "student" THEN [role EXCEPT ![u] = "ta"] ELSE role
  BY DEF CommitTa, Calm, Found
<1>2. RowsOK /\ u \in User /\ req[q].course \in Ids
  <2>1. RowsOK /\ u \in User /\ req[q].course \in Id("course")
    BY <1>1 DEF TypeInv, ReqsOK, Carries, TaRequest
  <2> QED  BY <2>1, IdInIds, KindFacts
<1>3. CASE ~ kept
  <2>1. role' = role /\ Write({}, {})
    BY <1>1, <1>3
  <2> HIDE DEF kept
  <2> QED  BY <1>1, <1>2, <2>1, WriteNothing
<1>4. CASE kept /\ seen = {}
  <2>1. here = {} /\ Retagged(here, "ta") = {}
    BY <1>4 DEF Retagged, Found
  <2>2. Write({}, fresh) /\ Accepted(fresh)
    BY <1>1, <1>4, <2>1
  <2>3. role' = IF req[q].role = "student" THEN [role EXCEPT ![u] = "ta"] ELSE role
    BY <1>1, <1>4
  <2> HIDE DEF kept
  <2>4. Write({}, IF Accepted(fresh) THEN fresh ELSE {})
    BY <2>2
  <2> DEFINE e == [kind |-> "enrollment", id |-> NextId("enrollment"), parent |-> req[q].course,
                   key |-> u, tag |-> "ta"]
  <2>5. "ta" \in Role
    BY DEF Role
  <2>6. RowsOK' /\ Grown /\ rows' = rows \cup {e}
    BY <1>1, <1>2, <2>2, <2>4, <2>5, InsertEffect
  <2>7. e.kind = "enrollment" /\ e.id = NextId("enrollment") /\ e.key = u /\ e.tag = "ta"
    OBVIOUS
  <2> HIDE DEF e
  <2> QED  BY <1>1, <1>2, <1>4, <2>3, <2>6, <2>7
<1>5. CASE kept /\ seen # {}
  <2>1. Write(here, Retagged(here, "ta"))
    BY <1>1, <1>5
  <2>2. role' = IF req[q].role = "student" THEN [role EXCEPT ![u] = "ta"] ELSE role
    BY <1>1, <1>5
  <2>3. \A r \in seen : r.tag = "ta" \/ Live("enrollment", r.id)
    BY <1>5
  <2>4. here \in SUBSET rows /\ "ta" \in Role
    BY DEF Found, Role
  <2> HIDE DEF kept, here
  <2>5. RowsOK' /\ Grown
    BY <1>1, <1>2, <2>1, <2>4, WriteTags
  <2>6. rows' = (rows \ here) \cup Retagged(here, "ta")
    BY <2>1 DEF Write
  <2> QED  BY <1>1, <1>2, <1>5, <2>1, <2>2, <2>3, <2>5, <2>6 DEF here
<1> QED  BY <1>3, <1>4, <1>5

LEMMA UntagEffect ==
  ASSUME TypeInv, NEW q \in Request, CommitUntag(q)
  PROVE  /\ RowsOK' /\ Grown /\ UNCHANGED <<postgres, role, overlapped, excused>> /\ Finish(q)
         /\ req[q].op = "untag"
         /\ \E here \in SUBSET {r \in rows : r.kind = "enrollment"} : Write(here, Retagged(here, "student"))
<1> DEFINE here == {r \in rows : /\ r.kind = "enrollment"
                                 /\ \E s \in req[q].seen : s.id = r.id /\ s.tag = "ta"}
<1>1. /\ Write(here, Retagged(here, "student")) /\ Finish(q) /\ req[q].op = "untag"
      /\ UNCHANGED <<postgres, role, overlapped, excused>>
  BY DEF CommitUntag, Calm
<1>2. here \in SUBSET {r \in rows : r.kind = "enrollment"} /\ here \in SUBSET rows /\ "student" \in Role
  BY DEF Role
<1> HIDE DEF here
<1>3. RowsOK' /\ Grown
  BY <1>1, <1>2, WriteTags DEF TypeInv
<1> QED  BY <1>1, <1>2, <1>3

\* Of the other tables, the handlers of teaching assistants touch nothing.
LEMMA TagsOnly ==
  ASSUME TypeInv, NEW q \in Request, CommitTa(q) \/ CommitUntag(q)
  PROVE  /\ Grown /\ UNCHANGED <<postgres, overlapped, excused>> /\ Finish(q)
         /\ \A r : r.kind # "enrollment" => (r \in rows <=> r \in rows')
<1>1. ASSUME NEW here \in SUBSET {r \in rows : r.kind = "enrollment"}, NEW tag \in Role,
             Write(here, Retagged(here, tag)), UNCHANGED postgres
      PROVE  \A r : r.kind # "enrollment" => (r \in rows <=> r \in rows')
  <2>1. \A r \in Retagged(here, tag) : \E s \in here : r.kind = s.kind
    <3>1. here \in SUBSET rows /\ RowsOK
      BY DEF TypeInv
    <3> QED  BY <1>1, <3>1, WriteTags
  <2>2. rows' = (rows \ here) \cup Retagged(here, tag)
    BY <1>1 DEF Write
  <2> QED  BY <2>1, <2>2
<1>2. CASE CommitTa(q)
  <2> DEFINE here == Found(req[q].seen)
  <2>1. here \in SUBSET {r \in rows : r.kind = "enrollment"} /\ "ta" \in Role
    BY DEF Found, Role
  <2>2. UNCHANGED postgres /\ (\/ rows' = rows
                               \/ \E e : rows' = rows \cup {e} /\ e.kind = "enrollment"
                               \/ Write(here, Retagged(here, "ta")))
    BY <1>2, TaEffect
  <2> HIDE DEF here
  <2>3. \A r : r.kind # "enrollment" => (r \in rows <=> r \in rows')
    BY <1>1, <2>1, <2>2
  <2> QED  BY <1>2, <2>3, TaEffect
<1>3. CASE CommitUntag(q)
  <2>1. PICK here \in SUBSET {r \in rows : r.kind = "enrollment"} : Write(here, Retagged(here, "student"))
    BY <1>3, UntagEffect
  <2>2. "student" \in Role /\ UNCHANGED postgres
    BY <1>3, UntagEffect DEF Role
  <2>3. \A r : r.kind # "enrollment" => (r \in rows <=> r \in rows')
    BY <1>1, <2>1, <2>2
  <2> QED  BY <1>3, <2>3, UntagEffect
<1> QED  BY <1>2, <1>3

\* The rows seed.py puts there.
LEMMA InitialRows ==
  ASSUME Init
  PROVE  \A r \in rows : r \in Row /\ r.id = 1 /\ r.kind \in Kind /\ r.kind \notin {"enrollment", "link"}
<1>1. \A kind \in Kind : 1 \in Id(kind)
  BY CatalogAssumption DEF Id
<1>2. ASSUME NEW code \in Code, rows = Seeded(code), NEW r \in rows
      PROVE  r \in Row /\ r.id = 1 /\ r.kind \in Kind /\ r.kind \notin {"enrollment", "link"}
  <2>1. \E k \in {"course", "module", "lesson", "problem", "dataset"}, p \in {1, None}, c \in {code, None} :
          r = [kind |-> k, id |-> 1, parent |-> p, key |-> c, tag |-> None]
    <3>1. CASE r = [Blank EXCEPT !.key = code]
      BY <3>1 DEF Blank
    <3>2. CASE \E k \in {"module", "lesson", "problem", "dataset"} :
                 r = [Blank EXCEPT !.kind = k, !.parent = 1]
      BY <3>2 DEF Blank
    <3> QED  BY <1>2, <3>1, <3>2 DEF Seeded
  <2>2. 1 \in Ids
    BY <1>1, IdInIds, KindFacts
  <2> QED  BY <2>1, <2>2, KindFacts DEF Row
<1> QED  BY <1>2 DEF Init

LEMMA TypeInit == Init => TypeInv
<1> SUFFICES ASSUME Init PROVE TypeInv
  OBVIOUS
<1>1. KeyInv
  BY InitKeys
<1>2. ReqsOK
  <2>1. \A q \in Request : req[q] = Idle
    BY DEF Init
  <2>2. RequestOK(Idle) /\ Carries(Idle)
    BY DEF RequestOK, Carries, Idle
  <2> QED  BY <2>1, <2>2 DEF Init, ReqsOK
<1>3. role \in [User -> Role] /\ overlapped \subseteq Ids /\ excused \subseteq User
  BY DEF Init, Role
<1>4. \A kind \in Kind : MaxId[kind] \in Nat /\ 1 \in Id(kind)
  BY CatalogAssumption DEF Id
<1>5. \A r \in rows : r \in Row /\ r.id = 1 /\ r.kind \in Kind /\ r.kind \notin {"enrollment", "link"}
  BY InitialRows
<1>6. \A r, s \in rows : r.kind = s.kind => r = s
  <2>1. ASSUME NEW code \in Code, rows = Seeded(code), NEW r \in rows, NEW s \in rows, r.kind = s.kind
        PROVE  r = s
    <3> DEFINE Of(k) == IF k = "course" THEN [Blank EXCEPT !.key = code]
                        ELSE [Blank EXCEPT !.kind = k, !.parent = 1]
    <3>1. \A x \in Seeded(code) : x = Of(x.kind)
      BY DEF Seeded, Blank
    <3> HIDE DEF Of
    <3> QED  BY <2>1, <3>1
  <2> QED  BY <2>1 DEF Init
<1>7. RowsOK
  <2>1. lastId \in [Kind -> Nat] /\ \A kind \in Kind : lastId[kind] <= MaxId[kind]
    BY <1>4, CatalogAssumption DEF Init
  <2>2. postgres => \A r \in rows : r.id <= lastId[r.kind]
    BY <1>5 DEF Init, Live
  <2> QED  BY <1>4, <1>5, <1>6, <2>1, <2>2 DEF Init, RowsOK
<1> QED  BY <1>1, <1>2, <1>3, <1>5, <1>7 DEF TypeInv, OwnersOK

LEMMA NoEnrollmentTwice ==
  ASSUME TypeInv, NEW u, NEW c
  PROVE  /\ Cardinality(Enrollments(u, c)) <= 1
         /\ Enrollments(u, c) # {} => Cardinality(Enrollments(u, c)) = 1
<1>1. \A r, s \in Enrollments(u, c) : r = s
  BY DEF TypeInv, KeyInv, KeysUnique, Enrollments
<1>2. CASE Enrollments(u, c) = {}
  BY <1>2, FS_EmptySet
<1>3. ASSUME NEW x, Enrollments(u, c) = {x} PROVE Cardinality(Enrollments(u, c)) = 1
  BY <1>3, FS_Singleton
<1>4. Enrollments(u, c) # {} => \E x : Enrollments(u, c) = {x}
  BY <1>1
<1> QED  BY <1>2, <1>3, <1>4

LEMMA FlushedTa ==
  ASSUME NEW x \in TaRequest, NEW S \in SUBSET Row
  PROVE  LET y == [x EXCEPT !.flushed = TRUE, !.seen = S]
         IN  /\ y \in TaRequest
             /\ y.user = x.user /\ y.role = x.role /\ y.seen = S
<1> DEFINE z == [x EXCEPT !.flushed = TRUE]
<1>1. z \in TaRequest /\ z.user = x.user /\ z.role = x.role
  BY DEF TaRequest
<1> HIDE DEF z
<1> DEFINE y == [z EXCEPT !.seen = S]
<1>2. y \in TaRequest /\ y.user = z.user /\ y.role = z.role /\ y.seen = S
  BY <1>1 DEF TaRequest
<1> QED  BY <1>1, <1>2 DEF z

\* A request reads, and will act on what it has read.
LEMMA ReadStep ==
  ASSUME TypeInv, NEW q \in Request,
         \/ \E code \in Code : CheckCode(q, code)
         \/ \E a \in Id("assignment"), list \in SUBSET Id("problem"), changed \in BOOLEAN :
              LoadLinks(q, a, list, changed)
         \/ \E kind \in Deletable : \E id \in Id(kind) : LoadDoomed(q, kind, id)
         \/ RefuseDelete(q)
         \/ \E u \in User, c \in Id("course") :
              CheckEnrolled(q, u, c) \/ LoadTarget(q, u, c) \/ LoadTa(q, u, c)
         \/ LoadEnrollment(q)
  PROVE  /\ RowsOK' /\ Grown /\ ReqsOK' /\ UNCHANGED <<postgres, rows, lastId, role, excused>>
         /\ overlapped' \subseteq Ids
<1> USE DEF Begin
<1>0. RowsOK /\ ReqsOK /\ overlapped \subseteq Ids
  BY DEF TypeInv
<1>1. UNCHANGED <<postgres, rows, lastId, role, excused>>
  BY DEF CheckCode, LoadLinks, LoadDoomed, RefuseDelete, CheckEnrolled, LoadTarget, LoadTa,
     LoadEnrollment, NoWrite, Calm
<1>2. RowsOK' /\ Grown
  BY <1>0, <1>1, WriteNothing
<1>3. ASSUME NEW r, req' = [req EXCEPT ![q] = r], RequestOK(r), Carries(r) PROVE ReqsOK'
  BY <1>0, <1>1, <1>2, <1>3, RequestStep
<1>4. ASSUME NEW code \in Code, CheckCode(q, code) PROVE ReqsOK' /\ overlapped' \subseteq Ids
  <2> DEFINE r == [op |-> "course", code |-> code]
  <2>1. RequestOK(r) /\ Carries(r)
    BY DEF RequestOK, Carries
  <2>2. req' = [req EXCEPT ![q] = r] /\ overlapped' = overlapped
    BY <1>4 DEF CheckCode, Calm
  <2> HIDE DEF r
  <2> QED  BY <1>0, <1>3, <2>1, <2>2
<1>5. ASSUME NEW a \in Id("assignment"), NEW list \in SUBSET Id("problem"), NEW changed \in BOOLEAN,
             LoadLinks(q, a, list, changed)
      PROVE  ReqsOK' /\ overlapped' \subseteq Ids
  <2> DEFINE r == [op |-> "update", id |-> a, list |-> list, changed |-> changed, seen |-> Links(a)]
  <2>1. a \in Ids /\ list \subseteq Ids
    BY IdInIds, KindFacts
  <2>2. \A s \in Links(a) : s \in Row /\ s.kind = "link" /\ (postgres => s.id <= lastId["link"])
    BY <1>0 DEF Links, RowsOK
  <2>3. RequestOK(r) /\ Carries(r)
    BY <2>1, <2>2 DEF RequestOK, Carries
  <2>4. req' = [req EXCEPT ![q] = r] /\ overlapped' \subseteq Ids
    BY <1>0, <1>5, <2>1 DEF LoadLinks, Overlap
  <2> HIDE DEF r
  <2> QED  BY <1>3, <2>3, <2>4
<1>6. ASSUME NEW kind \in Deletable, NEW id \in Id(kind), LoadDoomed(q, kind, id)
      PROVE  ReqsOK' /\ overlapped' \subseteq Ids
  <2> DEFINE r == [op |-> "delete", kind |-> kind, id |-> id, known |-> Kids(kind, id) # {},
                   there |-> Descendants(kind, id)]
  <2>1. id \in Ids
    BY IdInIds, KindFacts
  <2>2. Descendants(kind, id) \subseteq Row
    BY <1>0, DescendantsAreRows DEF RowsOK
  <2>3. RequestOK(r) /\ Carries(r)
    BY <2>1, <2>2 DEF RequestOK, Carries
  <2>4. req' = [req EXCEPT ![q] = r] /\ overlapped' \subseteq Ids
    BY <1>0, <1>6, <2>1 DEF LoadDoomed, Overlap
  <2> HIDE DEF r
  <2> QED  BY <1>3, <2>3, <2>4
<1>7. CASE RefuseDelete(q)
  <2>1. Finish(q) /\ overlapped' = overlapped
    BY <1>7 DEF RefuseDelete, Calm
  <2> QED  BY <1>0, <1>1, <1>2, <2>1, RequestEnds
<1>8. ASSUME NEW u \in User, NEW c \in Id("course"), CheckEnrolled(q, u, c)
      PROVE  ReqsOK' /\ overlapped' \subseteq Ids
  <2> DEFINE r == [op |-> "enroll", user |-> u, course |-> c]
  <2>1. RequestOK(r) /\ Carries(r)
    BY DEF RequestOK, Carries
  <2>2. req' = [req EXCEPT ![q] = r] /\ overlapped' = overlapped
    BY <1>8 DEF CheckEnrolled, Calm
  <2> HIDE DEF r
  <2> QED  BY <1>0, <1>3, <2>1, <2>2
<1>9. ASSUME NEW u \in User, NEW c \in Id("course"), LoadTarget(q, u, c)
      PROVE  ReqsOK' /\ overlapped' \subseteq Ids
  <2> DEFINE r == [op |-> "ta", user |-> u, course |-> c, role |-> role[u], flushed |-> FALSE,
                   seen |-> {}]
  <2>1. role[u] \in Role /\ Cardinality({}) = 0
    BY FS_EmptySet DEF TypeInv
  <2>2. RequestOK(r) /\ Carries(r)
    BY <2>1 DEF RequestOK, Carries, TaRequest
  <2>3. req' = [req EXCEPT ![q] = r] /\ overlapped' = overlapped
    BY <1>9 DEF LoadTarget, Calm
  <2> HIDE DEF r
  <2> QED  BY <1>0, <1>3, <2>2, <2>3
<1>10. ASSUME NEW u \in User, NEW c \in Id("course"), LoadTa(q, u, c)
      PROVE  ReqsOK' /\ overlapped' \subseteq Ids
  <2> DEFINE r == [op |-> "untag", seen |-> Enrollments(u, c)]
  <2>1. RequestOK(r) /\ Carries(r)
    BY <1>10, NoEnrollmentTwice DEF RequestOK, Carries, LoadTa
  <2>2. req' = [req EXCEPT ![q] = r] /\ overlapped' = overlapped
    BY <1>10 DEF LoadTa, Calm
  <2> HIDE DEF r
  <2> QED  BY <1>0, <1>3, <2>1, <2>2
<1>11. CASE LoadEnrollment(q)
  <2> DEFINE x == req[q]
             S == Enrollments(x.user, x.course)
             r == [x EXCEPT !.flushed = TRUE, !.seen = S]
  <2>1. x \in TaRequest
    BY <1>0, <1>11 DEF LoadEnrollment, ReqsOK, Carries
  <2>2. S \in SUBSET Row
    BY <1>0 DEF Enrollments, RowsOK
  <2>3. req' = [req EXCEPT ![q] = r] /\ overlapped' = overlapped
    BY <1>0, <1>11 DEF LoadEnrollment, Calm, ReqsOK
  <2>4. Cardinality(S) <= 1
    BY NoEnrollmentTwice
  <2> HIDE DEF x, S
  <2>5. r \in TaRequest /\ r.seen = S
    BY <2>1, <2>2, FlushedTa
  <2> HIDE DEF r
  <2>6. RequestOK(r) /\ Carries(r)
    BY <2>4, <2>5 DEF RequestOK, Carries, TaRequest
  <2> QED  BY <1>0, <1>1, <1>2, <1>3, <2>3, <2>6
<1> QED  BY <1>1, <1>2, <1>4, <1>5, <1>6, <1>7, <1>8, <1>9, <1>10, <1>11

LEMMA OwnersStep ==
  ASSUME OwnersOK, \A r \in rows' \ rows : /\ r.kind = "enrollment" => r.key \in User
                                           /\ r.kind = "link" => r.parent \in Ids
  PROVE  OwnersOK'
BY DEF OwnersOK

LEMMA TypeNext == TypeInv /\ [Next]_vars => TypeInv'
<1> SUFFICES ASSUME TypeInv, [Next]_vars PROVE TypeInv'
  OBVIOUS
<1>0. RowsOK /\ OwnersOK /\ ReqsOK /\ role \in [User -> Role] /\ overlapped \subseteq Ids /\ excused \subseteq User
  BY DEF TypeInv
<1>1. KeyInv'
  BY NextKeepsKeys DEF TypeInv
<1>2. ASSUME NEW kind \in Kind \ {"course", "link", "enrollment"}, NEW parent \in Ids, Create(kind, parent)
      PROVE  TypeInv'
  <2>1. /\ RowsOK' /\ Grown /\ UNCHANGED <<postgres, role, req, overlapped, excused>>
        /\ \E x : rows' = rows \cup {x} /\ x.kind = kind
    BY <1>0, <1>2, CreateEffect
  <2>2. OwnersOK'
    BY <1>0, <1>2, <2>1, OwnersStep
  <2>3. ReqsOK'
    BY <1>0, <2>1, RequestsWait
  <2> QED  BY <1>0, <1>1, <2>1, <2>2, <2>3 DEF TypeInv
<1>3. ASSUME NEW id, \/ id \in Id("course") /\ CreateModule(id)
                     \/ id \in Id("module") /\ CreateLesson(id)
                     \/ id \in Id("lesson") /\ CreateProblem(id)
                     \/ id \in Id("problem") /\ (CreateDataset(id) \/ CreateHint(id))
      PROVE  TypeInv'
  <2>1. PICK kind \in {"module", "lesson", "problem", "dataset", "hint"} : Create(kind, id)
    BY <1>3 DEF CreateModule, CreateLesson, CreateProblem, CreateDataset, CreateHint
  <2>2. id \in Ids /\ kind \in Kind \ {"course", "link", "enrollment"}
    BY <1>3, IdInIds, KindFacts
  <2> QED  BY <1>2, <2>1, <2>2
<1>4. ASSUME NEW c \in Id("course"), NEW list \in SUBSET Id("problem"), CreateAssignment(c, list)
      PROVE  TypeInv'
  <2>1. /\ RowsOK' /\ Grown /\ UNCHANGED <<postgres, role, req, overlapped, excused>>
        /\ NextId("assignment") \in Ids
        /\ \E x, l : /\ rows' = rows \cup {x} \cup l
                     /\ x.kind = "assignment"
                     /\ \A r \in l : r.kind = "link" /\ r.parent = NextId("assignment")
    BY <1>0, <1>4, AssignmentEffect
  <2>2. OwnersOK'
    BY <1>0, <2>1, OwnersStep
  <2>3. ReqsOK'
    BY <1>0, <2>1, RequestsWait
  <2> QED  BY <1>0, <1>1, <2>1, <2>2, <2>3 DEF TypeInv
<1>5. ASSUME NEW q \in Request, InsertCourse(q) \/ InsertEnrollment(q)
      PROVE  TypeInv'
  <2>1. /\ RowsOK' /\ Grown /\ UNCHANGED <<postgres, role, overlapped, excused>> /\ Finish(q)
        /\ \A r \in rows' \ rows : r.kind = "course" \/ (r.kind = "enrollment" /\ r.key \in User)
    BY <1>5, InsertRow
  <2>2. OwnersOK'
    BY <1>0, <2>1, OwnersStep
  <2>3. ReqsOK'
    BY <1>0, <2>1, RequestEnds
  <2> QED  BY <1>0, <1>1, <2>1, <2>2, <2>3 DEF TypeInv
<1>7. ASSUME NEW q \in Request, ReplaceLinks(q)
      PROVE  TypeInv'
  <2>1. /\ RowsOK' /\ Grown /\ UNCHANGED <<postgres, role, overlapped, excused>> /\ Finish(q)
        /\ req[q].id \in Ids
        /\ \A r \in rows' \ rows : r.kind = "link" /\ r.parent = req[q].id
    BY <1>7, ReplaceEffect
  <2>2. OwnersOK'
    BY <1>0, <2>1, OwnersStep
  <2>3. ReqsOK'
    BY <1>0, <2>1, RequestEnds
  <2> QED  BY <1>0, <1>1, <2>1, <2>2, <2>3 DEF TypeInv
<1>8. ASSUME NEW q \in Request, CommitDelete(q)
      PROVE  TypeInv'
  <2>1. /\ RowsOK' /\ Grown /\ UNCHANGED <<postgres, role, overlapped>> /\ Finish(q)
        /\ excused' \subseteq User /\ rows' \subseteq rows
    BY <1>8, DeleteEffect
  <2>2. OwnersOK'
    BY <1>0, <2>1, OwnersStep
  <2>3. ReqsOK'
    BY <1>0, <2>1, RequestEnds
  <2> QED  BY <1>0, <1>1, <2>1, <2>2, <2>3 DEF TypeInv
<1>9. ASSUME NEW q \in Request, CommitTa(q)
      PROVE  TypeInv'
  <2>1. /\ RowsOK' /\ Grown /\ UNCHANGED <<postgres, overlapped, excused>> /\ Finish(q)
        /\ req[q].user \in User
        /\ role' = role \/ role' = [role EXCEPT ![req[q].user] = "ta"]
    BY <1>9, TaEffect
  <2>2. \A r \in rows' \ rows : r.kind = "enrollment" /\ r.key \in User
    <3>1. ASSUME NEW e, rows' = rows \cup {e}, e.kind = "enrollment", e.key = req[q].user
          PROVE  \A r \in rows' \ rows : r.kind = "enrollment" /\ r.key \in User
      BY <2>1, <3>1
    <3>2. ASSUME rows' = (rows \ Found(req[q].seen)) \cup Retagged(Found(req[q].seen), "ta"),
                 Write(Found(req[q].seen), Retagged(Found(req[q].seen), "ta"))
          PROVE  \A r \in rows' \ rows : r.kind = "enrollment" /\ r.key \in User
      <4> DEFINE here == Found(req[q].seen)
      <4>1. /\ here \in SUBSET rows /\ "ta" \in Role
            /\ \A r \in here : r.kind = "enrollment" /\ r.key \in User
        BY <1>0 DEF Found, Role, OwnersOK
      <4> HIDE DEF here
      <4>2. \A r \in Retagged(here, "ta") : \E s \in here : r.kind = s.kind /\ r.key = s.key
        BY <1>0, <2>1, <3>2, <4>1, WriteTags DEF here
      <4> QED  BY <3>2, <4>1, <4>2 DEF here
    <3> QED  BY <1>9, <3>1, <3>2, TaEffect
  <2>3. OwnersOK'
    BY <1>0, <2>2, OwnersStep
  <2>4. ReqsOK'
    BY <1>0, <2>1, RequestEnds
  <2>5. role' \in [User -> Role]
    BY <1>0, <2>1 DEF Role
  <2> QED  BY <1>0, <1>1, <2>1, <2>3, <2>4, <2>5 DEF TypeInv
<1>10. ASSUME NEW q \in Request, CommitUntag(q)
       PROVE  TypeInv'
  <2>1. /\ RowsOK' /\ Grown /\ UNCHANGED <<postgres, role, overlapped, excused>> /\ Finish(q)
    BY <1>10, UntagEffect
  <2>2. PICK here \in SUBSET {r \in rows : r.kind = "enrollment"} : Write(here, Retagged(here, "student"))
    BY <1>10, UntagEffect
  <2>3. here \in SUBSET rows /\ "student" \in Role /\ rows' = (rows \ here) \cup Retagged(here, "student")
    BY <2>2 DEF Role, Write
  <2>4. \A r \in Retagged(here, "student") : \E s \in here : r.kind = s.kind /\ r.key = s.key
    BY <1>0, <2>1, <2>2, <2>3, WriteTags
  <2>5. OwnersOK'
    BY <1>0, <2>2, <2>3, <2>4, OwnersStep DEF OwnersOK
  <2>6. ReqsOK'
    BY <1>0, <2>1, RequestEnds
  <2> QED  BY <1>0, <1>1, <2>1, <2>5, <2>6 DEF TypeInv
<1>11. ASSUME NEW u \in User, NEW r \in Role, AssignRole(u, r)
       PROVE  TypeInv'
  <2>1. /\ UNCHANGED <<postgres, rows, lastId, req, overlapped>>
        /\ role' \in [User -> Role] /\ excused' \subseteq User
    BY <1>0, <1>11 DEF AssignRole
  <2>2. RowsOK' /\ Grown
    BY <1>0, <2>1, WriteNothing
  <2>3. ReqsOK'
    BY <1>0, <2>1, <2>2, RequestsWait
  <2> QED  BY <1>0, <1>1, <2>1, <2>2, <2>3 DEF TypeInv, OwnersOK
<1>12. ASSUME NEW q \in Request,
              \/ \E code \in Code : CheckCode(q, code)
              \/ \E a \in Id("assignment"), list \in SUBSET Id("problem"), changed \in BOOLEAN :
                   LoadLinks(q, a, list, changed)
              \/ \E kind \in Deletable : \E id \in Id(kind) : LoadDoomed(q, kind, id)
              \/ RefuseDelete(q)
              \/ \E u \in User, c \in Id("course") :
                   CheckEnrolled(q, u, c) \/ LoadTarget(q, u, c) \/ LoadTa(q, u, c)
              \/ LoadEnrollment(q)
       PROVE  TypeInv'
  BY <1>0, <1>1, <1>12, ReadStep DEF TypeInv, OwnersOK
<1>13. CASE UNCHANGED vars
  <2>1. UNCHANGED <<postgres, rows, lastId, role, req, overlapped, excused>>
    BY <1>13 DEF vars
  <2>2. RowsOK' /\ Grown
    BY <1>0, <2>1, WriteNothing
  <2>3. ReqsOK'
    BY <1>0, <2>1, <2>2, RequestsWait
  <2> QED  BY <1>0, <1>1, <2>1, <2>2, <2>3 DEF TypeInv, OwnersOK
<1>14. CASE Author
  BY <1>3, <1>4, <1>5, <1>7, <1>8, <1>12, <1>14 DEF Author
<1>15. CASE Staff
  BY <1>5, <1>9, <1>10, <1>11, <1>12, <1>15 DEF Staff
<1> QED  BY <1>13, <1>14, <1>15 DEF Next

\* For any number of requests, users and rows, in either database, every row is one of
\* its table under an id no other row of that table has, and what a request has read has
\* its shape.
THEOREM TypeCorrect == Spec => []TypeOK
BY TypeInit, TypeNext, TypeInvTypes, PTL DEF Spec
-----------------------------------------------------------------------------
(* The list of an assignment.  As long as nobody overlaps on assignment a, *)
(* its entries have one origin; an entry's assignment is there; one        *)
(* request at most works on it, and knows all its entries.                 *)

\* The id is given out, and will not be given out again while anybody works on it: in
\* Postgres because the sequence is past it, in SQLite because the row is there.
Used(kind, id) == IF postgres THEN id <= lastId[kind] ELSE Live(kind, id)

ListOK(a) ==
  /\ \A r, s \in Links(a) : r.tag = s.tag
  /\ Links(a) # {} => Live("assignment", a)
  /\ \A p \in Request : Working(p, a) => Used("assignment", a)
  /\ \A p \in Request : req[p].op = "update" /\ req[p].id = a => Links(a) \subseteq req[p].seen
  /\ \A p \in Request : req[p].op = "delete" /\ req[p].kind = "assignment" /\ req[p].id = a /\ ~ req[p].known
                          => Links(a) = {}
  /\ \A p, q \in Request : Working(p, a) /\ Working(q, a) => p = q

ListInv == \A a \in Ids \ overlapped : ListOK(a)

LEMMA ListInvLists == TypeInv /\ ListInv => OneList
BY DEF TypeInv, OwnersOK, ListInv, ListOK, Links, OneList

LEMMA ListInit == Init => ListInv
<1> SUFFICES ASSUME Init, NEW a PROVE ListOK(a)
  BY DEF ListInv
<1>1. Links(a) = {}
  BY InitialRows DEF Links
<1>2. \A p \in Request : req[p].op = "idle"
  BY DEF Init, Idle
<1> QED  BY <1>1, <1>2 DEF ListOK, Working

\* Nothing is added to the list, and who works on the assignment did before.
LEMMA ListWaits ==
  ASSUME NEW a, ListOK(a), Links(a)' \subseteq Links(a),
         (Links(a) # {} => Live("assignment", a))',
         \A p \in Request : Working(p, a)' => /\ Working(p, a) /\ req'[p] = req[p]
                                              /\ Used("assignment", a)'
  PROVE  ListOK(a)'
<1> USE DEF ListOK
<1>1. \A p \in Request : (req[p].op = "update" /\ req[p].id = a => Links(a) \subseteq req[p].seen)'
  BY DEF Working
<1>2. \A p \in Request : (req[p].op = "delete" /\ req[p].kind = "assignment" /\ req[p].id = a /\ ~ req[p].known
                            => Links(a) = {})'
  BY DEF Working
<1>3. (\A p, q \in Request : Working(p, a) /\ Working(q, a) => p = q)'
  OBVIOUS
<1>4. (\A r, s \in Links(a) : r.tag = s.tag)'
  OBVIOUS
<1> QED  BY <1>1, <1>2, <1>3, <1>4

LEMMA NextIdUnused ==
  ASSUME RowsOK, NEW kind \in Kind
  PROVE  ~ Used(kind, NextId(kind))
<1>1. /\ NextId(kind) \in Nat /\ lastId[kind] \in Nat
      /\ \A r \in rows : r.kind = kind => r.id \in Nat /\ r.id < NextId(kind)
      /\ postgres => NextId(kind) = lastId[kind] + 1
  BY NextIdIsFresh DEF RowsOK
<1> QED  BY <1>1 DEF Used, Live

\* An id once given out stays so while rows are only added.
LEMMA UsedStays ==
  ASSUME RowsOK, RowsOK', Grown, UNCHANGED postgres, NEW kind \in Kind, NEW id \in Ids, Used(kind, id),
         ~ postgres /\ Live(kind, id) => Live(kind, id)'
  PROVE  Used(kind, id)'
<1>1. id \in Nat /\ lastId[kind] \in Nat /\ lastId'[kind] \in Nat
  BY CatalogAssumption DEF RowsOK, Ids, Id
<1> QED  BY <1>1 DEF Used, Grown

\* Rows of other tables come and go, and no request begins or ends work on a list.
LEMMA ListsWait ==
  ASSUME TypeInv, ListInv, RowsOK', Grown, UNCHANGED postgres, overlapped \subseteq overlapped',
         \A r : r.kind \in {"link", "assignment"} => (r \in rows <=> r \in rows'),
         \A p \in Request, a \in Ids : Working(p, a)' => Working(p, a) /\ req'[p] = req[p]
  PROVE  ListInv'
<1>1. ASSUME NEW a \in Ids \ overlapped' PROVE ListOK(a)'
  <2>1. ListOK(a)
    BY DEF ListInv
  <2>2. Links(a)' = Links(a)
    BY DEF Links
  <2>3. Live("assignment", a)' = Live("assignment", a)
    BY DEF Live
  <2>4. \A p \in Request : Working(p, a)' => Working(p, a) /\ req'[p] = req[p]
    OBVIOUS
  <2>5. ASSUME NEW p \in Request, Working(p, a) PROVE Used("assignment", a)'
    <3>1. Used("assignment", a)
      BY <2>1, <2>5 DEF ListOK
    <3> QED  BY <2>3, <3>1, UsedStays, KindFacts DEF TypeInv
  <2>6. (Links(a) # {} => Live("assignment", a))'
    BY <2>1, <2>2, <2>3 DEF ListOK
  <2> QED  BY <2>1, <2>2, <2>4, <2>5, <2>6, ListWaits
<1> QED  BY <1>1 DEF ListInv
\* A request that does anything but load an assignment begins no work on a list.
LEMMA WorkElsewhere ==
  ASSUME ReqsOK, NEW q \in Request, NEW r, req' = [req EXCEPT ![q] = r], r.op # "update",
         r.op = "delete" => r.kind # "assignment"
  PROVE  \A p \in Request, a \in Ids : Working(p, a)' => Working(p, a) /\ req'[p] = req[p]
BY DEF ReqsOK, Working

LEMMA WorkEnds ==
  ASSUME ReqsOK, NEW q \in Request, Finish(q)
  PROVE  \A p \in Request, a \in Ids : Working(p, a)' => Working(p, a) /\ req'[p] = req[p]
<1>1. req' = [req EXCEPT ![q] = Idle] /\ Idle.op # "update" /\ Idle.op # "delete"
  BY DEF Finish, Idle
<1> QED  BY <1>1, WorkElsewhere

\* An assignment of its own id comes with a list of one origin.
LEMMA ListCreated ==
  ASSUME TypeInv, ListInv, NEW c \in Id("course"), NEW list \in SUBSET Id("problem"),
         CreateAssignment(c, list)
  PROVE  ListInv'
<1> DEFINE n == NextId("assignment")
<1>0. RowsOK /\ "assignment" \in Kind
  BY KindFacts DEF TypeInv
<1>1. /\ RowsOK' /\ Grown /\ UNCHANGED <<postgres, role, req, overlapped, excused>> /\ n \in Ids
      /\ \E x, l : /\ rows' = rows \cup {x} \cup l
                   /\ x.kind = "assignment" /\ x.id = n
                   /\ \A r \in l : r.kind = "link" /\ r.parent = n /\ r.tag = "created"
  BY <1>0, AssignmentEffect
<1>2. ASSUME NEW a \in Ids \ overlapped' PROVE ListOK(a)'
  <2>1. ListOK(a)
    BY <1>1 DEF ListInv
  <2>2. ~ Used("assignment", n)
    BY <1>0, NextIdUnused
  <2>3. \A p \in Request : Working(p, a)' <=> Working(p, a)
    BY <1>1 DEF Working
  <2>4. Live("assignment", a) => Live("assignment", a)'
    BY <1>1 DEF Live
  <2>5. \A p \in Request : Working(p, a) => Used("assignment", a) /\ Used("assignment", a)'
    BY <1>0, <1>1, <2>1, <2>4, UsedStays DEF ListOK
  <2>6. CASE a # n
    <3>1. Links(a)' = Links(a)
      BY <1>1, <2>6 DEF Links
    <3> QED  BY <1>1, <2>1, <2>3, <2>4, <2>5, <3>1, ListWaits DEF ListOK
  <2>7. CASE a = n
    <3>1. \A p \in Request : ~ Working(p, a)'
      BY <2>2, <2>3, <2>5, <2>7
    <3>2. Links(a) = {}
      <4>1. ~ Live("assignment", a)
        BY <1>0, <2>7, NextIdIsFresh DEF Live
      <4> QED  BY <2>1, <4>1 DEF ListOK
    <3>3. (\A r \in Links(a) : r.tag = "created")' /\ Live("assignment", a)'
      BY <1>1, <2>7, <3>2 DEF Links, Live
    <3> QED  BY <3>1, <3>3 DEF ListOK, Working
  <2> QED  BY <2>6, <2>7
<1> QED  BY <1>2 DEF ListInv

\* An update puts its own list for the one it knows whole.
LEMMA ListReplaced ==
  ASSUME TypeInv, ListInv, NEW q \in Request, ReplaceLinks(q)
  PROVE  ListInv'
<1>0. RowsOK /\ "assignment" \in Kind /\ ReqsOK
  BY KindFacts DEF TypeInv
<1>1. /\ RowsOK' /\ Grown /\ UNCHANGED <<postgres, role, overlapped, excused>>
      /\ req[q].op = "update" /\ req[q].id \in Ids
      /\ \A r \in req[q].seen : r.kind = "link"
      /\ \/ rows' = rows
         \/ \E l : /\ rows' = (rows \ req[q].seen) \cup l
                   /\ \A r \in l : r.kind = "link" /\ r.parent = req[q].id /\ r.tag = q
                   /\ postgres /\ l # {} => Live("assignment", req[q].id)
  BY ReplaceEffect
<1>2. req'[q].op = "idle" /\ \A p \in Request \ {q} : req'[p] = req[p]
  BY <1>0 DEF ReplaceLinks, Finish, Idle, ReqsOK
<1>3. ASSUME NEW a \in Ids \ overlapped' PROVE ListOK(a)'
  <2>1. ListOK(a)
    BY <1>1, <1>3 DEF ListInv
  <2>2. \A p \in Request : Working(p, a)' => p # q /\ Working(p, a) /\ req'[p] = req[p]
    BY <1>2 DEF Working
  <2>3. Live("assignment", a)' <=> Live("assignment", a)
    BY <1>1 DEF Live
  <2>4. \A p \in Request : Working(p, a) => Used("assignment", a)'
    BY <1>0, <1>1, <2>1, <2>3, UsedStays DEF ListOK
  <2>5. CASE rows' = rows
    <3>1. Links(a)' = Links(a)
      BY <2>5 DEF Links
    <3> QED  BY <2>1, <2>2, <2>3, <2>4, <3>1, ListWaits DEF ListOK
  <2>6. ASSUME NEW l, rows' = (rows \ req[q].seen) \cup l,
               \A r \in l : r.kind = "link" /\ r.parent = req[q].id /\ r.tag = q,
               postgres /\ l # {} => Live("assignment", req[q].id)
        PROVE  ListOK(a)'
    <3>1. CASE a # req[q].id
      <4>1. Links(a)' \subseteq Links(a)
        BY <2>6, <3>1 DEF Links
      <4> QED  BY <2>1, <2>2, <2>3, <2>4, <4>1, ListWaits DEF ListOK
    <3>2. CASE a = req[q].id
      <4>1. \A p \in Request : ~ Working(p, a)'
        BY <1>1, <2>1, <2>2, <3>2 DEF ListOK, Working
      <4>2. Links(a)' \subseteq l
        <5>1. Links(a) \subseteq req[q].seen
          BY <1>1, <2>1, <3>2 DEF ListOK
        <5> QED  BY <2>6, <5>1 DEF Links
      <4>3. l # {} => Live("assignment", a)'
        <5>1. ~ postgres => Live("assignment", a)
          BY <1>1, <2>1, <3>2 DEF ListOK, Working, Used
        <5> QED  BY <2>3, <2>6, <3>2, <5>1
      <4>4. (\A r, s \in Links(a) : r.tag = s.tag)' /\ (Links(a) # {} => Live("assignment", a))'
        BY <2>6, <4>2, <4>3
      <4> QED  BY <4>1, <4>4 DEF ListOK, Working
    <3> QED  BY <3>1, <3>2
  <2> QED  BY <1>1, <2>5, <2>6
<1> QED  BY <1>3 DEF ListInv

\* A delete that takes an assignment takes its list, or found it empty.
LEMMA ListDeleted ==
  ASSUME TypeInv, ListInv, NEW q \in Request, CommitDelete(q)
  PROVE  ListInv'
<1>0. RowsOK /\ "assignment" \in Kind /\ ReqsOK
  BY KindFacts DEF TypeInv
<1>1. /\ RowsOK' /\ Grown /\ UNCHANGED <<postgres, role, overlapped>>
      /\ req[q].op = "delete" /\ ~ req[q].known
      /\ \E gone : /\ rows' = rows \ gone
                   /\ ~ postgres => \A r \in gone : r.kind = req[q].kind /\ r.id = req[q].id
                   /\ postgres => \A x \in gone : x.kind = "assignment" => Links(x.id) \subseteq gone
  BY DeleteEffect
<1>2. req'[q].op = "idle" /\ \A p \in Request \ {q} : req'[p] = req[p]
  BY <1>0 DEF CommitDelete, Finish, Idle, ReqsOK
<1>3. ASSUME NEW a \in Ids \ overlapped' PROVE ListOK(a)'
  <2>1. ListOK(a)
    BY <1>1, <1>3 DEF ListInv
  <2>2. \A p \in Request : Working(p, a)' => p # q /\ Working(p, a) /\ req'[p] = req[p]
    BY <1>2 DEF Working
  <2>3. Links(a)' \subseteq Links(a)
    BY <1>1 DEF Links
  <2>4. (Links(a) # {} => Live("assignment", a))'
    <3>1. ASSUME Links(a)' # {}, ~ Live("assignment", a)' PROVE FALSE
      <4>1. PICK gone : /\ rows' = rows \ gone
                        /\ ~ postgres => \A r \in gone : r.kind = req[q].kind /\ r.id = req[q].id
                        /\ postgres => \A x \in gone : x.kind = "assignment" => Links(x.id) \subseteq gone
        BY <1>1
      <4>2. PICK x \in gone : x.kind = "assignment" /\ x.id = a
        BY <2>1, <2>3, <3>1, <4>1 DEF ListOK, Live
      <4>3. CASE postgres
        BY <3>1, <4>1, <4>2, <4>3 DEF Links
      <4>4. CASE ~ postgres
        BY <1>1, <2>1, <2>3, <3>1, <4>1, <4>2, <4>4 DEF ListOK
      <4> QED  BY <4>3, <4>4
    <3> QED  BY <3>1
  <2>5. ASSUME NEW p \in Request, Working(p, a)' PROVE Used("assignment", a)'
    <3>1. Used("assignment", a) /\ ~ (req[q].kind = "assignment" /\ req[q].id = a)
      BY <1>1, <2>1, <2>2, <2>5 DEF ListOK, Working
    <3>2. ~ postgres /\ Live("assignment", a) => Live("assignment", a)'
      BY <1>1, <3>1 DEF Live
    <3> QED  BY <1>0, <1>1, <3>1, <3>2, UsedStays
  <2> QED  BY <2>1, <2>2, <2>3, <2>4, <2>5, ListWaits
<1> QED  BY <1>3 DEF ListInv
\* Whoever begins work on a list knows all of it, and is alone unless it overlaps: two
\* updates that change a field of the assignment exclude each other.
LEMMA ListLoaded ==
  ASSUME TypeInv, ListInv, NEW q \in Request, NEW r, NEW a \in Id("assignment"), NEW changed \in BOOLEAN,
         Begin(q, r), NoWrite, UNCHANGED postgres, Live("assignment", a),
         changed => MayWrite(q, {<<"assignment", a>>}),
         overlapped' = Overlap(q, a, changed),
         \/ r.op = "update" /\ r.id = a /\ r.seen = Links(a)
         \/ r.op = "delete" /\ r.kind = "assignment" /\ r.id = a /\ r.known = (Links(a) # {})
  PROVE  ListInv'
<1>0. /\ RowsOK /\ ReqsOK /\ "assignment" \in Kind /\ UNCHANGED <<postgres, rows, lastId>>
      /\ overlapped \subseteq overlapped'
  BY KindFacts DEF TypeInv, NoWrite, Overlap
<1>1. req'[q] = r /\ \A p \in Request \ {q} : req'[p] = req[p]
  BY <1>0 DEF Begin, ReqsOK
<1>2. ASSUME NEW b \in Ids \ overlapped' PROVE ListOK(b)'
  <2>1. ListOK(b)
    BY <1>0, <1>2 DEF ListInv
  <2>2. Links(b)' = Links(b) /\ Live("assignment", b)' = Live("assignment", b)
        /\ Used("assignment", b)' = Used("assignment", b)
    BY <1>0 DEF Links, Live, Used
  <2>3. CASE a # b
    <3>1. \A p \in Request : Working(p, b)' => Working(p, b) /\ req'[p] = req[p]
      BY <1>1, <2>3 DEF Working
    <3> QED  BY <2>1, <2>2, <3>1, ListWaits DEF ListOK
  <2>4. CASE a = b
    <3>1. ASSUME NEW p \in Request \ {q}, Working(p, a) PROVE FALSE
      <4>1. changed /\ req[p].op = "update" /\ req[p].changed
        BY <1>2, <2>4, <3>1 DEF Overlap
      <4>2. Lock(p) = <<"assignment", a>>
        BY <3>1, <4>1 DEF Lock, Working
      <4>3. <<"assignment", a>> # None
        BY <1>0, CatalogAssumption DEF Id
      <4> QED  BY <4>1, <4>2, <4>3 DEF MayWrite
    <3>2. \A p \in Request : Working(p, a)' => p = q
      BY <1>1, <3>1 DEF Working
    <3>3. Used("assignment", a)
      BY <1>0 DEF Used, Live, RowsOK
    <3>4. \A p \in Request : (req[p].op = "update" /\ req[p].id = a => Links(a) \subseteq req[p].seen)'
      BY <1>1, <2>2, <2>4, <3>2 DEF Working
    <3>5. \A p \in Request : (req[p].op = "delete" /\ req[p].kind = "assignment" /\ req[p].id = a /\ ~ req[p].known
                                => Links(a) = {})'
      BY <1>1, <2>2, <2>4, <3>2 DEF Working
    <3> QED  BY <2>1, <2>2, <2>4, <3>2, <3>3, <3>4, <3>5 DEF ListOK
  <2> QED  BY <2>3, <2>4
<1> QED  BY <1>2 DEF ListInv

LEMMA ListNext == TypeInv /\ ListInv /\ [Next]_vars => ListInv'
<1> SUFFICES ASSUME TypeInv, ListInv, [Next]_vars PROVE ListInv'
  OBVIOUS
<1>0. RowsOK /\ ReqsOK /\ TypeInv'
  BY TypeNext DEF TypeInv
<1>1. RowsOK'
  BY <1>0 DEF TypeInv
<1>2. ASSUME NEW id, \/ id \in Id("course") /\ CreateModule(id)
                     \/ id \in Id("module") /\ CreateLesson(id)
                     \/ id \in Id("lesson") /\ CreateProblem(id)
                     \/ id \in Id("problem") /\ (CreateDataset(id) \/ CreateHint(id))
      PROVE  ListInv'
  <2>1. PICK kind \in {"module", "lesson", "problem", "dataset", "hint"} : Create(kind, id)
    BY <1>2 DEF CreateModule, CreateLesson, CreateProblem, CreateDataset, CreateHint
  <2>2. id \in Ids /\ kind \in Kind \ {"course", "link", "enrollment"}
    BY <1>2, IdInIds, KindFacts
  <2>3. /\ Grown /\ UNCHANGED <<postgres, role, req, overlapped, excused>>
        /\ \E x : rows' = rows \cup {x} /\ x.kind = kind
    BY <1>0, <2>1, <2>2, CreateEffect
  <2>4. \A p \in Request, a \in Ids : Working(p, a)' => Working(p, a) /\ req'[p] = req[p]
    BY <2>3 DEF Working
  <2> QED  BY <1>1, <2>3, <2>4, ListsWait
<1>3. ASSUME NEW q \in Request, InsertCourse(q) \/ InsertEnrollment(q)
      PROVE  ListInv'
  <2>1. /\ Grown /\ UNCHANGED <<postgres, role, overlapped, excused>> /\ Finish(q)
        /\ rows \subseteq rows'
        /\ \A r \in rows' \ rows : r.kind = "course" \/ r.kind = "enrollment"
    BY <1>3, InsertRow
  <2> QED  BY <1>0, <1>1, <2>1, WorkEnds, ListsWait
<1>4. ASSUME NEW q \in Request, CommitTa(q) \/ CommitUntag(q)
      PROVE  ListInv'
  <2>1. /\ Grown /\ UNCHANGED <<postgres, overlapped, excused>> /\ Finish(q)
        /\ \A r : r.kind # "enrollment" => (r \in rows <=> r \in rows')
    BY <1>4, TagsOnly
  <2> QED  BY <1>0, <1>1, <2>1, WorkEnds, ListsWait
<1>5. ASSUME NEW q \in Request, NEW r, req' = [req EXCEPT ![q] = r], r.op # "update",
             r.op = "delete" => r.kind # "assignment", UNCHANGED <<postgres, rows, lastId, overlapped>>
      PROVE  ListInv'
  <2>1. Grown
    BY <1>0, <1>5, WriteNothing
  <2>2. \A p \in Request, a \in Ids : Working(p, a)' => Working(p, a) /\ req'[p] = req[p]
    BY <1>0, <1>5, WorkElsewhere
  <2> QED  BY <1>1, <1>5, <2>1, <2>2, ListsWait
<1>6. ASSUME NEW q \in Request,
             \/ \E code \in Code : CheckCode(q, code)
             \/ \E kind \in Deletable \ {"assignment"} : \E id \in Id(kind) : LoadDoomed(q, kind, id)
             \/ RefuseDelete(q)
             \/ \E u \in User, c \in Id("course") :
                  CheckEnrolled(q, u, c) \/ LoadTarget(q, u, c) \/ LoadTa(q, u, c)
             \/ LoadEnrollment(q)
      PROVE  ListInv'
  <2>1. UNCHANGED <<postgres, rows, lastId, overlapped>>
    BY <1>6 DEF CheckCode, LoadDoomed, RefuseDelete, CheckEnrolled, LoadTarget, LoadTa,
       LoadEnrollment, Calm, NoWrite
  <2>2. CASE LoadEnrollment(q)
    <3> DEFINE x == req[q]
               S == Enrollments(x.user, x.course)
               r == [x EXCEPT !.flushed = TRUE, !.seen = S]
    <3>1. x \in TaRequest
      BY <1>0, <2>2 DEF LoadEnrollment, ReqsOK, Carries
    <3>2. S \in SUBSET Row
      BY <1>0 DEF Enrollments, RowsOK
    <3>3. req' = [req EXCEPT ![q] = r]
      BY <1>0, <2>2 DEF LoadEnrollment, ReqsOK
    <3> HIDE DEF x, S
    <3>4. r.op = "ta"
      BY <3>1, <3>2, FlushedTa DEF TaRequest
    <3> HIDE DEF r
    <3> QED  BY <1>5, <2>1, <3>3, <3>4
  <2>3. CASE RefuseDelete(q)
    <3>1. req' = [req EXCEPT ![q] = Idle] /\ Idle.op # "update" /\ Idle.op # "delete"
      BY <2>3 DEF RefuseDelete, Finish, Idle
    <3> QED  BY <1>5, <2>1, <3>1
  <2>4. ASSUME NEW code \in Code, CheckCode(q, code) PROVE ListInv'
    <3> DEFINE r == [op |-> "course", code |-> code]
    <3>1. req' = [req EXCEPT ![q] = r] /\ r.op # "update" /\ r.op # "delete"
      BY <2>4 DEF CheckCode, Begin
    <3> HIDE DEF r
    <3> QED  BY <1>5, <2>1, <3>1
  <2>5. ASSUME NEW kind \in Deletable \ {"assignment"}, NEW id \in Id(kind), LoadDoomed(q, kind, id)
        PROVE  ListInv'
    <3> DEFINE r == [op |-> "delete", kind |-> kind, id |-> id, known |-> Kids(kind, id) # {},
                     there |-> Descendants(kind, id)]
    <3>1. req' = [req EXCEPT ![q] = r] /\ r.op # "update" /\ r.kind # "assignment"
      BY <2>5 DEF LoadDoomed, Begin
    <3> HIDE DEF r
    <3> QED  BY <1>5, <2>1, <3>1
  <2>6. ASSUME NEW u \in User, NEW c \in Id("course"),
               CheckEnrolled(q, u, c) \/ LoadTarget(q, u, c) \/ LoadTa(q, u, c)
        PROVE  ListInv'
    <3> DEFINE r == IF CheckEnrolled(q, u, c) THEN [op |-> "enroll", user |-> u, course |-> c]
                    ELSE IF LoadTarget(q, u, c)
                    THEN [op |-> "ta", user |-> u, course |-> c, role |-> role[u], flushed |-> FALSE,
                          seen |-> {}]
                    ELSE [op |-> "untag", seen |-> Enrollments(u, c)]
    <3>1. req' = [req EXCEPT ![q] = r]
      BY <2>6 DEF CheckEnrolled, LoadTarget, LoadTa, Begin
    <3>2. r.op # "update" /\ r.op # "delete"
      OBVIOUS
    <3> HIDE DEF r
    <3> QED  BY <1>5, <2>1, <3>1, <3>2
  <2> QED  BY <1>6, <2>2, <2>3, <2>4, <2>5, <2>6
<1>7. ASSUME NEW q \in Request, NEW a \in Id("assignment"),
             \/ \E list \in SUBSET Id("problem"), changed \in BOOLEAN : LoadLinks(q, a, list, changed)
             \/ LoadDoomed(q, "assignment", a)
      PROVE  ListInv'
  <2>1. ASSUME NEW list \in SUBSET Id("problem"), NEW changed \in BOOLEAN, LoadLinks(q, a, list, changed)
        PROVE  ListInv'
    <3> DEFINE r == [op |-> "update", id |-> a, list |-> list, changed |-> changed, seen |-> Links(a)]
    <3>1. /\ Begin(q, r) /\ NoWrite /\ UNCHANGED postgres /\ Live("assignment", a)
          /\ changed => MayWrite(q, {<<"assignment", a>>})
          /\ overlapped' = Overlap(q, a, changed)
          /\ r.op = "update" /\ r.id = a /\ r.seen = Links(a)
      BY <2>1 DEF LoadLinks
    <3> HIDE DEF r
    <3> QED  BY <3>1, ListLoaded
  <2>2. ASSUME LoadDoomed(q, "assignment", a) PROVE ListInv'
    <3> DEFINE r == [op |-> "delete", kind |-> "assignment", id |-> a, known |-> Kids("assignment", a) # {},
                     there |-> Descendants("assignment", a)]
    <3>1. Kids("assignment", a) = Links(a)
      BY DEF Kids, Links, Collection
    <3>2. /\ Begin(q, r) /\ NoWrite /\ UNCHANGED postgres /\ Live("assignment", a)
          /\ overlapped' = Overlap(q, a, FALSE)
          /\ r.op = "delete" /\ r.kind = "assignment" /\ r.id = a /\ r.known = (Links(a) # {})
      BY <2>2, <3>1 DEF LoadDoomed
    <3> HIDE DEF r
    <3> QED  BY <3>2, ListLoaded
  <2> QED  BY <1>7, <2>1, <2>2
<1>8. ASSUME NEW u \in User, NEW r \in Role, AssignRole(u, r)
      PROVE  ListInv'
  <2>1. UNCHANGED <<postgres, rows, lastId, req, overlapped>>
    BY <1>8 DEF AssignRole
  <2>2. Grown /\ \A p \in Request, a \in Ids : Working(p, a)' => Working(p, a) /\ req'[p] = req[p]
    BY <1>0, <2>1, WriteNothing DEF Working
  <2> QED  BY <1>1, <2>1, <2>2, ListsWait
<1>9. CASE UNCHANGED vars
  <2>1. UNCHANGED <<postgres, rows, lastId, req, overlapped>>
    BY <1>9 DEF vars
  <2>2. Grown /\ \A p \in Request, a \in Ids : Working(p, a)' => Working(p, a) /\ req'[p] = req[p]
    BY <1>0, <2>1, WriteNothing DEF Working
  <2> QED  BY <1>1, <2>1, <2>2, ListsWait
<1>10. CASE Author
  BY <1>2, <1>3, <1>6, <1>7, <1>10, ListCreated, ListReplaced, ListDeleted DEF Author
<1>11. CASE Staff
  BY <1>3, <1>4, <1>6, <1>8, <1>11 DEF Staff
<1> QED  BY <1>9, <1>10, <1>11 DEF Next

\* The list an assignment shows is one request's, in either database, unless an update
\* that changes no field of it, or a delete of it, ran beside another update: the UPDATE
\* of the row that autoflush sends first is all that keeps two updates apart.
THEOREM ListsAreWhole == Spec => []OneList
BY TypeInit, TypeNext, ListInit, ListNext, ListInvLists, PTL DEF Spec
-----------------------------------------------------------------------------
(* What a delete loses.                                                    *)

\* The descendants of a row whose collections are empty: what hangs on it directly is
\* overlooked, on an assignment hang list entries, and on those nothing.
LEMMA DescendantsOverlooked ==
  ASSUME RowsOK, NEW kind \in Deletable, NEW id, Kids(kind, id) = {}
  PROVE  \A r \in Descendants(kind, id) : r.kind \in Overlooked(kind)
<1> DEFINE row == {r \in rows : r.kind = kind /\ r.id = id}
           Fine(S) == \A s \in S : s \in row \/ s.kind \in Overlooked(kind)
<1>1. ASSUME NEW r \in rows, NEW s \in row, Belongs(r, s)
      PROVE  r.kind \in Overlooked(kind)
  <2>1. r.kind \in Kind /\ s.kind = kind /\ s.id = id
    BY DEF RowsOK, Row
  <2>2. CASE r.kind # "course" /\ kind = ParentKind[r.kind] /\ id = r.parent
    <3>1. ~ (kind \in DOMAIN Collection /\ r.kind \in Collection[kind])
      BY <2>2 DEF Kids
    <3>2. r.kind # "assignment" => kind \in DOMAIN Collection /\ r.kind \in Collection[kind]
      BY <2>1, <2>2, KindFacts DEF ParentKind, Collection
    <3>3. r.kind = "assignment" /\ kind = "course"
      BY <2>2, <3>1, <3>2 DEF ParentKind
    <3> QED  BY <3>3 DEF Overlooked
  <2>3. CASE r.kind = "link" /\ kind = "problem"
    BY <2>3 DEF Overlooked
  <2> QED  BY <1>1, <2>1, <2>2, <2>3 DEF Belongs
<1>2. ASSUME NEW r \in rows, NEW s, s.kind \in Overlooked(kind), Belongs(r, s)
      PROVE  r.kind \in Overlooked(kind)
  <2>1. s.kind \in {"assignment", "link"} /\ (s.kind = "assignment" => kind = "course")
    BY <1>2 DEF Overlooked, Deletable
  <2>2. r.kind \in Kind
    BY DEF RowsOK, Row
  <2>3. r.kind = "link" /\ s.kind = "assignment"
    BY <1>2, <2>1, <2>2, KindFacts DEF Belongs, ParentKind
  <2> QED  BY <2>1, <2>3 DEF Overlooked
<1>3. ASSUME NEW S, Fine(S) PROVE Fine(Below(S))
  <2>1. ASSUME NEW r \in Below(S) PROVE r \in row \/ r.kind \in Overlooked(kind)
    <3>1. CASE r \in S
      BY <1>3, <3>1
    <3>2. CASE r \notin S
      <4>1. PICK s \in S : r \in rows /\ Belongs(r, s)
        BY <3>2, <2>1 DEF Below
      <4> QED  BY <1>1, <1>2, <1>3, <4>1
    <3> QED  BY <3>1, <3>2
  <2> QED  BY <2>1
<1>4. Fine(row)
  OBVIOUS
<1>5. Fine(Chain(row))
  <2> HIDE DEF Fine, row
  <2> QED  BY <1>3, <1>4 DEF Chain
<1> QED  BY <1>5 DEF Descendants

\* A delete that knows of no children saw none but those it overlooks.
LateInv ==
  \A q \in Request : req[q].op = "delete" /\ ~ req[q].known
                       => \A r \in req[q].there : r.kind \in Overlooked(req[q].kind)

\* Only LoadDoomed begins a delete, and only its commit or its refusal ends it.
LEMMA DeleteSteps ==
  ASSUME TypeInv, [Next]_vars, NEW q \in Request
  PROVE  /\ req'[q].op = "delete" => \/ req'[q] = req[q]
                                     \/ \E kind \in Deletable : \E id \in Id(kind) : LoadDoomed(q, kind, id)
         /\ req[q].op = "delete" => req'[q] = req[q] \/ RefuseDelete(q) \/ CommitDelete(q)
<1> DEFINE Goal ==
      /\ req'[q].op = "delete" => \/ req'[q] = req[q]
                                  \/ \E kind \in Deletable : \E id \in Id(kind) : LoadDoomed(q, kind, id)
      /\ req[q].op = "delete" => req'[q] = req[q] \/ RefuseDelete(q) \/ CommitDelete(q)
<1>0. ReqsOK
  BY DEF TypeInv
<1>1. ASSUME NEW p \in Request, NEW r, req' = [req EXCEPT ![p] = r],
             p = q => r.op # "delete" /\ req[p].op # "delete"
      PROVE  Goal
  <2>1. p # q => req'[q] = req[q]
    BY <1>0, <1>1 DEF ReqsOK
  <2>2. p = q => req'[q] = r
    BY <1>0, <1>1 DEF ReqsOK
  <2> QED  BY <1>1, <2>1, <2>2
<1>2. ASSUME NEW p \in Request,
             \/ InsertCourse(p) \/ ReplaceLinks(p) \/ RefuseDelete(p) \/ CommitDelete(p)
             \/ InsertEnrollment(p) \/ CommitTa(p) \/ CommitUntag(p)
      PROVE  Goal
  <2>1. req' = [req EXCEPT ![p] = Idle] /\ Idle.op # "delete"
    BY <1>2 DEF InsertCourse, ReplaceLinks, RefuseDelete, CommitDelete, InsertEnrollment, CommitTa,
       CommitUntag, Finish, Idle
  <2>2. p # q => Goal
    BY <1>1, <2>1
  <2>3. \/ RefuseDelete(p) \/ CommitDelete(p) \/ req[p].op # "delete"
    BY <1>2 DEF InsertCourse, ReplaceLinks, InsertEnrollment, CommitTa, CommitUntag
  <2>4. p = q => Goal
    <3>1. req'[p] = Idle
      BY <1>0, <2>1 DEF ReqsOK
    <3> QED  BY <2>1, <2>3, <3>1
  <2> QED  BY <2>2, <2>4
<1>3. ASSUME NEW p \in Request, NEW r, Begin(p, r),
             p = q => r.op # "delete"
      PROVE  Goal
  <2>1. req[p].op # "delete" /\ req' = [req EXCEPT ![p] = r]
    BY <1>3 DEF Begin, Idle
  <2> QED  BY <1>1, <1>3, <2>1
<1>4. ASSUME NEW p \in Request, NEW kind \in Deletable, NEW id \in Id(kind), LoadDoomed(p, kind, id)
      PROVE  Goal
  <2> DEFINE r == [op |-> "delete", kind |-> kind, id |-> id, known |-> Kids(kind, id) # {},
                   there |-> Descendants(kind, id)]
  <2>1. Begin(p, r)
    BY <1>4 DEF LoadDoomed
  <2> HIDE DEF r
  <2>2. p # q => Goal
    BY <1>3, <2>1
  <2>3. req[p].op # "delete"
    BY <2>1 DEF Begin, Idle
  <2> QED  BY <1>4, <2>2, <2>3
<1>5. ASSUME NEW p \in Request, NEW code \in Code, CheckCode(p, code) PROVE Goal
  <2> DEFINE r == [op |-> "course", code |-> code]
  <2>1. Begin(p, r) /\ r.op # "delete"
    BY <1>5 DEF CheckCode
  <2> HIDE DEF r
  <2> QED  BY <1>3, <2>1
<1>6. ASSUME NEW p \in Request, NEW a, NEW list, NEW changed, LoadLinks(p, a, list, changed) PROVE Goal
  <2> DEFINE r == [op |-> "update", id |-> a, list |-> list, changed |-> changed, seen |-> Links(a)]
  <2>1. Begin(p, r) /\ r.op # "delete"
    BY <1>6 DEF LoadLinks
  <2> HIDE DEF r
  <2> QED  BY <1>3, <2>1
<1>7. ASSUME NEW p \in Request, NEW u \in User, NEW c \in Id("course"),
             CheckEnrolled(p, u, c) \/ LoadTarget(p, u, c) \/ LoadTa(p, u, c)
      PROVE  Goal
  <2> DEFINE r == IF CheckEnrolled(p, u, c) THEN [op |-> "enroll", user |-> u, course |-> c]
                  ELSE IF LoadTarget(p, u, c)
                  THEN [op |-> "ta", user |-> u, course |-> c, role |-> role[u], flushed |-> FALSE,
                        seen |-> {}]
                  ELSE [op |-> "untag", seen |-> Enrollments(u, c)]
  <2>1. Begin(p, r)
    BY <1>7 DEF CheckEnrolled, LoadTarget, LoadTa
  <2>2. r.op # "delete"
    OBVIOUS
  <2> HIDE DEF r
  <2> QED  BY <1>3, <2>1, <2>2
<1>8. ASSUME NEW p \in Request, LoadEnrollment(p) PROVE Goal
  <2> DEFINE x == req[p]
             S == Enrollments(x.user, x.course)
             r == [x EXCEPT !.flushed = TRUE, !.seen = S]
  <2>1. x \in TaRequest /\ S \in SUBSET Row
    BY <1>0, <1>8 DEF LoadEnrollment, ReqsOK, Carries, TypeInv, RowsOK, Enrollments
  <2>2. req' = [req EXCEPT ![p] = r] /\ req[p].op # "delete"
    BY <1>0, <1>8 DEF LoadEnrollment, ReqsOK
  <2> HIDE DEF x, S
  <2>3. r.op # "delete"
    BY <2>1, FlushedTa DEF TaRequest
  <2> HIDE DEF r
  <2> QED  BY <1>1, <2>2, <2>3
<1>9. CASE UNCHANGED req
  BY <1>9
<1>10. CASE Author
  <2>1. ASSUME \/ \E c \in Id("course") : CreateModule(c)
               \/ \E m \in Id("module") : CreateLesson(m)
               \/ \E l \in Id("lesson") : CreateProblem(l)
               \/ \E p \in Id("problem") : CreateDataset(p) \/ CreateHint(p)
               \/ \E c \in Id("course"), list \in SUBSET Id("problem") : CreateAssignment(c, list)
        PROVE  UNCHANGED req
    BY <2>1 DEF CreateModule, CreateLesson, CreateProblem, CreateDataset, CreateHint, Create,
       CreateAssignment
  <2> QED  BY <1>2, <1>4, <1>5, <1>6, <1>9, <1>10, <2>1 DEF Author
<1>11. CASE Staff
  <2>1. ASSUME NEW u, NEW r, AssignRole(u, r) PROVE UNCHANGED req
    BY <2>1 DEF AssignRole
  <2> QED  BY <1>2, <1>7, <1>8, <1>9, <1>11, <2>1 DEF Staff
<1>12. CASE UNCHANGED vars
  BY <1>9, <1>12 DEF vars
<1> QED  BY <1>10, <1>11, <1>12 DEF Next

LEMMA LateNext == TypeInv /\ LateInv /\ [Next]_vars => LateInv'
<1> SUFFICES ASSUME TypeInv, LateInv, [Next]_vars, NEW q \in Request,
                    req'[q].op = "delete", ~ req'[q].known, NEW r \in req'[q].there
             PROVE  r.kind \in Overlooked(req'[q].kind)
  BY DEF LateInv, Overlooked
<1>1. CASE req'[q] = req[q]
  BY <1>1 DEF LateInv
<1>2. ASSUME NEW kind \in Deletable, NEW id \in Id(kind), LoadDoomed(q, kind, id)
      PROVE  r.kind \in Overlooked(req'[q].kind)
  <2>1. req'[q] = [op |-> "delete", kind |-> kind, id |-> id, known |-> Kids(kind, id) # {},
                   there |-> Descendants(kind, id)]
    BY <1>2 DEF LoadDoomed, Begin, TypeInv, ReqsOK
  <2>2. Kids(kind, id) = {} /\ r \in Descendants(kind, id) /\ req'[q].kind = kind
    <3>1. /\ req'[q].known = (Kids(kind, id) # {}) /\ req'[q].there = Descendants(kind, id)
          /\ req'[q].kind = kind
      BY <2>1
    <3> QED  BY <3>1, Zenon
  <2>3. r.kind \in Overlooked(kind)
    BY <2>2, DescendantsOverlooked DEF TypeInv
  <2> QED  BY <2>2, <2>3
<1> QED  BY <1>1, <1>2, DeleteSteps

\* In either database, of all that hung on a row when its handler looked, a delete neither
\* takes nor leaves behind any but what it overlooks: a course's assignments with their
\* lists, and a problem's entries on lists.
THEOREM LateChildrenOnly == Spec => OnlyLateChildrenLost
<1>1. Init => LateInv
  BY DEF Init, LateInv, Idle
<1>2. TypeInv /\ LateInv /\ [Next]_vars
        => [\A q \in Request : req[q].op = "delete" /\ req'[q] = Idle /\ rows' # rows
              => \A r \in req[q].there \cap rows : r.kind \in Overlooked(req[q].kind)]_vars
  <2> SUFFICES ASSUME TypeInv, LateInv, [Next]_vars, NEW q \in Request,
                      req[q].op = "delete", req'[q] = Idle, rows' # rows
               PROVE  \A r \in req[q].there : r.kind \in Overlooked(req[q].kind)
    OBVIOUS
  <2>1. RefuseDelete(q) \/ CommitDelete(q)
    BY DeleteSteps DEF Idle
  <2>2. ~ req[q].known
    BY <2>1 DEF RefuseDelete, NoWrite, CommitDelete
  <2> QED  BY <2>2 DEF LateInv
<1> QED  BY <1>1, <1>2, TypeInit, TypeNext, LateNext, PTL DEF Spec, OnlyLateChildrenLost
-----------------------------------------------------------------------------
(* Teaching assistants.                                                    *)

IsEnrolled(u) == \E r \in rows : r.kind = "enrollment" /\ r.key = u

\* What assign_ta has read of the user's role still holds unless an admin has set the role
\* since, and the enrollment it has read is still the user's, or its id is nobody's.
TaKnows(x) ==
  x.op = "ta" =>
    /\ x.user \notin excused /\ x.role = "ta" => role[x.user] = "ta"
    /\ \A s \in x.seen :
         /\ s.kind = "enrollment" /\ s.key = x.user /\ Used("enrollment", s.id)
         /\ \A r \in rows : r.kind = "enrollment" /\ r.id = s.id => r.key = s.key
         /\ s.key \notin excused => Live("enrollment", s.id)

TaInv == TaRolesAgree /\ \A q \in Request : TaKnows(req[q])

\* What a step may do to the enrollments: add one under an id not given out, rewrite some
\* under their ids for the same users, and lose those of users it excuses.
Keeps ==
  /\ UNCHANGED postgres /\ excused \subseteq excused'
  /\ \A r \in rows' : r.kind = "enrollment" =>
       \/ ~ Used("enrollment", r.id)
       \/ \E s \in rows : s.kind = "enrollment" /\ s.id = r.id /\ s.key = r.key
  /\ \A s \in rows : s.kind = "enrollment" =>
       \/ postgres /\ s.key \in excused'
       \/ \E r \in rows' : r.kind = "enrollment" /\ r.id = s.id /\ r.key = s.key

LEMMA StillKnows ==
  ASSUME RowsOK, RowsOK', Grown, Keeps, NEW x, Carries(x), TaKnows(x),
         \A u \in User \ excused' : role[u] = "ta" => role'[u] = "ta"
  PROVE  TaKnows(x)'
<1>1. ASSUME x.op = "ta", NEW s \in x.seen
      PROVE  /\ s.kind = "enrollment" /\ s.key = x.user /\ Used("enrollment", s.id)'
             /\ \A r \in rows' : r.kind = "enrollment" /\ r.id = s.id => r.key = s.key
             /\ s.key \notin excused' => Live("enrollment", s.id)'
  <2>1. /\ s.kind = "enrollment" /\ s.key = x.user /\ Used("enrollment", s.id)
        /\ \A r \in rows : r.kind = "enrollment" /\ r.id = s.id => r.key = s.key
        /\ s.key \notin excused => Live("enrollment", s.id)
    BY <1>1 DEF TaKnows
  <2>2. s.id \in Ids /\ "enrollment" \in Kind
    BY <1>1, KindFacts DEF Carries, TaRequest, Row
  <2>3. ~ postgres /\ Live("enrollment", s.id) => Live("enrollment", s.id)'
    BY DEF Keeps, Live
  <2>4. Used("enrollment", s.id)'
    BY <2>1, <2>2, <2>3, UsedStays DEF Keeps
  <2>5. \A r \in rows' : r.kind = "enrollment" /\ r.id = s.id => r.key = s.key
    BY <2>1 DEF Keeps
  <2>6. s.key \notin excused' => Live("enrollment", s.id)'
    BY <2>1 DEF Keeps, Live
  <2> QED  BY <2>1, <2>4, <2>5, <2>6
<1>2. x.op = "ta" /\ x.user \notin excused' /\ x.role = "ta" => role'[x.user] = "ta"
  BY DEF TaKnows, Carries, TaRequest, Keeps
<1> QED  BY <1>1, <1>2 DEF TaKnows

\* Other requests know what they knew, and the one that takes a step knows what it reads.
LEMMA AllKnow ==
  ASSUME TypeInv, TaInv, RowsOK', Grown, Keeps,
         \A u \in User \ excused' : role[u] = "ta" => role'[u] = "ta",
         \A q \in Request : req'[q] = req[q] \/ TaKnows(req[q])'
  PROVE  (\A q \in Request : TaKnows(req[q]))'
<1> SUFFICES ASSUME NEW q \in Request PROVE TaKnows(req[q])'
  OBVIOUS
<1>1. \A x : Carries(x) /\ TaKnows(x) => TaKnows(x)'
  BY StillKnows DEF TypeInv
<1>2. CASE req'[q] = req[q]
  <2>1. TaKnows(req[q]) /\ Carries(req[q])
    BY DEF TypeInv, ReqsOK, TaInv
  <2> QED  BY <1>1, <1>2, <2>1 DEF TaKnows
<1> QED  BY <1>2

\* A step that makes nobody a TA, in role or enrollment, keeps the two in agreement.
LEMMA NoNewTa ==
  ASSUME TaRolesAgree, Keeps,
         \A u \in User \ excused' : role'[u] = role[u],
         \A r \in rows' \ rows : r.kind = "enrollment" => r.tag # "ta"
  PROVE  TaRolesAgree'
<1> SUFFICES ASSUME NEW u \in User \ excused'
             PROVE  /\ role'[u] = "ta" => \E r \in rows' : r.kind = "enrollment" /\ r.key = u
                    /\ (\E r \in rows' : r.kind = "enrollment" /\ r.key = u /\ r.tag = "ta")
                         => role'[u] # "student"
  BY DEF TaRolesAgree
<1>1. u \in User \ excused /\ role'[u] = role[u]
  BY DEF Keeps
<1>2. role[u] = "ta" => \E r \in rows' : r.kind = "enrollment" /\ r.key = u
  BY <1>1 DEF TaRolesAgree, Keeps
<1>3. ASSUME NEW r \in rows', r.kind = "enrollment", r.key = u, r.tag = "ta" PROVE role[u] # "student"
  BY <1>1, <1>3 DEF TaRolesAgree
<1> QED  BY <1>1, <1>2, <1>3

\* Nothing about enrollments, roles or excuses changes.
LEMMA TasWait ==
  ASSUME TypeInv, TaInv, RowsOK', Grown, UNCHANGED <<postgres, role, excused>>,
         \A r : r.kind = "enrollment" => (r \in rows <=> r \in rows'),
         \A q \in Request : req'[q] = req[q] \/ TaKnows(req[q])'
  PROVE  TaInv'
<1>1. Keeps
  BY DEF Keeps
<1>2. TaRolesAgree'
  BY <1>1, NoNewTa DEF TaInv
<1> QED  BY <1>1, <1>2, AllKnow DEF TaInv
LEMMA NoTaRead ==
  ASSUME ReqsOK, NEW q \in Request, NEW r, req' = [req EXCEPT ![q] = r], r.op = "ta" => TaKnows(r)'
  PROVE  \A p \in Request : req'[p] = req[p] \/ TaKnows(req[p])'
<1> SUFFICES ASSUME NEW p \in Request PROVE req'[p] = req[p] \/ TaKnows(req[p])'
  OBVIOUS
<1>1. CASE p = q
  <2>1. req'[p] = r
    BY <1>1 DEF ReqsOK
  <2> QED  BY <2>1 DEF TaKnows
<1>2. CASE p # q
  BY <1>2 DEF ReqsOK
<1> QED  BY <1>1, <1>2

LEMMA NoTaLeft ==
  ASSUME ReqsOK, NEW q \in Request, Finish(q)
  PROVE  \A p \in Request : req'[p] = req[p] \/ TaKnows(req[p])'
<1>1. req' = [req EXCEPT ![q] = Idle] /\ Idle.op # "ta"
  BY DEF Finish, Idle
<1> QED  BY <1>1, NoTaRead

LEMMA TaEnrolls ==
  ASSUME TypeInv, TaInv, NEW q \in Request, InsertEnrollment(q)
  PROVE  TaInv'
<1>1. /\ RowsOK /\ ReqsOK /\ RowsOK' /\ Grown /\ UNCHANGED <<postgres, role, overlapped, excused>> /\ Finish(q)
      /\ rows \subseteq rows'
      /\ \A r \in rows' \ rows : /\ r.kind = "course" \/ (r.kind = "enrollment" /\ r.tag = "student")
                                 /\ r.id = NextId(r.kind)
  BY InsertRow DEF TypeInv
<1>2. Keeps
  <2>1. ~ Used("enrollment", NextId("enrollment"))
    BY <1>1, NextIdUnused, KindFacts
  <2> QED  BY <1>1, <2>1 DEF Keeps
<1>3. TaRolesAgree'
  BY <1>1, <1>2, NoNewTa DEF TaInv
<1> QED  BY <1>1, <1>2, <1>3, NoTaLeft, AllKnow DEF TaInv

LEMMA TaDeletes ==
  ASSUME TypeInv, TaInv, NEW q \in Request, CommitDelete(q)
  PROVE  TaInv'
<1>1. /\ RowsOK' /\ Grown /\ UNCHANGED <<postgres, role, overlapped>> /\ Finish(q)
      /\ excused \subseteq excused'
      /\ \E gone : /\ rows' = rows \ gone
                   /\ \A r \in gone : r.kind = "enrollment" => r.key \in excused'
                   /\ ~ postgres => \A r \in gone : r.kind = req[q].kind
  BY DeleteEffect
<1>2. ReqsOK /\ req[q].kind # "enrollment"
  BY DEF CommitDelete, TypeInv, ReqsOK, RequestOK, Deletable
<1>3. Keeps
  BY <1>1, <1>2 DEF Keeps
<1>4. TaRolesAgree'
  BY <1>1, <1>3, NoNewTa DEF TaInv
<1> QED  BY <1>1, <1>2, <1>3, <1>4, NoTaLeft, AllKnow DEF TaInv

LEMMA TaUntags ==
  ASSUME TypeInv, TaInv, NEW q \in Request, CommitUntag(q)
  PROVE  TaInv'
<1>1. RowsOK' /\ Grown /\ UNCHANGED <<postgres, role, overlapped, excused>> /\ Finish(q) /\ ReqsOK
  BY UntagEffect DEF TypeInv
<1>2. PICK here \in SUBSET {r \in rows : r.kind = "enrollment"} : Write(here, Retagged(here, "student"))
  BY UntagEffect
<1>3. here \in SUBSET rows /\ "student" \in Role /\ rows' = (rows \ here) \cup Retagged(here, "student")
  BY <1>2 DEF Role, Write
<1>4. /\ \A r \in Retagged(here, "student") :
           \E s \in here : r.kind = s.kind /\ r.id = s.id /\ r.key = s.key /\ r.tag = "student"
      /\ \A s \in here :
           \E r \in Retagged(here, "student") : r.kind = s.kind /\ r.id = s.id /\ r.key = s.key
  BY <1>1, <1>2, <1>3, WriteTags DEF TypeInv
<1>5. Keeps
  BY <1>1, <1>3, <1>4 DEF Keeps
<1>6. TaRolesAgree'
  <2>1. \A r \in rows' \ rows : r.tag # "ta"
    BY <1>3, <1>4
  <2> QED  BY <1>1, <1>5, <2>1, NoNewTa DEF TaInv
<1> QED  BY <1>1, <1>5, <1>6, NoTaLeft, AllKnow DEF TaInv

LEMMA TaAdmin ==
  ASSUME TypeInv, TaInv, NEW u \in User, NEW r \in Role, AssignRole(u, r)
  PROVE  TaInv'
<1>1. /\ UNCHANGED <<postgres, rows, lastId, req, overlapped>> /\ RowsOK
      /\ role' = [role EXCEPT ![u] = r] /\ excused' = excused \cup {u} /\ role \in [User -> Role]
  BY DEF AssignRole, TypeInv
<1>2. RowsOK' /\ Grown
  BY <1>1, WriteNothing
<1>3. Keeps /\ \A v \in User \ excused' : role'[v] = role[v]
  BY <1>1 DEF Keeps
<1>4. TaRolesAgree'
  BY <1>1, <1>3, NoNewTa DEF TaInv
<1> QED  BY <1>1, <1>2, <1>3, <1>4, AllKnow DEF TaInv

\* The commit of assign_ta raises the role and writes the enrollment together.
LEMMA TaCommits ==
  ASSUME TypeInv, TaInv, NEW q \in Request, CommitTa(q)
  PROVE  TaInv'
<1> DEFINE u == req[q].user
           seen == req[q].seen
           here == Found(seen)
<1>1. /\ RowsOK' /\ Grown /\ UNCHANGED <<postgres, overlapped, excused>> /\ Finish(q)
      /\ req[q].op = "ta" /\ u \in User
      /\ \/ rows' = rows /\ role' = role
         \/ /\ role' = IF req[q].role = "student" THEN [role EXCEPT ![u] = "ta"] ELSE role
            /\ \/ /\ seen = {}
                  /\ \E e : /\ rows' = rows \cup {e}
                            /\ e.kind = "enrollment" /\ e.id = NextId("enrollment")
                            /\ e.key = u /\ e.tag = "ta"
               \/ /\ seen # {}
                  /\ \A r \in seen : r.tag = "ta" \/ Live("enrollment", r.id)
                  /\ rows' = (rows \ here) \cup Retagged(here, "ta")
                  /\ Write(here, Retagged(here, "ta"))
  BY TaEffect
<1>2. RowsOK /\ ReqsOK /\ TaKnows(req[q]) /\ role \in [User -> Role] /\ req[q].role \in Role
  BY <1>1 DEF TypeInv, TaInv, ReqsOK, Carries, TaRequest
<1>3. CASE rows' = rows /\ role' = role
  BY <1>1, <1>2, <1>3, NoTaLeft, TasWait
<1>4. ASSUME role' = IF req[q].role = "student" THEN [role EXCEPT ![u] = "ta"] ELSE role,
             Keeps,
             u \in excused \/ \E r \in rows' : r.kind = "enrollment" /\ r.key = u,
             \A r \in rows' \ rows : r.key = u
      PROVE  TaInv'
  <2>1. \A v \in User \ {u} : role'[v] = role[v]
    BY <1>2, <1>4
  <2>2. u \notin excused => role'[u] = "ta"
    BY <1>1, <1>2, <1>4 DEF TaKnows, Role
  <2>3. ASSUME NEW v \in User \ excused', v # u
        PROVE  /\ role'[v] = "ta" => \E r \in rows' : r.kind = "enrollment" /\ r.key = v
               /\ (\E r \in rows' : r.kind = "enrollment" /\ r.key = v /\ r.tag = "ta") => role'[v] # "student"
    <3>1. v \notin excused /\ role'[v] = role[v]
      BY <1>1, <2>1, <2>3
    <3>2. role[v] = "ta" => \E r \in rows' : r.kind = "enrollment" /\ r.key = v
      BY <1>1, <1>4, <3>1 DEF TaInv, TaRolesAgree, Keeps
    <3>3. (\E r \in rows' : r.kind = "enrollment" /\ r.key = v /\ r.tag = "ta") => role[v] # "student"
      BY <1>4, <2>3, <3>1 DEF TaInv, TaRolesAgree
    <3> QED  BY <3>1, <3>2, <3>3
  <2>4. TaRolesAgree'
    BY <1>1, <1>4, <2>2, <2>3 DEF TaRolesAgree
  <2>5. \A v \in User \ excused' : role[v] = "ta" => role'[v] = "ta"
    BY <1>2, <1>4
  <2> QED  BY <1>1, <1>2, <1>4, <2>4, <2>5, NoTaLeft, AllKnow DEF TaInv
<1>5. ASSUME NEW e, rows' = rows \cup {e}, e.kind = "enrollment", e.id = NextId("enrollment"), e.key = u
      PROVE  Keeps /\ (\E r \in rows' : r.kind = "enrollment" /\ r.key = u)
             /\ \A r \in rows' \ rows : r.key = u
  <2>1. ~ Used("enrollment", NextId("enrollment"))
    BY <1>2, NextIdUnused, KindFacts
  <2> QED  BY <1>1, <1>5, <2>1 DEF Keeps
<1>6. ASSUME seen # {}, \A r \in seen : r.tag = "ta" \/ Live("enrollment", r.id),
             rows' = (rows \ here) \cup Retagged(here, "ta"), Write(here, Retagged(here, "ta"))
      PROVE  Keeps /\ (u \in excused \/ \E r \in rows' : r.kind = "enrollment" /\ r.key = u)
             /\ \A r \in rows' \ rows : r.key = u
  <2>1. here \in SUBSET rows /\ "ta" \in Role /\ \A r \in here : r.kind = "enrollment" /\ r.key = u
    BY <1>1, <1>2 DEF Found, Role, TaKnows
  <2> HIDE DEF here
  <2>2. /\ \A r \in Retagged(here, "ta") :
             \E s \in here : r.kind = s.kind /\ r.id = s.id /\ r.key = s.key
        /\ \A s \in here :
             \E r \in Retagged(here, "ta") : r.kind = s.kind /\ r.id = s.id /\ r.key = s.key
    BY <1>1, <1>2, <1>6, <2>1, WriteTags
  <2>3. Keeps
    BY <1>1, <1>6, <2>1, <2>2 DEF Keeps
  <2>4. u \in excused \/ \E r \in rows : r.kind = "enrollment" /\ r.key = u
    BY <1>1, <1>2, <1>6 DEF TaKnows, Live
  <2> QED  BY <1>6, <2>1, <2>2, <2>3, <2>4
<1> HIDE DEF u, seen, here
<1> QED  BY <1>1, <1>3, <1>4, <1>5, <1>6
\* assign_ta reads the role, then the enrollment.
LEMMA TaReads ==
  ASSUME TypeInv, TaInv, NEW q \in Request,
         (\E u \in User, c \in Id("course") : LoadTarget(q, u, c)) \/ LoadEnrollment(q)
  PROVE  TaInv'
<1>0. RowsOK /\ ReqsOK /\ role \in [User -> Role]
  BY DEF TypeInv
<1>1. /\ UNCHANGED <<postgres, rows, lastId, role, excused>> /\ RowsOK' /\ Grown
  BY ReadStep
<1>2. ASSUME NEW r, req' = [req EXCEPT ![q] = r], TaKnows(r) PROVE TaInv'
  <2>1. TaKnows(r)'
    BY <1>1, <1>2 DEF TaKnows, Used, Live
  <2> QED  BY <1>0, <1>1, <1>2, <2>1, NoTaRead, TasWait
<1>3. ASSUME NEW u \in User, NEW c \in Id("course"), LoadTarget(q, u, c) PROVE TaInv'
  <2> DEFINE r == [op |-> "ta", user |-> u, course |-> c, role |-> role[u], flushed |-> FALSE,
                   seen |-> {}]
  <2>1. req' = [req EXCEPT ![q] = r] /\ TaKnows(r)
    BY <1>3 DEF LoadTarget, Begin, TaKnows
  <2> HIDE DEF r
  <2> QED  BY <1>2, <2>1
<1>4. CASE LoadEnrollment(q)
  <2> DEFINE x == req[q]
             S == Enrollments(x.user, x.course)
             r == [x EXCEPT !.flushed = TRUE, !.seen = S]
  <2>1. x \in TaRequest /\ S \in SUBSET Row /\ TaKnows(x)
    BY <1>0, <1>4 DEF LoadEnrollment, ReqsOK, Carries, RowsOK, Enrollments, TaInv
  <2>2. req' = [req EXCEPT ![q] = r]
    BY <1>0, <1>4 DEF LoadEnrollment, ReqsOK
  <2>3. \A s \in S : /\ s.kind = "enrollment" /\ s.key = x.user /\ Used("enrollment", s.id)
                     /\ \A y \in rows : y.kind = "enrollment" /\ y.id = s.id => y.key = s.key
                     /\ Live("enrollment", s.id)
    BY <1>0 DEF Enrollments, RowsOK, Used, Live
  <2> HIDE DEF x, S
  <2>4. r.user = x.user /\ r.role = x.role /\ r.seen = S /\ x.op = "ta"
    BY <2>1, FlushedTa DEF TaRequest
  <2> HIDE DEF r
  <2>5. TaKnows(r)
    BY <2>1, <2>3, <2>4 DEF TaKnows
  <2> QED  BY <1>2, <2>2, <2>5
<1> QED  BY <1>3, <1>4

LEMMA TaNext == TypeInv /\ TaInv /\ [Next]_vars => TaInv'
<1> SUFFICES ASSUME TypeInv, TaInv, [Next]_vars PROVE TaInv'
  OBVIOUS
<1>0. RowsOK /\ ReqsOK
  BY DEF TypeInv
<1>1. ASSUME NEW id, \/ id \in Id("course") /\ CreateModule(id)
                     \/ id \in Id("module") /\ CreateLesson(id)
                     \/ id \in Id("lesson") /\ CreateProblem(id)
                     \/ id \in Id("problem") /\ (CreateDataset(id) \/ CreateHint(id))
      PROVE  TaInv'
  <2>1. PICK kind \in {"module", "lesson", "problem", "dataset", "hint"} : Create(kind, id)
    BY <1>1 DEF CreateModule, CreateLesson, CreateProblem, CreateDataset, CreateHint
  <2>2. id \in Ids /\ kind \in Kind \ {"course", "link", "enrollment"}
    BY <1>1, IdInIds, KindFacts
  <2>3. /\ RowsOK' /\ Grown /\ UNCHANGED <<postgres, role, req, overlapped, excused>>
        /\ \E x : rows' = rows \cup {x} /\ x.kind = kind
    BY <1>0, <2>1, <2>2, CreateEffect
  <2> QED  BY <2>2, <2>3, TasWait
<1>2. ASSUME NEW c \in Id("course"), NEW list \in SUBSET Id("problem"), CreateAssignment(c, list)
      PROVE  TaInv'
  <2>1. /\ RowsOK' /\ Grown /\ UNCHANGED <<postgres, role, req, overlapped, excused>>
        /\ \E x, l : /\ rows' = rows \cup {x} \cup l
                     /\ x.kind = "assignment" /\ \A r \in l : r.kind = "link"
    BY <1>0, <1>2, AssignmentEffect
  <2> QED  BY <2>1, TasWait
<1>3. ASSUME NEW q \in Request, InsertCourse(q) PROVE TaInv'
  <2>1. /\ RowsOK' /\ Grown /\ UNCHANGED <<postgres, role, overlapped, excused>> /\ Finish(q)
        /\ rows \subseteq rows'
    BY <1>3, InsertRow
  <2>2. \A r \in rows' \ rows : r.kind = "course"
    BY <1>3 DEF InsertCourse, Write, Fresh
  <2> QED  BY <1>0, <2>1, <2>2, NoTaLeft, TasWait
<1>4. ASSUME NEW q \in Request, ReplaceLinks(q) PROVE TaInv'
  <2>1. /\ RowsOK' /\ Grown /\ UNCHANGED <<postgres, role, overlapped, excused>> /\ Finish(q)
        /\ \A r \in req[q].seen : r.kind = "link"
        /\ \/ rows' = rows
           \/ \E l : rows' = (rows \ req[q].seen) \cup l /\ \A r \in l : r.kind = "link"
    BY <1>4, ReplaceEffect
  <2> QED  BY <1>0, <2>1, NoTaLeft, TasWait
<1>5. ASSUME NEW q \in Request, NEW r, req' = [req EXCEPT ![q] = r], r.op # "ta",
             UNCHANGED <<postgres, rows, lastId, role, excused>>
      PROVE  TaInv'
  <2>1. RowsOK' /\ Grown
    BY <1>0, <1>5, WriteNothing
  <2> QED  BY <1>0, <1>5, <2>1, NoTaRead, TasWait
<1>6. ASSUME NEW q \in Request,
             \/ \E code \in Code : CheckCode(q, code)
             \/ \E a \in Id("assignment"), list \in SUBSET Id("problem"), changed \in BOOLEAN :
                  LoadLinks(q, a, list, changed)
             \/ \E kind \in Deletable : \E id \in Id(kind) : LoadDoomed(q, kind, id)
             \/ RefuseDelete(q)
             \/ \E u \in User, c \in Id("course") : CheckEnrolled(q, u, c) \/ LoadTa(q, u, c)
      PROVE  TaInv'
  <2>0. UNCHANGED <<postgres, rows, lastId, role, excused>>
    BY <1>6 DEF CheckCode, LoadLinks, LoadDoomed, RefuseDelete, CheckEnrolled, LoadTa, Calm, NoWrite
  <2>1. ASSUME NEW code \in Code, CheckCode(q, code) PROVE TaInv'
    <3> DEFINE r == [op |-> "course", code |-> code]
    <3>1. req' = [req EXCEPT ![q] = r] /\ r.op # "ta"
      BY <2>1 DEF CheckCode, Begin
    <3> HIDE DEF r
    <3> QED  BY <1>5, <2>0, <3>1
  <2>2. ASSUME NEW a, NEW list, NEW changed, LoadLinks(q, a, list, changed) PROVE TaInv'
    <3> DEFINE r == [op |-> "update", id |-> a, list |-> list, changed |-> changed, seen |-> Links(a)]
    <3>1. req' = [req EXCEPT ![q] = r] /\ r.op # "ta"
      BY <2>2 DEF LoadLinks, Begin
    <3> HIDE DEF r
    <3> QED  BY <1>5, <2>0, <3>1
  <2>3. ASSUME NEW kind, NEW id, LoadDoomed(q, kind, id) PROVE TaInv'
    <3> DEFINE r == [op |-> "delete", kind |-> kind, id |-> id, known |-> Kids(kind, id) # {},
                     there |-> Descendants(kind, id)]
    <3>1. req' = [req EXCEPT ![q] = r] /\ r.op # "ta"
      BY <2>3 DEF LoadDoomed, Begin
    <3> HIDE DEF r
    <3> QED  BY <1>5, <2>0, <3>1
  <2>4. CASE RefuseDelete(q)
    <3>1. req' = [req EXCEPT ![q] = Idle] /\ Idle.op # "ta"
      BY <2>4 DEF RefuseDelete, Finish, Idle
    <3> QED  BY <1>5, <2>0, <3>1
  <2>5. ASSUME NEW u \in User, NEW c \in Id("course"), CheckEnrolled(q, u, c) \/ LoadTa(q, u, c)
        PROVE  TaInv'
    <3> DEFINE r == IF CheckEnrolled(q, u, c) THEN [op |-> "enroll", user |-> u, course |-> c]
                    ELSE [op |-> "untag", seen |-> Enrollments(u, c)]
    <3>1. req' = [req EXCEPT ![q] = r]
      BY <2>5 DEF CheckEnrolled, LoadTa, Begin
    <3>2. r.op # "ta"
      OBVIOUS
    <3> HIDE DEF r
    <3> QED  BY <1>5, <2>0, <3>1, <3>2
  <2> QED  BY <1>6, <2>1, <2>2, <2>3, <2>4, <2>5
<1>7. CASE Author
  BY <1>1, <1>2, <1>3, <1>4, <1>6, <1>7, TaDeletes DEF Author
<1>8. CASE Staff
  BY <1>6, <1>8, TaReads, TaEnrolls, TaCommits, TaUntags, TaAdmin DEF Staff
<1>9. CASE UNCHANGED vars
  <2>1. UNCHANGED <<postgres, rows, lastId, role, req, excused>>
    BY <1>9 DEF vars
  <2>2. RowsOK' /\ Grown
    BY <1>0, <2>1, WriteNothing
  <2> QED  BY <2>1, <2>2, TasWait
<1> QED  BY <1>7, <1>8, <1>9 DEF Next

\* For any number of requests and users, in either database: whoever assign_ta made a TA
\* is enrolled, and whoever is enrolled as one has the role, unless an admin set the role
\* or the enrollment went with its course.
THEOREM TaRolesTrue == Spec => []TaRolesAgree
<1>1. Init => TaInv
  <2> SUFFICES ASSUME Init PROVE TaInv
    OBVIOUS
  <2>1. \A r \in rows : r.kind # "enrollment"
    BY InitialRows
  <2>2. (\A u \in User : role[u] = "student") /\ \A q \in Request : req[q].op = "idle"
    BY DEF Init, Idle
  <2> QED  BY <2>1, <2>2 DEF TaInv, TaRolesAgree, TaKnows
<1>2. TaInv => TaRolesAgree
  BY DEF TaInv
<1> QED  BY <1>1, <1>2, TypeInit, TypeNext, TaNext, PTL DEF Spec
=============================================================================
