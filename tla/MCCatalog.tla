----------------------------- MODULE MCCatalog -----------------------------
(* Instances of Catalog for TLC. *)
EXTENDS Catalog, TLC

CatalogSymmetry == Permutations(Request) \cup Permutations(User)

\* One of each table, but two enrollments, and a list written three times.
FewIds == [k \in Kind |-> CASE k = "link" -> 3 [] k = "enrollment" -> 2 [] OTHER -> 1]

\* Postgres needs a chain of parents for a list; in SQLite a row needs nothing.
FewRows == [pg \in BOOLEAN |-> IF pg THEN 7 ELSE 4]

\* TLC explores the states about content and those about people, not their product: what
\* the two share is the course they hang on.
AboutContent ==
  /\ \A r \in rows : r.kind # "enrollment"
  /\ \A q \in Request : req[q].op \notin {"enroll", "ta", "untag"}
  /\ \A u \in User : role[u] = "student" /\ u \notin excused

AboutPeople ==
  /\ \A r \in rows : r.kind \in {"course", "module", "enrollment"}
  /\ \A q \in Request : req[q].op # "update"

Scope == AboutContent \/ AboutPeople
=============================================================================
