--------------------------- MODULE GradingProofs ---------------------------
(***************************************************************************)
(* From a comparison of two results to the figures of the class, for every *)
(* set of results, students, problems, attempts and loads.                 *)
(***************************************************************************)
EXTENDS Grading, FiniteSetTheorems, TLAPS

-----------------------------------------------------------------------------
(* Cells.  A key is what a cell is compared by.                            *)

\* A whole number of tenths has the same key as itself in whole millionths.
LEMMA Rounded ==
  ASSUME NEW a \in Int, NEW b \in Int
  PROVE  /\ canonicalNumber(a) \in Int
         /\ canonicalNumber(a) = canonicalNumber(b) => a - b \in (-Micro) .. Micro
         /\ b % Micro = 0 => canonicalNumber(b) = b \div Micro
BY DEF canonicalNumber, Micro

Whole(c) == c.type = "bigint" => c.value % 10 = 0

\* Two cells that are one value have one key.
LEMMA AgreeingKeys ==
  ASSUME NEW a \in Cell, NEW b \in Cell, Whole(a), Whole(b), Agree(a, b, 0)
  PROVE  normalizeValue(a) = normalizeValue(b)
<1>1. /\ a.type \in CellType /\ b.type \in CellType /\ a.value \in Int /\ b.value \in Int
  BY DEF Cell
<1>2. CASE Nothing(a) /\ Nothing(b)
  BY <1>2 DEF normalizeValue
<1>3. CASE /\ ~Nothing(a) /\ ~Nothing(b) /\ a.type \in Numeric /\ b.type \in Numeric
           /\ a.value - b.value \in (-0) .. 0
  <2>1. a.value = b.value
    BY <1>1, <1>3
  <2>2. a.type = "bigint" \/ b.type = "bigint" => canonicalNumber(a.value) = a.value \div Micro
    BY <1>1, <2>1, Rounded DEF Whole, Micro
  <2> QED  BY <1>3, <2>1, <2>2 DEF normalizeValue, Numeric, Nothing
<1>4. CASE ~Nothing(a) /\ ~Nothing(b) /\ a.type \in Textual /\ b.type \in Textual /\ a.value = b.value
  BY <1>4 DEF normalizeValue, Textual, Nothing
<1>5. CASE /\ ~Nothing(a) /\ ~Nothing(b) /\ {a.type, b.type} \cap (Numeric \cup Textual) = {}
           /\ a.type = b.type /\ a.value = b.value
  BY <1>5 DEF normalizeValue, Nothing
<1> QED  BY <1>2, <1>3, <1>4, <1>5 DEF Agree

\* Two cells with one key are one value but for a millionth or for blanks.
LEMMA KeysAgree ==
  ASSUME NEW a \in Cell, NEW b \in Cell, Whole(a), Whole(b), normalizeValue(a) = normalizeValue(b)
  PROVE  Agree(a, b, Micro)
<1>1. /\ a.type \in CellType /\ b.type \in CellType /\ a.value \in Int /\ b.value \in Int
  BY DEF Cell
<1> DEFINE Tag(c) == IF Nothing(c) THEN "null"
                     ELSE IF c.type \in Numeric THEN "n"
                     ELSE IF c.type \in Textual THEN "s"
                     ELSE IF c.type = "boolean" THEN "b" ELSE "d"
           Val(c) == IF Nothing(c) THEN 0
                     ELSE IF c.type \in Numeric THEN canonicalNumber(c.value) ELSE c.value
<1>2. ASSUME NEW c \in Cell, Whole(c)
      PROVE  normalizeValue(c) = [tag |-> Tag(c), value |-> Val(c)]
  <2>1. c.type \in CellType /\ c.value \in Int
    BY DEF Cell
  <2>2. c.type = "bigint" => canonicalNumber(c.value) = c.value \div Micro
    BY <1>2, <2>1, Rounded DEF Whole, Micro
  <2> QED  BY <2>1, <2>2 DEF normalizeValue, CellType, Numeric, Textual, Nothing, Null
<1>3. Tag(a) = Tag(b) /\ Val(a) = Val(b)
  BY <1>2
<1>4. CASE Nothing(a) \/ Nothing(b)
  BY <1>3, <1>4 DEF Agree
<1>5. CASE ~Nothing(a) /\ ~Nothing(b) /\ a.type \in Numeric
  <2>1. b.type \in Numeric
    BY <1>3, <1>5 DEF Numeric, Textual
  <2>2. canonicalNumber(a.value) = canonicalNumber(b.value)
    BY <1>3, <1>5, <2>1
  <2>3. a.value - b.value \in (-Micro) .. Micro
    BY <1>1, <2>2, Rounded
  <2> QED  BY <1>5, <2>1, <2>3 DEF Agree
<1>6. CASE ~Nothing(a) /\ ~Nothing(b) /\ a.type \in Textual
  <2>1. b.type \in Textual /\ a.value = b.value
    BY <1>3, <1>6 DEF Numeric, Textual
  <2>2. Micro # 0
    BY DEF Micro
  <2> QED  BY <1>6, <2>1, <2>2 DEF Agree
<1>7. CASE ~Nothing(a) /\ ~Nothing(b) /\ a.type \notin Numeric \cup Textual
  <2>1. a.type \in {"boolean", "date"}
    BY <1>1, <1>7 DEF CellType, Numeric, Textual, Nothing
  <2>2. b.type \notin Numeric \cup Textual
    BY <1>3, <1>7, <2>1 DEF Numeric, Textual
  <2>3. b.type \in {"boolean", "date"}
    BY <1>1, <1>7, <2>2 DEF CellType, Numeric, Textual, Nothing
  <2>4. a.type = b.type /\ a.value = b.value
    BY <1>3, <1>7, <2>1, <2>2, <2>3
  <2> QED  BY <1>7, <2>2, <2>4 DEF Agree
<1> QED  BY <1>4, <1>5, <1>6, <1>7
-----------------------------------------------------------------------------
(* Rows.                                                                   *)

Named(result) == \A i, k \in DOMAIN result.columns : result.columns[i] = result.columns[k] => i = k

\* Where the columns have different names, a row's key has the cell of every
\* column at its place.
LEMMA KeyOfRow ==
  ASSUME NEW result, IsResult(result), Named(result), NEW i \in DOMAIN result.rows
  PROVE  RowKeys(result)[i]
           = [k \in DOMAIN result.columns |-> normalizeValue(result.rows[i][k])]
<1> DEFINE columns == result.columns
           row == result.rows[i]
<1>1. ASSUME NEW k \in DOMAIN columns PROVE Field(columns, row, columns[k]) = row[k]
  <2>1. DOMAIN columns = 1 .. Len(columns) /\ Len(columns) \in Nat
    BY DEF IsResult
  <2>2. \A j \in 1 .. (k - 1) : columns[j] # columns[k]
    BY <2>1 DEF Named
  <2>3. \A j \in DOMAIN columns : columns[j] = columns[k] => j = k
    BY DEF Named
  <2> HIDE DEF columns
  <2>4. (CHOOSE j \in DOMAIN columns : columns[j] = columns[k] /\ \A m \in 1 .. (j - 1) : columns[m] # columns[k]) = k
    BY <2>2, <2>3
  <2> QED  BY <2>4 DEF Field
<1>2. RowKeys(result)[i] = rowKey(row, columns)
  BY DEF RowKeys
<1> HIDE DEF row, columns
<1>3. rowKey(row, columns) = [k \in DOMAIN columns |-> normalizeValue(row[k])]
  BY <1>1 DEF rowKey
<1> QED  BY <1>2, <1>3 DEF row, columns

\* Rows that agree have one key; rows with one key agree but for the slack.
LEMMA RowsAgree ==
  ASSUME NEW s, NEW g, IsResult(s), IsResult(g), Named(s), Named(g),
         Len(s.columns) = Len(g.columns),
         NEW i \in DOMAIN s.rows, NEW k \in DOMAIN g.rows
  PROVE  /\ SameRow(s.rows[i], g.rows[k], 0) => RowKeys(s)[i] = RowKeys(g)[k]
         /\ RowKeys(s)[i] = RowKeys(g)[k] => SameRow(s.rows[i], g.rows[k], Micro)
<1> DEFINE p == s.rows[i]
           q == g.rows[k]
<1>1. DOMAIN s.columns = DOMAIN g.columns
  BY DEF IsResult
<1>2. DOMAIN p = DOMAIN s.columns /\ DOMAIN q = DOMAIN g.columns
  BY DEF IsResult
<1>3. p \in Seq(Cell) /\ q \in Seq(Cell)
  BY DEF IsResult
<1>4. \A c \in DOMAIN p : p[c] \in Cell /\ q[c] \in Cell /\ Whole(p[c]) /\ Whole(q[c])
  BY <1>1, <1>2, <1>3 DEF IsResult, Whole
<1>5. /\ RowKeys(s)[i] = [c \in DOMAIN p |-> normalizeValue(p[c])]
      /\ RowKeys(g)[k] = [c \in DOMAIN p |-> normalizeValue(q[c])]
  BY <1>1, <1>2, KeyOfRow
<1> HIDE DEF p, q
<1>6. ASSUME SameRow(p, q, 0) PROVE RowKeys(s)[i] = RowKeys(g)[k]
  BY <1>4, <1>5, <1>6, AgreeingKeys DEF SameRow
<1>7. ASSUME RowKeys(s)[i] = RowKeys(g)[k] PROVE SameRow(p, q, Micro)
  <2>1. \A c \in DOMAIN p : normalizeValue(p[c]) = normalizeValue(q[c])
    BY <1>5, <1>7
  <2> QED  BY <1>4, <2>1, KeysAgree DEF SameRow
<1> QED  BY <1>6, <1>7 DEF p, q

-----------------------------------------------------------------------------
(* Pairings.                                                               *)

PairsOff(f, n) == f \in [n -> n] /\ \A i, k \in n : f[i] = f[k] => i = k

\* Where every key occurs as often in one sequence as in the other, the places
\* of the one can be paired off with the places of the other.
LEMMA MatchPairs ==
  ASSUME NEW S, NEW a \in Seq(S), NEW b \in Seq(S), Len(a) = Len(b), MultisetMatch(a, b)
  PROVE  \E f : PairsOff(f, DOMAIN b) /\ \A i \in DOMAIN b : a[f[i]] = b[i]
<1> DEFINE n == DOMAIN b
           In(s, key) == {i \in DOMAIN s : s[i] = key}
           B(key) == CHOOSE h : h \in Bijection(In(b, key), In(a, key))
           f == [i \in n |-> B(b[i])[i]]
<1>1. DOMAIN a = n /\ n = 1 .. Len(b) /\ Len(b) \in Nat
  OBVIOUS
<1>2. IsFiniteSet(n)
  BY <1>1, FS_Interval
<1> HIDE DEF n
<1>3. ASSUME NEW i \in n
      PROVE  B(b[i]) \in Bijection(In(b, b[i]), In(a, b[i]))
  <2>1. IsFiniteSet(In(a, b[i])) /\ IsFiniteSet(In(b, b[i]))
    <3>1. In(a, b[i]) \in SUBSET n /\ In(b, b[i]) \in SUBSET n
      BY <1>1 DEF n
    <3> HIDE DEF In
    <3> QED  BY <1>2, <3>1, FS_Subset
  <2>2. Cardinality(In(b, b[i])) = Cardinality(In(a, b[i]))
    BY <1>3 DEF MultisetMatch, Occurs, Range, n
  <2> HIDE DEF In
  <2>3. Bijection(In(b, b[i]), In(a, b[i])) # {}
    BY <2>1, <2>2, FS_SameCardinalityBij DEF ExistsBijection
  <2> QED  BY <2>3
<1>4. ASSUME NEW i \in n
      PROVE  /\ B(b[i]) \in [In(b, b[i]) -> In(a, b[i])]
             /\ \A j, k \in In(b, b[i]) : B(b[i])[j] = B(b[i])[k] => j = k
  <2> HIDE DEF B, In
  <2> QED  BY <1>3 DEF Bijection, Injection, IsInjective
<1>5. ASSUME NEW i \in n PROVE f[i] \in n /\ a[f[i]] = b[i]
  <2>1. i \in In(b, b[i])
    BY DEF n
  <2>2. B(b[i])[i] \in In(a, b[i])
    <3> HIDE DEF B, In
    <3> QED  BY <1>4, <2>1
  <2>3. f[i] = B(b[i])[i]
    <3> HIDE DEF B
    <3> QED  OBVIOUS
  <2> HIDE DEF B, f
  <2> QED  BY <1>1, <2>2, <2>3
<1>6. ASSUME NEW i \in n, NEW k \in n, f[i] = f[k] PROVE i = k
  <2>1. b[i] = b[k]
    BY <1>5, <1>6
  <2>2. i \in In(b, b[i]) /\ k \in In(b, b[i])
    BY <2>1 DEF n
  <2>3. f[i] = B(b[i])[i] /\ f[k] = B(b[i])[k]
    <3> HIDE DEF B
    <3> QED  BY <2>1
  <2> HIDE DEF B, In, f
  <2> QED  BY <1>4, <1>6, <2>2, <2>3
<1>7. f \in [n -> n]
  <2>1. f = [i \in n |-> f[i]]
    <3> HIDE DEF B
    <3> QED  OBVIOUS
  <2> HIDE DEF f
  <2> QED  BY <1>5, <2>1
<1> HIDE DEF f
<1> QED  BY <1>5, <1>6, <1>7 DEF PairsOff, n

\* Where they can be paired off, every key occurs as often in both.
LEMMA PairsMatch ==
  ASSUME NEW S, NEW a \in Seq(S), NEW b \in Seq(S), Len(a) = Len(b),
         NEW f, PairsOff(f, DOMAIN b), \A i \in DOMAIN b : a[f[i]] = b[i]
  PROVE  MultisetMatch(a, b)
<1> DEFINE n == DOMAIN b
<1>1. DOMAIN a = n /\ n = 1 .. Len(b) /\ Len(b) \in Nat
  OBVIOUS
<1>2. IsFiniteSet(n)
  BY <1>1, FS_Interval
<1>3. f \in [n -> n] /\ \A i, k \in n : f[i] = f[k] => i = k
  BY DEF PairsOff
<1> HIDE DEF n
<1>4. f \in Surjection(n, n)
  <2>1. f \in Injection(n, n)
    BY <1>3 DEF Injection, IsInjective
  <2> QED  BY <1>2, <2>1, FS_Injection
<1>5. ASSUME NEW key PROVE Occurs(a, key) = Occurs(b, key)
  <2> DEFINE A == {i \in DOMAIN a : a[i] = key}
             B == {i \in DOMAIN b : b[i] = key}
             h == [i \in B |-> f[i]]
  <2>1. \A i \in B : f[i] \in A /\ h[i] = f[i] /\ i \in n
    BY <1>1, <1>3 DEF n
  <2>2. \A t \in A : \E i \in B : f[i] = t
    BY <1>1, <1>4 DEF Surjection, n
  <2>3. IsFiniteSet(B)
    <3>1. B \in SUBSET n
      BY DEF n
    <3> HIDE DEF B
    <3> QED  BY <1>2, <3>1, FS_Subset
  <2> HIDE DEF A, B
  <2>4. h \in Bijection(B, A)
    BY <1>3, <2>1, <2>2 DEF Bijection, Injection, Surjection, IsInjective
  <2>5. Cardinality(A) = Cardinality(B)
    <3> HIDE DEF h
    <3> QED  BY <2>3, <2>4, FS_Bijection DEF ExistsBijection
  <2> QED  BY <2>5 DEF Occurs, A, B
<1> QED  BY <1>5 DEF MultisetMatch
\* Where no result has two columns of one name, what is compared is what the
\* rows deserve.
LEMMA ComparisonRight ==
  ASSUME NEW s, NEW g, IsResult(s), IsResult(g), Named(s), Named(g), NEW ordered \in BOOLEAN
  PROVE  /\ SameRows(s, g, ordered, 0) => compareResults(s, g, ordered).isMatch
         /\ compareResults(s, g, ordered).isMatch => SameRows(s, g, ordered, Micro)
<1> DEFINE a == RowKeys(s)
           b == RowKeys(g)
           n == DOMAIN g.rows
           K == {a[i] : i \in DOMAIN a} \cup {b[i] : i \in DOMAIN b}
           Pairings == IF ordered THEN {[i \in n |-> i]}
                       ELSE {f \in [n -> n] : \A i, k \in n : f[i] = f[k] => i = k}
           Shaped == Len(s.columns) = Len(g.columns) /\ Len(s.rows) = Len(g.rows)
<1>1. /\ DOMAIN a = DOMAIN s.rows /\ DOMAIN b = n
      /\ DOMAIN s.rows = 1 .. Len(s.rows) /\ n = 1 .. Len(g.rows)
      /\ Len(s.rows) \in Nat /\ Len(g.rows) \in Nat
  BY DEF RowKeys, IsResult
<1>2. a \in Seq(K) /\ b \in Seq(K) /\ Len(a) = Len(s.rows) /\ Len(b) = Len(g.rows)
  <2>1. a = [i \in 1 .. Len(s.rows) |-> a[i]] /\ \A i \in 1 .. Len(s.rows) : a[i] \in K
    BY <1>1 DEF RowKeys
  <2>2. b = [i \in 1 .. Len(g.rows) |-> b[i]] /\ \A i \in 1 .. Len(g.rows) : b[i] \in K
    BY <1>1 DEF RowKeys
  <2>3. ASSUME NEW f, NEW N \in Nat, NEW S, f = [i \in 1 .. N |-> f[i]], \A i \in 1 .. N : f[i] \in S
        PROVE  f \in Seq(S) /\ Len(f) = N
    <3>1. f \in [1 .. N -> S]
      BY <2>3
    <3> QED  BY <3>1
  <2> HIDE DEF a, b, K
  <2>4. a \in Seq(K) /\ Len(a) = Len(s.rows)
    BY <1>1, <2>1, <2>3
  <2>5. b \in Seq(K) /\ Len(b) = Len(g.rows)
    BY <1>1, <2>2, <2>3
  <2> QED  BY <2>4, <2>5
<1>3. compareResults(s, g, ordered).isMatch
        <=> Shaped /\ IF ordered THEN a = b ELSE MultisetMatch(a, b)
  BY <1>2 DEF compareResults
<1>4. ASSUME NEW slack
      PROVE  SameRows(s, g, ordered, slack)
               <=> Shaped /\ \E f \in Pairings : \A i \in n : SameRow(s.rows[f[i]], g.rows[i], slack)
  BY DEF SameRows
<1>5. ASSUME Shaped, NEW i \in n, NEW k \in n
      PROVE  /\ SameRow(s.rows[i], g.rows[k], 0) => a[i] = b[k]
             /\ a[i] = b[k] => SameRow(s.rows[i], g.rows[k], Micro)
  BY <1>1, <1>5, RowsAgree
<1> HIDE DEF a, b, K, n
<1>6. ASSUME SameRows(s, g, ordered, 0) PROVE compareResults(s, g, ordered).isMatch
  <2>1. Shaped /\ \E f \in Pairings : \A i \in n : SameRow(s.rows[f[i]], g.rows[i], 0)
    BY <1>4, <1>6
  <2>2. PICK f \in Pairings : \A i \in n : SameRow(s.rows[f[i]], g.rows[i], 0)
    BY <2>1
  <2>3. f \in [n -> n]
    BY <2>2
  <2>4. \A i \in n : a[f[i]] = b[i]
    BY <1>5, <2>1, <2>2, <2>3
  <2>5. CASE ordered
    <3>1. f = [i \in n |-> i]
      BY <2>2, <2>5
    <3>2. \A i \in n : a[i] = b[i]
      BY <2>4, <3>1
    <3>3. a = b
      BY <1>1, <1>2, <2>1, <3>2
    <3> QED  BY <1>3, <2>1, <2>5, <3>3
  <2>6. CASE ~ordered
    <3>1. PairsOff(f, DOMAIN b)
      BY <1>1, <2>2, <2>6 DEF PairsOff
    <3>2. MultisetMatch(a, b)
      BY <1>1, <1>2, <2>1, <2>4, <3>1, PairsMatch
    <3> QED  BY <1>3, <2>1, <2>6, <3>2
  <2> QED  BY <2>5, <2>6
<1>7. ASSUME compareResults(s, g, ordered).isMatch PROVE SameRows(s, g, ordered, Micro)
  <2>1. Shaped /\ IF ordered THEN a = b ELSE MultisetMatch(a, b)
    BY <1>3, <1>7
  <2>2. \E f \in Pairings : \A i \in n : f[i] \in n /\ a[f[i]] = b[i]
    <3>1. CASE ordered
      <4>1. [i \in n |-> i] \in Pairings /\ a = b
        BY <2>1, <3>1
      <4> QED  BY <4>1
    <3>2. CASE ~ordered
      <4>1. MultisetMatch(a, b) /\ Len(a) = Len(b)
        BY <1>2, <2>1, <3>2
      <4>2. PICK f : PairsOff(f, DOMAIN b) /\ \A i \in DOMAIN b : a[f[i]] = b[i]
        BY <1>2, <4>1, MatchPairs
      <4> QED  BY <1>1, <3>2, <4>2 DEF PairsOff
    <3> QED  BY <3>1, <3>2
  <2>3. \E f \in Pairings : \A i \in n : SameRow(s.rows[f[i]], g.rows[i], Micro)
    BY <1>5, <2>1, <2>2
  <2> QED  BY <1>4, <2>1, <2>3
<1> QED  BY <1>6, <1>7
-----------------------------------------------------------------------------
(* Sums.                                                                   *)

\* By the well-foundedness of the numbers: the inductions below look for the
\* least one that fails.
LEMMA Least ==
  ASSUME NEW T \in SUBSET Nat, T # {}
  PROVE  \E m \in T : \A k \in T : m <= k
<1> DEFINE R == OpToRel(<, Nat)
<1>1. IsWellFoundedOn(R, Nat)
  BY NatLessThanWellFounded
<1>2. \A k, m \in Nat : k < m => <<k, m>> \in R
  BY DEF OpToRel
<1> HIDE DEF R
<1>3. PICK m \in T : \A k \in T : ~ (<<k, m>> \in R)
  BY <1>1, WFMin
<1>4. ASSUME NEW k \in T PROVE m <= k
  <2>1. k \in Nat /\ m \in Nat
    OBVIOUS
  <2>2. ~ (k < m)
    BY <1>2, <1>3, <2>1
  <2> QED  BY <2>1, <2>2
<1> QED  BY <1>4

\* Counted down from N.
LEMMA Greatest ==
  ASSUME NEW N \in Nat, NEW T \in SUBSET (1 .. N), T # {}
  PROVE  \E m \in T : \A k \in T : k <= m
<1> DEFINE R == {N - k : k \in T}
<1>1. R \in SUBSET Nat /\ R # {}
  <2>1. \A k \in T : N - k \in Nat
    OBVIOUS
  <2> QED  BY <2>1
<1>2. PICK r \in R : \A q \in R : r <= q
  <2> HIDE DEF R
  <2> QED  BY <1>1, Least
<1>3. PICK m \in T : r = N - m
  OBVIOUS
<1>4. ASSUME NEW k \in T PROVE k <= m
  <2>1. N - k \in R /\ k \in Nat /\ m \in Nat
    BY <1>3
  <2>2. N - m <= N - k
    BY <1>2, <1>3, <2>1
  <2> QED  BY <2>1, <2>2
<1> QED  BY <1>4

\* f is summed up element by element, whichever is taken first.
One(s) == CHOOSE x \in s : TRUE
Sums(g, f, S) == g = [s \in SUBSET S |-> IF s = {} THEN 0 ELSE f[One(s)] + g[s \ {One(s)}]]

LEMMA TotalIs ==
  ASSUME NEW S, NEW f, DOMAIN f = S, \E g : Sums(g, f, S)
  PROVE  \E g : Sums(g, f, S) /\ Total(f) = g[S]
<1> DEFINE g == CHOOSE g : Sums(g, f, S)
<1>1. Sums(g, f, S)
  OBVIOUS
<1>2. Total(f) = g[S]
  BY DEF Total, MapThenFoldSet, Sums, One
<1> HIDE DEF g
<1> QED  BY <1>1, <1>2

\* The sizes of disjoint parts add up to the size of the whole.
Parted(part, S, D) ==
  /\ part \in [S -> SUBSET D]
  /\ \A x, y \in S : x # y => part[x] \cap part[y] = {}

LEMMA TotalParts ==
  ASSUME NEW S, IsFiniteSet(S), NEW D, IsFiniteSet(D), NEW part, Parted(part, S, D)
  PROVE  Total([x \in S |-> Cardinality(part[x])]) = Cardinality(UNION {part[x] : x \in S})
<1> DEFINE f == [x \in S |-> Cardinality(part[x])]
           Whole_(s) == UNION {part[x] : x \in s}
           G == [s \in SUBSET S |-> Cardinality(Whole_(s))]
<1>1. ASSUME NEW s \in SUBSET S
      PROVE  /\ G[s] \in Nat
             /\ s # {} => One(s) \in s /\ G[s] = f[One(s)] + G[s \ {One(s)}] /\ f[One(s)] \in Nat
             /\ s = {} => G[s] = 0
  <2>1. Whole_(s) \in SUBSET D
    BY DEF Parted
  <2>2. IsFiniteSet(Whole_(s)) /\ Cardinality(Whole_(s)) \in Nat
    <3> HIDE DEF Whole_
    <3> QED  BY <2>1, FS_Subset, FS_CardinalityType
  <2>3. ASSUME s # {}
        PROVE  One(s) \in s /\ G[s] = f[One(s)] + G[s \ {One(s)}] /\ f[One(s)] \in Nat
    <3> DEFINE x == One(s)
               rest == s \ {x}
    <3>1. x \in s
      BY <2>3 DEF One
    <3> HIDE DEF x
    <3>2. part[x] \in SUBSET D /\ Whole_(rest) \in SUBSET D
      BY <3>1 DEF Parted
    <3>3. Whole_(s) = part[x] \cup Whole_(rest)
      BY <3>1
    <3>4. part[x] \cap Whole_(rest) = {}
      BY <3>1 DEF Parted
    <3>5. rest \in SUBSET S
      OBVIOUS
    <3> HIDE DEF Whole_, rest
    <3>6. /\ IsFiniteSet(part[x]) /\ IsFiniteSet(Whole_(rest))
          /\ Cardinality(part[x]) \in Nat /\ Cardinality(Whole_(rest)) \in Nat
      BY <3>2, FS_Subset, FS_CardinalityType
    <3>7. Cardinality(Whole_(s)) = Cardinality(part[x]) + Cardinality(Whole_(rest))
      <4> DEFINE P == part[x]
                 W == Whole_(rest)
      <4>1. IsFiniteSet(P) /\ IsFiniteSet(W) /\ P \cap W = {} /\ Whole_(s) = P \cup W
        BY <3>3, <3>4, <3>6
      <4>2. Cardinality(P) \in Nat /\ Cardinality(W) \in Nat
        BY <3>6
      <4> HIDE DEF P, W
      <4>3. Cardinality(P \cup W) = Cardinality(P) + Cardinality(W) - Cardinality(P \cap W)
        BY <4>1, FS_Union
      <4>4. Cardinality(P \cap W) = 0
        BY <4>1, FS_EmptySet
      <4>5. Cardinality(P \cup W) = Cardinality(P) + Cardinality(W)
        BY <4>2, <4>3, <4>4
      <4> QED  BY <4>1, <4>5 DEF P, W
    <3>8. G[s] = Cardinality(Whole_(s)) /\ G[rest] = Cardinality(Whole_(rest)) /\ f[x] = Cardinality(part[x])
      BY <3>1, <3>5
    <3> QED  BY <3>1, <3>6, <3>7, <3>8 DEF x, rest
  <2>4. s = {} => G[s] = 0
    BY FS_EmptySet
  <2>5. G[s] = Cardinality(Whole_(s))
    OBVIOUS
  <2> HIDE DEF G, Whole_, f
  <2> QED  BY <2>2, <2>3, <2>4, <2>5
<1>2. G = [s \in SUBSET S |-> G[s]] /\ DOMAIN f = S
  OBVIOUS
<1> HIDE DEF G, f
<1>3. Sums(G, f, S)
  BY <1>1, <1>2 DEF Sums
<1>4. PICK g : Sums(g, f, S) /\ Total(f) = g[S]
  BY <1>2, <1>3, TotalIs
<1> DEFINE Wrong == {k \in Nat : \E s \in SUBSET S : Cardinality(s) = k /\ g[s] # G[s]}
<1>5. Wrong = {}
  <2> SUFFICES ASSUME Wrong # {} PROVE FALSE
    OBVIOUS
  <2>1. Wrong \in SUBSET Nat
    OBVIOUS
  <2>2. PICK m \in Wrong : \A k \in Wrong : m <= k
    <3> HIDE DEF Wrong
    <3> QED  BY <2>1, Least
  <2>3. PICK s \in SUBSET S : Cardinality(s) = m /\ g[s] # G[s]
    BY <2>2
  <2>4. s # {}
    BY <1>1, <1>4, <2>3 DEF Sums
  <2> DEFINE rest == s \ {One(s)}
  <2>5. One(s) \in s /\ rest \in SUBSET S /\ IsFiniteSet(s)
    BY <1>1, <2>4, FS_Subset
  <2>6. Cardinality(rest) = m - 1 /\ Cardinality(rest) \in Nat
    BY <2>3, <2>5, FS_RemoveElement, FS_CardinalityType
  <2>7. g[rest] = G[rest]
    <3> HIDE DEF rest
    <3>1. m - 1 \notin Wrong
      BY <2>2, <2>6
    <3> QED  BY <2>5, <2>6, <3>1
  <2>8. g[s] = f[One(s)] + g[rest]
    BY <1>4, <2>4 DEF Sums
  <2> QED  BY <1>1, <2>3, <2>4, <2>7, <2>8
<1>6. g[S] = G[S]
  BY <1>5, FS_CardinalityType
<1>7. G[S] = Cardinality(UNION {part[x] : x \in S})
  BY DEF G
<1> QED  BY <1>4, <1>6, <1>7 DEF f
-----------------------------------------------------------------------------
(* Array.filter by places.                                                 *)

\* The places are met in turn: each has its number, and each number its place.
LEMMA PlacesInTurn ==
  ASSUME NEW N \in Nat, NEW places \in SUBSET (1 .. N)
  PROVE  /\ IsFiniteSet(places) /\ Cardinality(places) \in Nat
         /\ \A n \in 1 .. Cardinality(places) : NthOf(places, n) \in places
         /\ \A n, m \in 1 .. Cardinality(places) : NthOf(places, n) = NthOf(places, m) => n = m
         /\ \A i \in places : \E n \in 1 .. Cardinality(places) : NthOf(places, n) = i
<1> DEFINE UpTo(i) == {k \in places : k <= i}
           rank == [i \in places |-> Cardinality(UpTo(i))]
           C == Cardinality(places)
<1>1. IsFiniteSet(places) /\ C \in Nat
  <2>1. IsFiniteSet(1 .. N)
    BY FS_Interval
  <2> QED  BY <2>1, FS_Subset, FS_CardinalityType
<1>2. ASSUME NEW i \in places
      PROVE  IsFiniteSet(UpTo(i)) /\ Cardinality(UpTo(i)) \in 1 .. C
  <2>1. UpTo(i) \in SUBSET places /\ i \in UpTo(i)
    OBVIOUS
  <2> HIDE DEF UpTo
  <2>2. IsFiniteSet(UpTo(i)) /\ Cardinality(UpTo(i)) <= C
    BY <1>1, <2>1, FS_Subset
  <2>3. Cardinality(UpTo(i)) \in Nat /\ Cardinality(UpTo(i)) # 0
    BY <2>1, <2>2, FS_CardinalityType, FS_EmptySet
  <2> QED  BY <1>1, <2>2, <2>3
<1>3. ASSUME NEW i \in places, NEW k \in places, i < k
      PROVE  Cardinality(UpTo(i)) # Cardinality(UpTo(k))
  <2>1. UpTo(i) \in SUBSET UpTo(k) /\ k \in UpTo(k) /\ k \notin UpTo(i)
    <3>1. i \in Int /\ k \in Int /\ \A j \in places : j \in Int
      OBVIOUS
    <3>2. ~ (k <= i) /\ \A j \in places : j <= i => j <= k
      BY <1>3, <3>1
    <3>3. k <= k
      BY <3>1
    <3> QED  BY <3>2, <3>3
  <2>2. IsFiniteSet(UpTo(k))
    BY <1>2
  <2> HIDE DEF UpTo
  <2> QED  BY <2>1, <2>2, FS_Subset
<1>4. rank \in [places -> 1 .. C] /\ \A i \in places : rank[i] = Cardinality(UpTo(i))
  BY <1>2
<1> DEFINE T == 1 .. C
<1>5. IsFiniteSet(T) /\ Cardinality(T) = C
  BY <1>1, FS_Interval
<1> HIDE DEF rank, UpTo
<1>6. \A i, k \in places : rank[i] = rank[k] => i = k
  BY <1>3, <1>4
<1>7. rank \in Surjection(places, T)
  <2>1. rank \in Injection(places, T)
    BY <1>4, <1>6 DEF Injection, IsInjective
  <2> HIDE DEF T
  <2> QED  BY <1>1, <1>5, <2>1, FS_Injection
<1>8. ASSUME NEW n \in 1 .. C
      PROVE  NthOf(places, n) \in places /\ rank[NthOf(places, n)] = n
  <2>1. PICK i \in places : rank[i] = n
    BY <1>7 DEF Surjection
  <2>2. NthOf(places, n) = CHOOSE j \in places : Cardinality(UpTo(j)) = n
    BY DEF NthOf, UpTo
  <2>3. Cardinality(UpTo(i)) = n
    BY <1>4, <2>1
  <2>4. NthOf(places, n) \in places /\ Cardinality(UpTo(NthOf(places, n))) = n
    BY <2>2, <2>3
  <2> QED  BY <1>4, <2>4
<1>9. ASSUME NEW i \in places PROVE \E n \in 1 .. C : NthOf(places, n) = i
  <2>1. rank[i] \in 1 .. C
    BY <1>4
  <2>2. NthOf(places, rank[i]) \in places /\ rank[NthOf(places, rank[i])] = rank[i]
    BY <1>8, <2>1
  <2> QED  BY <1>6, <2>1, <2>2
<1> QED  BY <1>1, <1>8, <1>9
\* Everything that is counted once, under a key of S, is counted.
LEMMA TotalByKey ==
  ASSUME NEW S, IsFiniteSet(S), NEW D, IsFiniteSet(D), NEW key \in [D -> S]
  PROVE  Total([x \in S |-> Cardinality({i \in D : key[i] = x})]) = Cardinality(D)
<1> DEFINE part == [x \in S |-> {i \in D : key[i] = x}]
<1>1. Parted(part, S, D)
  BY DEF Parted
<1>2. Total([x \in S |-> Cardinality(part[x])]) = Cardinality(UNION {part[x] : x \in S})
  <2> HIDE DEF part
  <2> QED  BY <1>1, TotalParts
<1>3. [x \in S |-> Cardinality(part[x])] = [x \in S |-> Cardinality({i \in D : key[i] = x})]
  OBVIOUS
<1>4. UNION {part[x] : x \in S} = D
  <2>1. ASSUME NEW i \in D PROVE i \in part[key[i]] /\ key[i] \in S
    OBVIOUS
  <2>2. ASSUME NEW x \in S PROVE part[x] \in SUBSET D
    OBVIOUS
  <2> HIDE DEF part
  <2> QED  BY <2>1, <2>2
<1> QED  BY <1>2, <1>3, <1>4

-----------------------------------------------------------------------------
(* The figures of a class, whatever its submissions.                       *)

LEMMA RowsAddUp ==
  ASSUME NEW subs, NEW L \in Nat, DOMAIN subs = 1 .. L,
         \A i \in DOMAIN subs : subs[i].user \in Students /\ subs[i].mode \in Modes
  PROVE  /\ Total([u \in Students |-> Row(subs, u).subs]) = L
         /\ Total([u \in Students |-> Row(subs, u).passed])
              = Cardinality(Passing(subs, DOMAIN subs))
<1> DEFINE D == DOMAIN subs
           P == Passing(subs, D)
           user(some) == [i \in some |-> subs[i].user]
<1>1. IsFiniteSet(D) /\ Cardinality(D) = L /\ IsFiniteSet(P) /\ P \in SUBSET D
  <2>1. IsFiniteSet(D) /\ Cardinality(D) = L
    BY FS_Interval
  <2>2. P \in SUBSET D
    BY DEF Passing
  <2> HIDE DEF P, D
  <2> QED  BY <2>1, <2>2, FS_Subset
<1>2. IsFiniteSet(Students)
  BY GradingAssumption
<1>3. user(D) \in [D -> Students] /\ user(P) \in [P -> Students]
  BY <1>1
<1>4. ASSUME NEW u \in Students
      PROVE  /\ {i \in D : user(D)[i] = u} = Of(subs, u)
             /\ {i \in P : user(P)[i] = u} = Passing(subs, Of(subs, u))
  BY DEF Of, Passing
<1> HIDE DEF user, P
<1>5. Total([u \in Students |-> Cardinality({i \in D : user(D)[i] = u})]) = L
  <2> HIDE DEF D
  <2> QED  BY <1>1, <1>2, <1>3, TotalByKey
<1>6. Total([u \in Students |-> Cardinality({i \in P : user(P)[i] = u})]) = Cardinality(P)
  BY <1>1, <1>2, <1>3, TotalByKey
<1>7. /\ [u \in Students |-> Cardinality({i \in D : user(D)[i] = u})]
           = [u \in Students |-> Row(subs, u).subs]
      /\ [u \in Students |-> Cardinality({i \in P : user(P)[i] = u})]
           = [u \in Students |-> Row(subs, u).passed]
  BY <1>4 DEF Row
<1> QED  BY <1>5, <1>6, <1>7 DEF P

LEMMA ModulesFinite ==
  ASSUME NEW subs, NEW D, IsFiniteSet(D)
  PROVE  IsFiniteSet({subs[i].module : i \in D})
<1> DEFINE T == {subs[i].module : i \in D}
           f == [i \in D |-> subs[i].module]
<1>1. f \in Surjection(D, T)
  BY DEF Surjection
<1> HIDE DEF T, f
<1>2. IsFiniteSet(T)
  BY <1>1, FS_Surjection
<1> QED  BY <1>2 DEF T

LEMMA ModulesAddUp ==
  ASSUME NEW subs, NEW L \in Nat, DOMAIN subs = 1 .. L
  PROVE  /\ Total([m \in Modules(subs) |-> Module(subs, m).total]) = L
         /\ Total([m \in Modules(subs) |-> Module(subs, m).passed])
              = Cardinality(Passing(subs, DOMAIN subs))
<1> DEFINE D == DOMAIN subs
           P == Passing(subs, D)
           S == Modules(subs)
           module(some) == [i \in some |-> subs[i].module]
<1>1. IsFiniteSet(D) /\ Cardinality(D) = L /\ IsFiniteSet(P) /\ P \in SUBSET D
  <2>1. IsFiniteSet(D) /\ Cardinality(D) = L
    BY FS_Interval
  <2>2. P \in SUBSET D
    BY DEF Passing
  <2> HIDE DEF P, D
  <2> QED  BY <2>1, <2>2, FS_Subset
<1>2. IsFiniteSet(S)
  <2> HIDE DEF D
  <2>1. S = {subs[i].module : i \in D}
    BY DEF Modules, D
  <2> QED  BY <1>1, <2>1, ModulesFinite
<1>3. module(D) \in [D -> S] /\ module(P) \in [P -> S]
  BY <1>1 DEF Modules
<1>4. ASSUME NEW m \in S
      PROVE  /\ {i \in D : module(D)[i] = m} = {i \in DOMAIN subs : subs[i].module = m}
             /\ {i \in P : module(P)[i] = m} = Passing(subs, {i \in DOMAIN subs : subs[i].module = m})
  BY DEF Passing
<1> HIDE DEF module, P
<1>5. Total([m \in S |-> Cardinality({i \in D : module(D)[i] = m})]) = L
  <2> HIDE DEF D, S
  <2> QED  BY <1>1, <1>2, <1>3, TotalByKey
<1>6. Total([m \in S |-> Cardinality({i \in P : module(P)[i] = m})]) = Cardinality(P)
  <2> HIDE DEF S
  <2> QED  BY <1>1, <1>2, <1>3, TotalByKey
<1>7. /\ [m \in S |-> Cardinality({i \in D : module(D)[i] = m})]
           = [m \in S |-> Module(subs, m).total]
      /\ [m \in S |-> Cardinality({i \in P : module(P)[i] = m})]
           = [m \in S |-> Module(subs, m).passed]
  BY <1>4 DEF Module
<1> QED  BY <1>5, <1>6, <1>7 DEF P

LEMMA ModesAddUp ==
  ASSUME NEW subs, NEW L \in Nat, DOMAIN subs = 1 .. L, \A i \in DOMAIN subs : subs[i].mode \in Modes
  PROVE  Total([m \in Modes |-> Mode(subs, m)]) = L
<1> DEFINE D == DOMAIN subs
           mode == [i \in D |-> subs[i].mode]
<1>1. IsFiniteSet(D) /\ Cardinality(D) = L
  BY FS_Interval
<1>2. IsFiniteSet(Modes)
  <2>1. IsFiniteSet({}) /\ Modes = (({} \cup {"COURSE"}) \cup {"ASSIGNMENT"}) \cup {"EXAM"}
    BY FS_EmptySet DEF Modes
  <2>2. IsFiniteSet({} \cup {"COURSE"})
    BY <2>1, FS_AddElement
  <2>3. IsFiniteSet(({} \cup {"COURSE"}) \cup {"ASSIGNMENT"})
    BY <2>2, FS_AddElement
  <2> QED  BY <2>1, <2>3, FS_AddElement
<1>3. mode \in [D -> Modes]
  OBVIOUS
<1>4. [m \in Modes |-> Cardinality({i \in D : mode[i] = m})] = [m \in Modes |-> Mode(subs, m)]
  <2>1. ASSUME NEW m \in Modes PROVE {i \in D : mode[i] = m} = {i \in DOMAIN subs : subs[i].mode = m}
    OBVIOUS
  <2> HIDE DEF mode
  <2> QED  BY <2>1 DEF Mode
<1> HIDE DEF mode
<1>5. Total([m \in Modes |-> Cardinality({i \in D : mode[i] = m})]) = L
  <2> HIDE DEF D
  <2> QED  BY <1>1, <1>2, <1>3, TotalByKey
<1> QED  BY <1>4, <1>5

LEMMA GroupsAddUp ==
  ASSUME NEW subs, NEW L \in Nat, DOMAIN subs = 1 .. L, NEW u
  PROVE  /\ Total([m \in Groups(subs, u) |-> Group(subs, u, m).count]) = Row(subs, u).subs
         /\ Row(subs, u).problems <= Row(subs, u).subs
<1> DEFINE D == Of(subs, u)
           S == Groups(subs, u)
           module == [i \in D |-> subs[i].module]
           step == [i \in D |-> <<subs[i].mode, subs[i].module, subs[i].step>>]
           T == {<<subs[i].mode, subs[i].module, subs[i].step>> : i \in D}
<1>1. IsFiniteSet(D)
  <2>1. IsFiniteSet(DOMAIN subs) /\ D \in SUBSET (DOMAIN subs)
    BY FS_Interval DEF Of
  <2> HIDE DEF D
  <2> QED  BY <2>1, FS_Subset
<1>2. IsFiniteSet(S)
  BY <1>1, ModulesFinite DEF Groups
<1>3. module \in [D -> S]
  BY DEF Groups
<1>4. [m \in S |-> Cardinality({i \in D : module[i] = m})] = [m \in S |-> Group(subs, u, m).count]
  <2>1. ASSUME NEW m \in S PROVE {i \in D : module[i] = m} = {i \in D : subs[i].module = m}
    OBVIOUS
  <2> HIDE DEF module
  <2> QED  BY <2>1 DEF Group
<1>5. Row(subs, u).subs = Cardinality(D) /\ Row(subs, u).problems = Cardinality(T)
  BY DEF Row
<1>6. step \in Surjection(D, T)
  BY DEF Surjection
<1> HIDE DEF module, step, D, S, T
<1>7. Total([m \in S |-> Cardinality({i \in D : module[i] = m})]) = Cardinality(D)
  BY <1>1, <1>2, <1>3, TotalByKey
<1>8. Cardinality(T) <= Cardinality(D)
  BY <1>1, <1>6, FS_Surjection
<1> QED  BY <1>4, <1>5, <1>7, <1>8 DEF S
-----------------------------------------------------------------------------
(* Texts.  A scan is a sequence of states, one after each character.       *)

\* The two kinds of states.
Within(o, in) == Scanner(o, in, FALSE)
Skips(o, in) == Scanner(o, in, TRUE)

\* By operators, so that a fact about every text can be used of one.
Char(text, i) == text[i]
State(scan, i) == scan[i]

\* A character that was taken with the one before it.
LEMMA ScanSkip ==
  ASSUME NEW sql, NEW i, NEW o, NEW in
  PROVE  Scan(sql, Skips(o, in), i) = Within(o, in)
<1> DEFINE s == Skips(o, in)
<1>1. s.out = o /\ s.in = in /\ s.skip = TRUE
  BY DEF Scanner, Within, Skips
<1> HIDE DEF s
<1>2. Scan(sql, s, i) = Within(o, in)
  BY <1>1 DEF Scan, Within, Skips, Char
<1> QED  BY <1>2 DEF s

\* A character of a comment.
LEMMA ScanLine ==
  ASSUME NEW sql, NEW i, NEW o
  PROVE  LET t == Scan(sql, Within(o, "line"), i)
         IN /\ Char(sql, i) = "newline" => t = Within(Append(o, Char(sql, i)), "code")
            /\ Char(sql, i) # "newline" => t = Within(o, "line")
<1> DEFINE s == Within(o, "line")
<1>1. s.out = o /\ s.in = "line" /\ s.skip = FALSE
  BY DEF Scanner, Within, Skips
<1> HIDE DEF s
<1>2. /\ Char(sql, i) = "newline" => Scan(sql, s, i) = Within(Append(o, Char(sql, i)), "code")
      /\ Char(sql, i) # "newline" => Scan(sql, s, i) = s
  <2>1. "line" \notin Quotes
    BY DEF Quotes
  <2> QED  BY <1>1, <2>1 DEF Scan, Within, Skips, Char
<1> QED  BY <1>2 DEF s

LEMMA ScanBlock ==
  ASSUME NEW sql, NEW i, NEW o
  PROVE  LET t == Scan(sql, Within(o, "block"), i)
         IN /\ (Char(sql, i) = "*" /\ After(sql, i) = "/") => t = Skips(o, "code")
            /\ ~(Char(sql, i) = "*" /\ After(sql, i) = "/") => t = Within(o, "block")
<1> DEFINE s == Within(o, "block")
<1>1. s.out = o /\ s.in = "block" /\ s.skip = FALSE
  BY DEF Scanner, Within, Skips
<1> HIDE DEF s
<1>2. /\ (Char(sql, i) = "*" /\ After(sql, i) = "/") => Scan(sql, s, i) = Skips(o, "code")
      /\ ~(Char(sql, i) = "*" /\ After(sql, i) = "/") => Scan(sql, s, i) = s
  <2>1. "block" \notin Quotes
    BY DEF Quotes
  <2> QED  BY <1>1, <2>1 DEF Scan, Within, Skips, Char
<1> QED  BY <1>2 DEF s

\* A character of a literal.
LEMMA ScanQuote ==
  ASSUME NEW sql, NEW i, NEW o, NEW q \in Quotes
  PROVE  LET c == Char(sql, i)
             next == After(sql, i)
             t == Scan(sql, Within(o, q), i)
         IN /\ (c = "escape" /\ next # "end") => t = Skips(Append(Append(o, c), next), q)
            /\ (c = q /\ next = q) => t = Skips(Append(Append(o, c), next), q)
            /\ (c # "escape" /\ c = q /\ next # q) => t = Within(Append(o, c), "code")
            /\ (c # "escape" /\ c # q) => t = Within(Append(o, c), q)
<1> DEFINE s == Within(o, q)
           c == Char(sql, i)
           next == After(sql, i)
           two == (c = "escape" /\ next # "end") \/ (c = q /\ next = q)
<1>1. s.out = o /\ s.in = q /\ s.skip = FALSE
  BY DEF Scanner, Within, Skips
<1> HIDE DEF s
<1>2. /\ two => Scan(sql, s, i) = Skips(Append(Append(o, c), next), q)
      /\ (~two /\ c = q) => Scan(sql, s, i) = Within(Append(o, c), "code")
      /\ (~two /\ c # q) => Scan(sql, s, i) = Within(Append(o, c), q)
  <2>1. q # "line" /\ q # "block" /\ q # "code"
    BY DEF Quotes
  <2> QED  BY <1>1, <2>1 DEF Scan, Within, Skips, Char
<1> QED  BY <1>2 DEF s

\* A character of code.
LEMMA ScanCode ==
  ASSUME NEW sql, NEW i, NEW o
  PROVE  LET c == Char(sql, i)
             next == After(sql, i)
             t == Scan(sql, Within(o, "code"), i)
         IN /\ c \in Quotes => t = Within(Append(o, c), c)
            /\ (c \notin Quotes /\ c = "-" /\ next = "-") => t = Within(o, "line")
            /\ (c \notin Quotes /\ c = "/" /\ next = "*") => t = Skips(Append(o, "blank"), "block")
            /\ (c \notin Quotes /\ ~(c = "-" /\ next = "-") /\ ~(c = "/" /\ next = "*")) =>
                 t = Within(Append(o, c), "code")
<1> DEFINE s == Within(o, "code")
           c == Char(sql, i)
           next == After(sql, i)
           line == c = "-" /\ next = "-"
           block == c = "/" /\ next = "*"
<1>1. s.out = o /\ s.in = "code" /\ s.skip = FALSE
  BY DEF Scanner, Within, Skips
<1> HIDE DEF s
<1>2. /\ c \in Quotes => Scan(sql, s, i) = Within(Append(o, c), c)
      /\ (c \notin Quotes /\ line) => Scan(sql, s, i) = Within(o, "line")
      /\ (c \notin Quotes /\ block) => Scan(sql, s, i) = Skips(Append(o, "blank"), "block")
      /\ (c \notin Quotes /\ ~line /\ ~block) => Scan(sql, s, i) = Within(Append(o, c), "code")
  <2>1. "code" \notin Quotes
    BY DEF Quotes
  <2>2. ~(line /\ block)
    OBVIOUS
  <2> QED  BY <1>1, <2>1, <2>2 DEF Scan, Within, Skips, Char
<1> QED  BY <1>2 DEF s

\* A scan takes one state to the next.
Scans(scan, sql) ==
  /\ scan[0] = Within(<<>>, "code")
  /\ \A i \in 1 .. Len(sql) : scan[i] = Scan(sql, scan[i - 1], i)

\* So does the scan of a text.
LEMMA ScannedIs ==
  ASSUME NEW sql \in Seq(STRING)
  PROVE  Scans(Scanned(sql), sql)
<1> DEFINE N == Len(sql)
           z == Within(<<>>, "code")
           Is(n, f) == f = [i \in 0 .. n |-> IF i = 0 THEN z ELSE Scan(sql, f[i - 1], i)]
           Made(n) == \E f : Is(n, f)
           Bad == {n \in 0 .. N : ~ Made(n)}
<1>1. \E f : Is(N, f)
  <2> SUFFICES ASSUME ~ \E f : Is(N, f) PROVE FALSE
    OBVIOUS
  <2>1. N \in Nat
    OBVIOUS
  <2>2. Bad \in SUBSET Nat /\ N \in Bad
    <3>1. ~ Made(N)
      OBVIOUS
    <3> HIDE DEF Made, N
    <3> QED  BY <2>1, <3>1
  <2>3. PICK n \in Bad : \A k \in Bad : n <= k
    <3> HIDE DEF Bad
    <3> QED  BY <2>2, Least
  <2>4. n \in 0 .. N /\ ~ \E f : Is(n, f)
    OBVIOUS
  <2>5. n # 0
    <3>1. Is(0, [i \in 0 .. 0 |-> z])
      OBVIOUS
    <3> QED  BY <2>4, <3>1
  <2> HIDE DEF N, z
  <2>6. n - 1 \in 0 .. N /\ n \in 1 .. N
    BY <2>1, <2>4, <2>5
  <2>7. n - 1 \notin Bad
    <3> HIDE DEF Bad
    <3> QED  BY <2>1, <2>3, <2>6
  <2>8. PICK f : Is(n - 1, f)
    BY <2>6, <2>7
  <2> DEFINE g == [i \in 0 .. n |-> IF i = n THEN Scan(sql, f[n - 1], n) ELSE f[i]]
  <2>9. ASSUME NEW i \in 0 .. n PROVE g[i] = IF i = 0 THEN z ELSE Scan(sql, g[i - 1], i)
    <3>1. CASE i = 0
      <4>1. i \in 0 .. (n - 1) /\ i # n
        BY <2>5, <2>6, <3>1
      <4> QED  BY <2>8, <3>1, <4>1
    <3>2. CASE i # 0
      <4>1. i - 1 \in 0 .. n /\ i - 1 # n
        BY <2>6, <3>2
      <4>2. g[i - 1] = f[i - 1]
        BY <4>1
      <4>3. CASE i = n
        BY <3>2, <4>2, <4>3
      <4>4. CASE i # n
        <5>1. i \in 0 .. (n - 1)
          BY <2>6, <4>4
        <5> QED  BY <2>8, <3>2, <4>2, <4>4, <5>1
      <4> QED  BY <4>3, <4>4
    <3> QED  BY <3>1, <3>2
  <2>10. g = [i \in 0 .. n |-> g[i]]
    OBVIOUS
  <2> HIDE DEF g
  <2>11. Is(n, g)
    BY <2>9, <2>10
  <2> QED  BY <2>4, <2>11
<1> DEFINE h == Scanned(sql)
<1>2. h = CHOOSE f : Is(N, f)
  BY DEF Scanned, Within
<1>3. Is(N, h)
  <2> HIDE DEF Is, h
  <2> QED  BY <1>1, <1>2
<1> HIDE DEF h
<1>4. N \in Nat
  OBVIOUS
<1> HIDE DEF N, z
<1>5. 0 \in 0 .. N /\ \A i \in 1 .. N : i \in 0 .. N /\ i # 0
  BY <1>4
<1>6. h[0] = z /\ \A i \in 1 .. N : h[i] = Scan(sql, h[i - 1], i)
  BY <1>3, <1>5
<1> QED  BY <1>6 DEF Scans, N, z, h

\* The text after some tokens, and after one more.
LEMMA SpelledIs ==
  ASSUME NEW tokens \in Seq([kind : Kinds, text : Seq(STRING)])
  PROVE  LET text == Spelled(tokens)
         IN /\ text[0] = <<>>
            /\ \A k \in 1 .. Len(tokens) : text[k] = text[k - 1] \o tokens[k].text
            /\ \A k \in 0 .. Len(tokens) : text[k] \in Seq(STRING)
<1> DEFINE N == Len(tokens)
           z == <<>>
           Is(n, f) == f = [i \in 0 .. n |-> IF i = 0 THEN z ELSE f[i - 1] \o tokens[i].text]
           Made(n) == \E f : Is(n, f)
           Bad == {n \in 0 .. N : ~ Made(n)}
<1>1. \E f : Is(N, f)
  <2> SUFFICES ASSUME ~ \E f : Is(N, f) PROVE FALSE
    OBVIOUS
  <2>1. N \in Nat
    OBVIOUS
  <2>2. Bad \in SUBSET Nat /\ N \in Bad
    <3>1. ~ Made(N)
      OBVIOUS
    <3> HIDE DEF Made, N
    <3> QED  BY <2>1, <3>1
  <2>3. PICK n \in Bad : \A k \in Bad : n <= k
    <3> HIDE DEF Bad
    <3> QED  BY <2>2, Least
  <2>4. n \in 0 .. N /\ ~ \E f : Is(n, f)
    OBVIOUS
  <2>5. n # 0
    <3>1. Is(0, [i \in 0 .. 0 |-> z])
      OBVIOUS
    <3> QED  BY <2>4, <3>1
  <2> HIDE DEF N, z
  <2>6. n - 1 \in 0 .. N /\ n \in 1 .. N
    BY <2>1, <2>4, <2>5
  <2>7. n - 1 \notin Bad
    <3> HIDE DEF Bad
    <3> QED  BY <2>1, <2>3, <2>6
  <2>8. PICK f : Is(n - 1, f)
    BY <2>6, <2>7
  <2> DEFINE g == [i \in 0 .. n |-> IF i = n THEN f[n - 1] \o tokens[n].text ELSE f[i]]
  <2>9. ASSUME NEW i \in 0 .. n PROVE g[i] = IF i = 0 THEN z ELSE g[i - 1] \o tokens[i].text
    <3>1. CASE i = 0
      <4>1. i \in 0 .. (n - 1) /\ i # n
        BY <2>5, <2>6, <3>1
      <4> QED  BY <2>8, <3>1, <4>1
    <3>2. CASE i # 0
      <4>1. i - 1 \in 0 .. n /\ i - 1 # n
        BY <2>6, <3>2
      <4>2. g[i - 1] = f[i - 1]
        BY <4>1
      <4>3. CASE i = n
        BY <3>2, <4>2, <4>3
      <4>4. CASE i # n
        <5>1. i \in 0 .. (n - 1)
          BY <2>6, <4>4
        <5> QED  BY <2>8, <3>2, <4>2, <4>4, <5>1
      <4> QED  BY <4>3, <4>4
    <3> QED  BY <3>1, <3>2
  <2>10. g = [i \in 0 .. n |-> g[i]]
    OBVIOUS
  <2> HIDE DEF g
  <2>11. Is(n, g)
    BY <2>9, <2>10
  <2> QED  BY <2>4, <2>11
<1> DEFINE h == Spelled(tokens)
<1>2. h = CHOOSE f : Is(N, f)
  BY DEF Spelled
<1>3. Is(N, h)
  <2> HIDE DEF Is, h
  <2> QED  BY <1>1, <1>2
<1> HIDE DEF h
<1>4. N \in Nat
  OBVIOUS
<1> HIDE DEF N, z
<1>5. 0 \in 0 .. N /\ \A i \in 1 .. N : i \in 0 .. N /\ i # 0
  BY <1>4
<1>6. h[0] = z /\ \A i \in 1 .. N : h[i] = h[i - 1] \o tokens[i].text
  BY <1>3, <1>5
<1>7. \A k \in 1 .. N : tokens[k].text \in Seq(STRING)
  <2> SUFFICES ASSUME NEW k \in 1 .. N PROVE tokens[k].text \in Seq(STRING)
    OBVIOUS
  <2> DEFINE T == [kind : Kinds, text : Seq(STRING)]
  <2>1. tokens \in Seq(T)
    OBVIOUS
  <2> HIDE DEF T
  <2>2. tokens[k] \in T
    BY <2>1 DEF N
  <2> QED  BY <2>2 DEF T
<1>8. z \in Seq(STRING) /\ \A a, b \in Seq(STRING) : a \o b \in Seq(STRING)
  BY DEF z
<1> DEFINE Wrong == {k \in 0 .. N : h[k] \notin Seq(STRING)}
<1>9. Wrong = {}
  <2> SUFFICES ASSUME Wrong # {} PROVE FALSE
    OBVIOUS
  <2>1. Wrong \in SUBSET Nat
    BY <1>4
  <2>2. PICK k \in Wrong : \A j \in Wrong : k <= j
    <3> HIDE DEF Wrong
    <3> QED  BY <2>1, Least
  <2>3. k \in 0 .. N /\ h[k] \notin Seq(STRING)
    OBVIOUS
  <2>4. k # 0
    BY <1>6, <1>8, <2>3
  <2>5. k - 1 \in 0 .. N /\ k \in 1 .. N /\ ~(k <= k - 1)
    BY <1>4, <2>3, <2>4
  <2>6. h[k - 1] \in Seq(STRING)
    BY <2>2, <2>5
  <2>7. h[k] \in Seq(STRING)
    BY <1>6, <1>7, <1>8, <2>5, <2>6
  <2> QED  BY <2>3, <2>7
<1> QED  BY <1>6, <1>9 DEF h, N, z
\* x stands in sql after p characters, which the scan has seen.
At(sql, scan, p, x) ==
  /\ sql \in Seq(STRING) /\ "end" \notin Range(sql) /\ Scans(scan, sql)
  /\ p \in Nat /\ x \in Seq(STRING) /\ Len(x) >= 1 /\ p + Len(x) <= Len(sql)
  /\ \A j \in 1 .. Len(x) : Char(sql, p + j) = Char(x, j)

\* Between two tokens: a literal may seem to go on where another one follows.
Between(sql, scan, p, o) ==
  \/ State(scan, p) = Within(o, "code")
  \/ /\ p < Len(sql) /\ Char(sql, p + 1) \in Quotes
     /\ State(scan, p) = Skips(Append(o, Char(sql, p + 1)), Char(sql, p + 1))

LEMMA AtFacts ==
  ASSUME NEW sql, NEW scan, NEW p, NEW x, At(sql, scan, p, x)
  PROVE  /\ Len(x) \in Nat /\ Len(sql) \in Nat /\ p \in Nat /\ p + Len(x) <= Len(sql)
         /\ \A j \in 1 .. Len(x) :
              /\ Char(x, j) \in STRING /\ Char(x, j) # "end" /\ Char(sql, p + j) = Char(x, j)
              /\ State(scan, p + j) = Scan(sql, State(scan, p + j - 1), p + j)
              /\ j < Len(x) => After(sql, p + j) = Char(x, j + 1)
              /\ After(sql, p + j) = IF p + j < Len(sql) THEN Char(sql, p + j + 1) ELSE "end"
<1>1. /\ sql \in Seq(STRING) /\ x \in Seq(STRING) /\ p \in Nat
      /\ p + Len(x) <= Len(sql) /\ \A j \in 1 .. Len(x) : Char(sql, p + j) = Char(x, j)
  BY DEF At
<1>2. Len(x) \in Nat /\ Len(sql) \in Nat /\ DOMAIN sql = 1 .. Len(sql)
  BY <1>1
<1>3. ASSUME NEW j \in 1 .. Len(x)
      PROVE  /\ Char(x, j) \in STRING /\ Char(x, j) # "end" /\ Char(sql, p + j) = Char(x, j)
             /\ State(scan, p + j) = Scan(sql, State(scan, p + j - 1), p + j)
             /\ j < Len(x) => After(sql, p + j) = Char(x, j + 1)
             /\ After(sql, p + j) = IF p + j < Len(sql) THEN Char(sql, p + j + 1) ELSE "end"
  <2>1. p + j \in 1 .. Len(sql)
    BY <1>1, <1>2
  <2>2. Char(x, j) \in STRING /\ Char(sql, p + j) = Char(x, j)
    BY <1>1 DEF Char
  <2>3. Char(x, j) # "end"
    <3>1. Char(sql, p + j) \in Range(sql)
      BY <1>2, <2>1 DEF Range, Char
    <3> QED  BY <2>2, <3>1 DEF At
  <2>4. State(scan, p + j) = Scan(sql, State(scan, p + j - 1), p + j)
    BY <2>1 DEF At, Scans, State
  <2>5. ASSUME j < Len(x) PROVE After(sql, p + j) = Char(x, j + 1)
    <3>1. j + 1 \in 1 .. Len(x) /\ p + j < Len(sql) /\ p + (j + 1) = (p + j) + 1
      BY <1>1, <1>2, <2>5
    <3> QED  BY <1>1, <3>1 DEF After, Char
  <2> QED  BY <2>2, <2>3, <2>4, <2>5 DEF After, Char
<1> QED  BY <1>1, <1>2, <1>3

\* The first character of a token is scanned as code.
LEMMA FirstOfToken ==
  ASSUME NEW sql, NEW scan, NEW p, NEW x, NEW o,
         At(sql, scan, p, x), Between(sql, scan, p, o)
  PROVE  /\ Char(x, 1) \in Quotes => State(scan, p + 1) = Within(Append(o, Char(x, 1)), Char(x, 1))
         /\ Char(x, 1) = "-" /\ After(sql, p + 1) = "-" => State(scan, p + 1) = Within(o, "line")
         /\ Char(x, 1) = "/" /\ After(sql, p + 1) = "*" =>
              State(scan, p + 1) = Skips(Append(o, "blank"), "block")
         /\ Char(x, 1) \notin Quotes /\ ~(Char(x, 1) = "-" /\ After(sql, p + 1) = "-")
              /\ ~(Char(x, 1) = "/" /\ After(sql, p + 1) = "*") => State(scan, p + 1) = Within(Append(o, Char(x, 1)), "code")
<1>1. 1 \in 1 .. Len(x)
  BY AtFacts DEF At
<1>2. p + 1 - 1 = p /\ Char(sql, p + 1) = Char(x, 1) /\ State(scan, p + 1) = Scan(sql, State(scan, p), p + 1)
  <2>1. p \in Nat
    BY AtFacts
  <2>2. Char(sql, p + 1) = Char(x, 1) /\ State(scan, p + 1) = Scan(sql, State(scan, p + 1 - 1), p + 1)
    BY <1>1, AtFacts
  <2> QED  BY <2>1, <2>2
<1>3. "-" \notin Quotes /\ "/" \notin Quotes
  BY DEF Quotes
<1>4. CASE State(scan, p) = Within(o, "code")
  <2>1. ~(Char(x, 1) = "-" /\ Char(x, 1) = "/")
    OBVIOUS
  <2> DEFINE c == Char(x, 1)
             a == After(sql, p + 1)
             t == Scan(sql, Within(o, "code"), p + 1)
  <2>2. /\ c \in Quotes => t = Within(Append(o, c), c)
        /\ (c \notin Quotes /\ c = "-" /\ a = "-") => t = Within(o, "line")
        /\ (c \notin Quotes /\ c = "/" /\ a = "*") => t = Skips(Append(o, "blank"), "block")
        /\ (c \notin Quotes /\ ~(c = "-" /\ a = "-") /\ ~(c = "/" /\ a = "*")) => t = Within(Append(o, c), "code")
    <3>1. Char(sql, p + 1) = c
      BY <1>2
    <3> HIDE DEF c
    <3> QED  BY <3>1, ScanCode
  <2>3. State(scan, p + 1) = t
    BY <1>2, <1>4
  <2> HIDE DEF t, a
  <2> QED  BY <1>3, <2>2, <2>3 DEF a
<1>5. CASE /\ Char(sql, p + 1) \in Quotes
           /\ State(scan, p) = Skips(Append(o, Char(sql, p + 1)), Char(sql, p + 1))
  <2>1. State(scan, p + 1) = Scan(sql, Skips(Append(o, Char(x, 1)), Char(x, 1)), p + 1)
    BY <1>2, <1>5
  <2>2. State(scan, p + 1) = Within(Append(o, Char(x, 1)), Char(x, 1))
    BY <2>1, ScanSkip
  <2>3. Char(x, 1) \in Quotes /\ Char(x, 1) # "-" /\ Char(x, 1) # "/"
    BY <1>2, <1>3, <1>5
  <2> QED  BY <2>2, <2>3
<1> QED  BY <1>4, <1>5 DEF Between

\* A comment to the end of the line leaves its line break, or nothing.
LEMMA LineComment ==
  ASSUME NEW sql, NEW scan, NEW p, NEW x, NEW o,
         At(sql, scan, p, x), Between(sql, scan, p, o), IsLineComment(x)
  PROVE  /\ Len(x) >= 3 /\ Char(x, Len(x)) = "newline" => State(scan, p + Len(x)) = Within(Append(o, "newline"), "code")
         /\ Char(x, Len(x)) # "newline" => State(scan, p + Len(x)) = Within(o, "line")
<1> DEFINE m == Len(x)
           in == Within(o, "line")
<1>1. /\ m \in Nat /\ p \in Nat
      /\ \A j \in 1 .. m : /\ Char(sql, p + j) = Char(x, j)
                           /\ State(scan, p + j) = Scan(sql, State(scan, p + j - 1), p + j)
                           /\ j < m => After(sql, p + j) = Char(x, j + 1)
  BY AtFacts
<1>2. /\ m >= 2 /\ Char(x, 1) = "-" /\ Char(x, 2) = "-" /\ \A j \in 3 .. (m - 1) : Char(x, j) # "newline"
  BY DEF IsLineComment, Char
<1>3. State(scan, p + 1) = in
  <2>1. After(sql, p + 1) = "-"
    <3>1. 1 \in 1 .. m /\ 1 < m /\ 1 + 1 = 2
      BY <1>1, <1>2
    <3>2. After(sql, p + 1) = Char(x, 1 + 1)
      BY <1>1, <3>1
    <3> QED  BY <1>2, <3>1, <3>2
  <2> HIDE DEF in
  <2>2. State(scan, p + 1) = Within(o, "line")
    BY <1>2, <2>1, FirstOfToken
  <2> QED  BY <2>2 DEF in
<1>4. ASSUME NEW j \in 1 .. m, State(scan, p + j - 1) = in
      PROVE  /\ Char(x, j) = "newline" => State(scan, p + j) = Within(Append(o, "newline"), "code")
             /\ Char(x, j) # "newline" => State(scan, p + j) = in
  <2>1. Char(sql, p + j) = Char(x, j) /\ State(scan, p + j) = Scan(sql, Within(o, "line"), p + j)
    BY <1>1, <1>4
  <2> QED  BY <2>1, ScanLine
<1> HIDE DEF m, in
<1> DEFINE Wrong(n) == {j \in 1 .. n : State(scan, p + j) # in}
<1>6. ASSUME NEW n \in 1 .. m, \A j \in 2 .. n : Char(x, j) # "newline"
      PROVE  State(scan, p + n) = in
  <2> SUFFICES ASSUME State(scan, p + n) # in PROVE FALSE
    OBVIOUS
  <2>1. Wrong(n) \in SUBSET Nat /\ Wrong(n) # {}
    BY <1>1
  <2>2. PICK j \in Wrong(n) : \A k \in Wrong(n) : j <= k
    <3> HIDE DEF Wrong
    <3> QED  BY <2>1, Least
  <2>3. j \in 1 .. n /\ State(scan, p + j) # in /\ j # 1
    BY <1>3
  <2>4. j - 1 \in 1 .. n /\ ~ (j <= j - 1) /\ j \in 2 .. n /\ j \in 1 .. m /\ p + (j - 1) = p + j - 1
    BY <1>1, <2>3
  <2>5. State(scan, p + j - 1) = in
    BY <2>2, <2>4
  <2> QED  BY <1>4, <1>6, <2>3, <2>4, <2>5
<1>7. ASSUME Char(x, m) # "newline" PROVE State(scan, p + m) = in
  <2>1. m \in 1 .. m /\ \A j \in 2 .. m : Char(x, j) # "newline"
    <3>1. \A j \in 2 .. m : j = 2 \/ j \in 3 .. (m - 1) \/ j = m
      BY <1>1
    <3>2. m \in 1 .. m
      BY <1>1, <1>2
    <3> QED  BY <1>2, <1>7, <3>1, <3>2
  <2> QED  BY <1>6, <2>1
<1>8. ASSUME m >= 3, Char(x, m) = "newline" PROVE State(scan, p + m) = Within(Append(o, "newline"), "code")
  <2>1. m - 1 \in 1 .. m /\ m \in 1 .. m /\ p + (m - 1) = p + m - 1
    BY <1>1, <1>8
  <2>2. \A j \in 2 .. (m - 1) : Char(x, j) # "newline"
    <3>1. \A j \in 2 .. (m - 1) : j = 2 \/ j \in 3 .. (m - 1)
      BY <1>1
    <3> QED  BY <1>2, <3>1
  <2>3. State(scan, p + m - 1) = in
    BY <1>6, <2>1, <2>2
  <2> QED  BY <1>4, <1>8, <2>1, <2>3
<1> QED  BY <1>7, <1>8 DEF m, in

\* A block comment leaves a blank.
LEMMA BlockComment ==
  ASSUME NEW sql, NEW scan, NEW p, NEW x, NEW o,
         At(sql, scan, p, x), Between(sql, scan, p, o), IsBlockComment(x)
  PROVE  State(scan, p + Len(x)) = Within(Append(o, "blank"), "code")
<1> DEFINE m == Len(x)
           b == Append(o, "blank")
           in == Within(b, "block")
<1>1. /\ m \in Nat /\ p \in Nat
      /\ \A j \in 1 .. m : /\ Char(sql, p + j) = Char(x, j)
                           /\ State(scan, p + j) = Scan(sql, State(scan, p + j - 1), p + j)
                           /\ j < m => After(sql, p + j) = Char(x, j + 1)
  BY AtFacts
<1>2. /\ m >= 4 /\ Char(x, 1) = "/" /\ Char(x, 2) = "*" /\ Char(x, m - 1) = "*" /\ Char(x, m) = "/"
      /\ \A j \in 3 .. (m - 2) : ~(Char(x, j) = "*" /\ Char(x, j + 1) = "/")
  BY DEF IsBlockComment, Char
<1>3. State(scan, p + 1) = Skips(b, "block")
  <2>1. After(sql, p + 1) = "*"
    <3>1. 1 \in 1 .. m /\ 1 < m /\ 1 + 1 = 2
      BY <1>1, <1>2
    <3>2. After(sql, p + 1) = Char(x, 1 + 1)
      BY <1>1, <3>1
    <3> QED  BY <1>2, <3>1, <3>2
  <2> HIDE DEF in, b
  <2>2. State(scan, p + 1) = Skips(Append(o, "blank"), "block")
    BY <1>2, <2>1, FirstOfToken
  <2> QED  BY <2>2 DEF b
<1>4. State(scan, p + 2) = in
  <2>1. 2 \in 1 .. m /\ p + 2 - 1 = p + 1
    BY <1>1, <1>2
  <2>2. State(scan, p + 2) = Scan(sql, State(scan, p + 1), p + 2)
    BY <1>1, <2>1
  <2> QED  BY <1>3, <2>2, ScanSkip
<1>5. ASSUME NEW j \in 1 .. m, State(scan, p + j - 1) = in, j < m
      PROVE  /\ Char(x, j) = "*" /\ Char(x, j + 1) = "/" => State(scan, p + j) = Skips(b, "code")
             /\ ~ (Char(x, j) = "*" /\ Char(x, j + 1) = "/") => State(scan, p + j) = in
  <2>1. /\ Char(sql, p + j) = Char(x, j) /\ After(sql, p + j) = Char(x, j + 1)
        /\ State(scan, p + j) = Scan(sql, Within(b, "block"), p + j)
    BY <1>1, <1>5
  <2> HIDE DEF b
  <2> QED  BY <2>1, ScanBlock
<1> HIDE DEF m, in, b
<1> DEFINE Wrong == {j \in 2 .. (m - 2) : State(scan, p + j) # in}
<1>6. m - 2 \in 2 .. (m - 2) /\ Wrong \in SUBSET Nat
  BY <1>1, <1>2
<1>7. State(scan, p + (m - 2)) = in
  <2> SUFFICES ASSUME State(scan, p + (m - 2)) # in PROVE FALSE
    OBVIOUS
  <2>1. Wrong # {}
    BY <1>6
  <2>2. PICK j \in Wrong : \A k \in Wrong : j <= k
    <3> HIDE DEF Wrong
    <3> QED  BY <1>6, <2>1, Least
  <2>3. j \in 2 .. (m - 2) /\ State(scan, p + j) # in /\ j # 2
    BY <1>4
  <2>4. /\ j - 1 \in 2 .. (m - 2) /\ ~ (j <= j - 1) /\ j \in 3 .. (m - 2) /\ j \in 1 .. m /\ j < m
        /\ p + (j - 1) = p + j - 1
    BY <1>1, <2>3
  <2>5. State(scan, p + j - 1) = in
    BY <2>2, <2>4
  <2> QED  BY <1>2, <1>5, <2>3, <2>4, <2>5
<1>8. State(scan, p + (m - 1)) = Skips(b, "code")
  <2>1. m - 1 \in 1 .. m /\ m - 1 < m /\ p + (m - 1) - 1 = p + (m - 2) /\ (m - 1) + 1 = m
    BY <1>1, <1>2
  <2>2. Char(x, m - 1) = "*" /\ Char(x, (m - 1) + 1) = "/"
    BY <1>2, <2>1
  <2> QED  BY <1>5, <1>7, <2>1, <2>2
<1>9. State(scan, p + m) = Within(b, "code")
  <2>1. m \in 1 .. m /\ p + m - 1 = p + (m - 1)
    BY <1>1, <1>2
  <2>2. State(scan, p + m) = Scan(sql, State(scan, p + (m - 1)), p + m)
    BY <1>1, <2>1
  <2> QED  BY <1>8, <2>2, ScanSkip
<1> QED  BY <1>9 DEF m, b

\* What is kept of a text, and the blank that stands for a comment.
Letters == STRING \cup Blank

LEMMA AppendTyped ==
  ASSUME NEW S, NEW a \in Seq(S), NEW c \in S
  PROVE  Append(a, c) \in Seq(S)
OBVIOUS

LEMMA LettersAre ==
  /\ \A c \in STRING : c \in Letters
  /\ "newline" \in Blank /\ "newline" \in Letters
  /\ "blank" \in Blank /\ "blank" \in Letters
<1>1. "newline" \in Blank /\ "blank" \in Blank
  BY DEF Blank
<1> QED  BY <1>1 DEF Letters

\* A literal is kept, to its last quote.
LEMMA Literal ==
  ASSUME NEW sql, NEW scan, NEW p, NEW x, NEW o \in Seq(Letters),
         At(sql, scan, p, x), Between(sql, scan, p, o), IsLiteral(x)
  PROVE  \E o2 \in Seq(Letters) : Between(sql, scan, p + Len(x), Append(o2, Char(x, 1)))
<1> DEFINE m == Len(x)
           q == Char(x, 1)
<1>1. /\ m \in Nat /\ p \in Nat /\ Len(sql) \in Nat /\ p + m <= Len(sql)
      /\ \A j \in 1 .. m : /\ Char(x, j) \in STRING /\ Char(x, j) # "end" /\ Char(sql, p + j) = Char(x, j)
                           /\ State(scan, p + j) = Scan(sql, State(scan, p + j - 1), p + j)
                           /\ j < m => After(sql, p + j) = Char(x, j + 1)
  BY AtFacts
<1>2. /\ m >= 2 /\ q \in Quotes /\ Char(x, m) = q
  BY DEF IsLiteral, Char
<1>3. PICK second \in [2 .. m -> BOOLEAN] :
        /\ ~second[2] /\ ~second[m]
        /\ \A i \in 2 .. (m - 1) :
             /\ second[i + 1] <=> (~second[i] /\ Char(x, i) \in {q, "escape"})
             /\ ~second[i] /\ Char(x, i) = q => Char(x, i + 1) = q
  BY DEF IsLiteral, Char
<1> DEFINE Taken(j) == second[j]
<1>4. q # "escape" /\ q \in STRING
  <2>1. 1 \in 1 .. m
    BY <1>1, <1>2
  <2> QED  BY <1>1, <1>2, <2>1 DEF Quotes
<1>5. ~Taken(2) /\ ~Taken(m)
  BY <1>3
<1> HIDE DEF m, q
<1>6. ASSUME NEW i \in 2 .. (m - 1)
      PROVE  /\ Taken(i) => ~Taken(i + 1)
             /\ (~Taken(i) /\ Char(x, i) \notin {q, "escape"}) => ~Taken(i + 1)
             /\ (~Taken(i) /\ Char(x, i) \in {q, "escape"}) => Taken(i + 1)
             /\ (~Taken(i) /\ Char(x, i) = q) => Char(x, i + 1) = q
  BY <1>3
<1> HIDE DEF Taken
<1> DEFINE Holds(j, o2) == /\ Taken(j + 1) => State(scan, p + j) = Skips(o2, q)
                           /\ ~Taken(j + 1) => State(scan, p + j) = Within(o2, q)
           Seen(j) == \E o2 \in Seq(Letters) : Holds(j, o2)
<1>7. \A a \in Seq(Letters), c \in STRING : Append(a, c) \in Seq(Letters)
  BY AppendTyped, LettersAre
<1>8. Seen(1)
  <2>1. q = Char(x, 1)
    BY DEF q
  <2>2. State(scan, p + 1) = Within(Append(o, q), q)
    BY <1>2, <2>1, FirstOfToken
  <2>3. ~Taken(1 + 1)
    BY <1>5
  <2>4. Append(o, q) \in Seq(Letters) /\ Holds(1, Append(o, q))
    BY <1>4, <1>7, <2>2, <2>3
  <2> QED  BY <2>4
<1>9. ASSUME NEW j \in 2 .. (m - 1), Seen(j - 1)
      PROVE  Seen(j)
  <2>1. /\ j \in 1 .. m /\ j < m /\ p + (j - 1) = p + j - 1 /\ (j - 1) + 1 = j
        /\ j + 1 \in 1 .. m
    BY <1>1
  <2>2. PICK o2 \in Seq(Letters) : /\ Taken(j) => State(scan, p + j - 1) = Skips(o2, q)
                                   /\ ~Taken(j) => State(scan, p + j - 1) = Within(o2, q)
    BY <1>9, <2>1
  <2>3. /\ Char(sql, p + j) = Char(x, j) /\ State(scan, p + j) = Scan(sql, State(scan, p + j - 1), p + j)
        /\ After(sql, p + j) = Char(x, j + 1) /\ Char(x, j) \in STRING /\ Char(x, j + 1) \in STRING
        /\ Char(x, j + 1) # "end"
    BY <1>1, <2>1
  <2>4. CASE Taken(j)
    <3>1. State(scan, p + j) = Within(o2, q)
      BY <2>2, <2>3, <2>4, ScanSkip
    <3>2. Holds(j, o2)
      BY <1>6, <2>4, <3>1
    <3> QED  BY <3>2
  <2>5. CASE ~Taken(j) /\ Char(x, j) \in {q, "escape"}
    <3> DEFINE o3 == Append(Append(o2, Char(x, j)), Char(x, j + 1))
    <3>1. Scan(sql, Within(o2, q), p + j) = Skips(o3, q)
      <4>1. /\ Char(sql, p + j) = Char(x, j) /\ After(sql, p + j) = Char(x, j + 1) /\ Char(x, j + 1) # "end"
            /\ Char(x, j) = "escape" \/ (Char(x, j) = q /\ Char(x, j + 1) = q)
        BY <1>6, <2>3, <2>5
      <4> QED  BY <1>2, <4>1, ScanQuote
    <3>2. o3 \in Seq(Letters)
      BY <1>7, <2>3
    <3>3. State(scan, p + j) = Skips(o3, q)
      BY <2>2, <2>3, <2>5, <3>1
    <3>4. Taken(j + 1)
      BY <1>6, <2>5
    <3> HIDE DEF o3
    <3>5. Holds(j, o3)
      BY <3>3, <3>4
    <3> QED  BY <3>2, <3>5
  <2>6. CASE ~Taken(j) /\ Char(x, j) \notin {q, "escape"}
    <3> DEFINE o3 == Append(o2, Char(x, j))
    <3>1. Scan(sql, Within(o2, q), p + j) = Within(o3, q)
      BY <1>2, <2>3, <2>6, ScanQuote
    <3>2. o3 \in Seq(Letters)
      BY <1>7, <2>3
    <3>3. State(scan, p + j) = Within(o3, q)
      BY <2>2, <2>3, <2>6, <3>1
    <3>4. ~Taken(j + 1)
      BY <1>6, <2>6
    <3> HIDE DEF o3
    <3>5. Holds(j, o3)
      BY <3>3, <3>4
    <3> QED  BY <3>2, <3>5
  <2> QED  BY <2>4, <2>5, <2>6
<1> HIDE DEF Seen
<1> DEFINE Wrong == {j \in 1 .. (m - 1) : ~ Seen(j)}
<1>10. Wrong \in SUBSET Nat /\ m - 1 \in 1 .. (m - 1)
  BY <1>1, <1>2
<1>11. Seen(m - 1)
  <2> SUFFICES ASSUME ~ Seen(m - 1) PROVE FALSE
    OBVIOUS
  <2>1. Wrong # {}
    BY <1>10
  <2>2. PICK j \in Wrong : \A k \in Wrong : j <= k
    <3> HIDE DEF Wrong
    <3> QED  BY <1>10, <2>1, Least
  <2>3. j \in 1 .. (m - 1) /\ ~ Seen(j) /\ j # 1
    BY <1>8
  <2>4. j - 1 \in 1 .. (m - 1) /\ ~ (j <= j - 1) /\ j \in 2 .. (m - 1)
    BY <1>1, <2>3
  <2>5. Seen(j - 1)
    BY <2>2, <2>4
  <2> QED  BY <1>9, <2>3, <2>4, <2>5
<1>12. PICK o2 \in Seq(Letters) : State(scan, p + m - 1) = Within(o2, q)
  <2>1. p + (m - 1) = p + m - 1 /\ (m - 1) + 1 = m
    BY <1>1, <1>2
  <2>2. PICK o2 \in Seq(Letters) : Holds(m - 1, o2)
    BY <1>11 DEF Seen
  <2> QED  BY <1>5, <2>1, <2>2
<1>13. /\ Char(sql, p + m) = q /\ State(scan, p + m) = Scan(sql, Within(o2, q), p + m)
       /\ After(sql, p + m) = IF p + m < Len(sql) THEN Char(sql, p + m + 1) ELSE "end"
  <2>1. m \in 1 .. m
    BY <1>1, <1>2
  <2>2. Char(sql, p + m) = q /\ State(scan, p + m) = Scan(sql, State(scan, p + m - 1), p + m)
    BY <1>1, <1>2, <2>1
  <2> QED  BY <1>12, <2>2 DEF After, Char
<1>14. q # "end"
  BY <1>2 DEF Quotes
<1>15. CASE After(sql, p + m) = q
  <2>1. p + m < Len(sql) /\ Char(sql, p + m + 1) = q
    BY <1>13, <1>14, <1>15
  <2>2. State(scan, p + m) = Skips(Append(Append(o2, q), q), q)
    BY <1>2, <1>13, <1>15, ScanQuote
  <2>3. Between(sql, scan, p + m, Append(o2, q))
    BY <1>2, <2>1, <2>2 DEF Between
  <2> QED  BY <2>3 DEF m, q
<1>16. CASE After(sql, p + m) # q
  <2>1. State(scan, p + m) = Within(Append(o2, q), "code")
    BY <1>2, <1>4, <1>13, <1>16, ScanQuote
  <2>2. Between(sql, scan, p + m, Append(o2, q))
    BY <2>1 DEF Between
  <2> QED  BY <2>2 DEF m, q
<1> QED  BY <1>15, <1>16

\* Where one more place comes behind the others, it is the last.
LEMMA LastPlace ==
  ASSUME NEW n \in Nat, NEW T \in SUBSET (1 .. n)
  PROVE  LET U == T \cup {n + 1} IN (CHOOSE i \in U : \A k \in U : k <= i) = n + 1
<1> DEFINE U == T \cup {n + 1}
           last == CHOOSE i \in U : \A k \in U : k <= i
<1>1. U \in SUBSET (1 .. (n + 1)) /\ n + 1 \in U
  OBVIOUS
<1> HIDE DEF U
<1>2. \A k \in U : k <= n + 1
  BY <1>1
<1>3. last \in U /\ \A k \in U : k <= last
  <2>1. \E i \in U : \A k \in U : k <= i
    BY <1>1, <1>2
  <2> QED  BY <2>1
<1> HIDE DEF last
<1>4. last = n + 1
  BY <1>1, <1>2, <1>3
<1> QED  BY <1>4 DEF last, U

\* The places of a text's ink, and whether it ends in a semicolon.
Inked(out) == {i \in DOMAIN out : out[i] \notin Blank}
EndOf(out) == CHOOSE i \in Inked(out) : \A k \in Inked(out) : k <= i
Ink(out) == Inked(out) # {} /\ out[EndOf(out)] = ";"

\* A blank changes nothing, any other character is the new end.
LEMMA InkAppended ==
  ASSUME NEW o \in Seq(Letters), NEW c \in Letters
  PROVE  /\ c \in Blank => (Ink(Append(o, c)) <=> Ink(o))
         /\ c \notin Blank => (Ink(Append(o, c)) <=> c = ";")
<1> DEFINE a == Append(o, c)
           n == Len(o)
<1>1. /\ n \in Nat /\ DOMAIN o = 1 .. n /\ DOMAIN a = 1 .. (n + 1)
      /\ a[n + 1] = c /\ \A i \in 1 .. n : a[i] = o[i]
  OBVIOUS
<1> HIDE DEF a, n
<1>2. Inked(o) \in SUBSET (1 .. n)
  BY <1>1 DEF Inked
<1>3. ASSUME c \in Blank PROVE Ink(a) <=> Ink(o)
  <2>1. Inked(a) = Inked(o)
    <3>1. \A i : i \in 1 .. (n + 1) => i \in 1 .. n \/ i = n + 1
      BY <1>1
    <3>2. 1 .. n \subseteq 1 .. (n + 1)
      BY <1>1
    <3>3. ASSUME NEW i PROVE i \in Inked(a) <=> i \in Inked(o)
      BY <1>1, <1>3, <3>1, <3>2 DEF Inked
    <3> QED  BY <3>3
  <2>2. EndOf(a) = EndOf(o)
    BY <2>1 DEF EndOf
  <2>3. ASSUME Inked(o) # {} PROVE a[EndOf(o)] = o[EndOf(o)]
    <3>1. \E m \in Inked(o) : \A k \in Inked(o) : k <= m
      BY <1>1, <1>2, <2>3, Greatest
    <3>2. EndOf(o) \in Inked(o)
      BY <3>1 DEF EndOf
    <3> QED  BY <1>1, <1>2, <3>2
  <2> QED  BY <2>1, <2>2, <2>3 DEF Ink
<1>4. ASSUME c \notin Blank PROVE Ink(a) <=> c = ";"
  <2>1. Inked(a) = Inked(o) \cup {n + 1}
    <3>1. \A i : i \in 1 .. (n + 1) <=> i \in 1 .. n \/ i = n + 1
      BY <1>1
    <3>2. ASSUME NEW i PROVE i \in Inked(a) <=> i \in Inked(o) \/ i = n + 1
      BY <1>1, <1>4, <3>1 DEF Inked
    <3> QED  BY <3>2
  <2>2. EndOf(a) = n + 1
    BY <1>1, <1>2, <2>1, LastPlace DEF EndOf
  <2> QED  BY <1>1, <2>1, <2>2 DEF Ink
<1> QED  BY <1>3, <1>4 DEF a

\* The same of tokens.
InkedTokens(tokens, k) == {i \in 1 .. k : tokens[i].kind \in {"code", "literal"}}
LastToken(tokens, k) == CHOOSE i \in InkedTokens(tokens, k) : \A j \in InkedTokens(tokens, k) : j <= i
Ends(tokens, k) == InkedTokens(tokens, k) # {} /\ tokens[LastToken(tokens, k)].text = <<";">>

LEMMA TokenAppended ==
  ASSUME NEW tokens, NEW k \in Nat
  PROVE  LET kind == tokens[k + 1].kind
         IN /\ kind \notin {"code", "literal"} => (Ends(tokens, k + 1) <=> Ends(tokens, k))
            /\ kind \in {"code", "literal"} => (Ends(tokens, k + 1) <=> tokens[k + 1].text = <<";">>)
<1> DEFINE kind == tokens[k + 1].kind
<1>1. \A i : i \in 1 .. (k + 1) <=> i \in 1 .. k \/ i = k + 1
  OBVIOUS
<1>2. ASSUME kind \notin {"code", "literal"} PROVE Ends(tokens, k + 1) <=> Ends(tokens, k)
  <2>1. InkedTokens(tokens, k + 1) = InkedTokens(tokens, k)
    <3>1. ASSUME NEW i PROVE i \in InkedTokens(tokens, k + 1) <=> i \in InkedTokens(tokens, k)
      BY <1>1, <1>2 DEF InkedTokens
    <3> QED  BY <3>1
  <2> QED  BY <2>1 DEF Ends, LastToken
<1>3. ASSUME kind \in {"code", "literal"} PROVE Ends(tokens, k + 1) <=> tokens[k + 1].text = <<";">>
  <2>1. InkedTokens(tokens, k + 1) = InkedTokens(tokens, k) \cup {k + 1}
    <3>1. ASSUME NEW i PROVE i \in InkedTokens(tokens, k + 1) <=> i \in InkedTokens(tokens, k) \/ i = k + 1
      BY <1>1, <1>3 DEF InkedTokens
    <3> QED  BY <3>1
  <2>2. InkedTokens(tokens, k) \in SUBSET (1 .. k)
    BY DEF InkedTokens
  <2>3. LastToken(tokens, k + 1) = k + 1
    BY <2>1, <2>2, LastPlace DEF LastToken
  <2> QED  BY <2>1, <2>3 DEF Ends
<1> QED  BY <1>2, <1>3

-----------------------------------------------------------------------------
(* Texts of tokens.                                                        *)

\* What stands where in two sequences together.
LEMMA Joined ==
  ASSUME NEW S, NEW a \in Seq(S), NEW b \in Seq(S)
  PROVE  /\ Len(a) \in Nat /\ Len(b) \in Nat /\ Len(a \o b) = Len(a) + Len(b)
         /\ \A i \in 1 .. Len(a) : (a \o b)[i] = a[i]
         /\ \A i \in 1 .. Len(b) : (a \o b)[Len(a) + i] = b[i]
         /\ \A i \in 1 .. Len(a \o b) :
              i \in 1 .. Len(a) \/ \E j \in 1 .. Len(b) : i = Len(a) + j
<1>1. Len(a) \in Nat /\ Len(b) \in Nat /\ Len(a \o b) = Len(a) + Len(b)
  OBVIOUS
<1>2. /\ \A i \in 1 .. Len(a) : (a \o b)[i] = a[i]
      /\ \A i \in 1 .. Len(b) : (a \o b)[Len(a) + i] = b[i]
  OBVIOUS
<1>3. ASSUME NEW i \in 1 .. Len(a \o b), i \notin 1 .. Len(a)
      PROVE  \E j \in 1 .. Len(b) : i = Len(a) + j
  <2>1. i - Len(a) \in 1 .. Len(b) /\ i = Len(a) + (i - Len(a))
    BY <1>1, <1>3
  <2> QED  BY <2>1
<1> QED  BY <1>1, <1>2, <1>3

\* Every token has its shape and no end.
LEMMA TokenTyped ==
  ASSUME NEW tokens, IsText(tokens), NEW k \in 1 .. Len(tokens)
  PROVE  LET x == tokens[k].text
         IN /\ x \in Seq(STRING) /\ Len(x) \in Nat /\ Len(x) >= 1
            /\ \A i \in 1 .. Len(x) : x[i] # "end"
            /\ tokens[k].kind \in Kinds /\ IsToken(tokens[k])
<1> DEFINE T == [kind : Kinds, text : Seq(STRING)]
           x == tokens[k].text
<1>1. tokens \in Seq(T) /\ \A i \in DOMAIN tokens : IsToken(tokens[i])
  BY DEF IsText
<1> HIDE DEF T
<1>2. tokens[k] \in T /\ IsToken(tokens[k])
  BY <1>1
<1>3. x \in Seq(STRING) /\ tokens[k].kind \in Kinds
  BY <1>2 DEF T
<1>4. "end" \notin Range(x)
  BY <1>2 DEF IsToken
<1>5. Len(x) >= 1
  <2>1. CASE tokens[k].kind = "code"
    BY <1>2, <2>1 DEF IsToken
  <2>2. CASE tokens[k].kind = "blank"
    BY <1>2, <2>2 DEF IsToken
  <2>3. CASE tokens[k].kind = "literal"
    <3>1. IsLiteral(x)
      BY <1>2, <2>3 DEF IsToken
    <3> QED  BY <1>3, <3>1 DEF IsLiteral
  <2>4. CASE tokens[k].kind = "comment"
    <3>1. IsLineComment(x) \/ IsBlockComment(x)
      BY <1>2, <2>4 DEF IsToken
    <3> QED  BY <1>3, <3>1 DEF IsLineComment, IsBlockComment
  <2> QED  BY <1>3, <2>1, <2>2, <2>3, <2>4 DEF Kinds
<1> HIDE DEF x
<1>6. Len(x) \in Nat /\ DOMAIN x = 1 .. Len(x)
  BY <1>3
<1>7. \A i \in 1 .. Len(x) : x[i] # "end"
  BY <1>4, <1>6 DEF Range
<1> QED  BY <1>2, <1>3, <1>5, <1>6, <1>7 DEF x

Begins(a, b) == Len(a) <= Len(b) /\ \A i \in 1 .. Len(a) : b[i] = a[i]

\* A text begins with each of its beginnings, and does not hold its end.
LEMMA Beginnings ==
  ASSUME NEW tokens, IsText(tokens), NEW n \in 0 .. Len(tokens)
  PROVE  LET text == Spelled(tokens)
         IN /\ \A k \in 0 .. n : Begins(text[k], text[n])
            /\ \A i \in 1 .. Len(text[n]) : text[n][i] # "end"
<1> DEFINE N == Len(tokens)
           text == Spelled(tokens)
           Good(m) == /\ \A k \in 0 .. m : Begins(text[k], text[m])
                      /\ \A i \in 1 .. Len(text[m]) : text[m][i] # "end"
           Bad == {m \in 0 .. N : ~ Good(m)}
<1>1. tokens \in Seq([kind : Kinds, text : Seq(STRING)])
  BY DEF IsText
<1>2. N \in Nat
  BY <1>1
<1>3. /\ text[0] = <<>>
      /\ \A k \in 1 .. N : text[k] = text[k - 1] \o tokens[k].text
      /\ \A k \in 0 .. N : text[k] \in Seq(STRING)
  BY <1>1, SpelledIs
<1> HIDE DEF text, N
<1>4. Good(0)
  BY <1>3 DEF Begins
<1>5. ASSUME NEW m \in 1 .. N, Good(m - 1) PROVE Good(m)
  <2> DEFINE a == text[m - 1]
             b == tokens[m].text
  <2>1. m - 1 \in 0 .. N /\ a \in Seq(STRING)
    BY <1>2, <1>3
  <2>2. b \in Seq(STRING) /\ \A i \in 1 .. Len(b) : b[i] # "end"
    BY TokenTyped DEF N
  <2>3. text[m] = a \o b
    BY <1>3
  <2>4. /\ \A k \in 0 .. (m - 1) : Begins(text[k], a)
        /\ \A i \in 1 .. Len(a) : a[i] # "end"
    BY <1>5
  <2>5. \A k \in 0 .. m : k \in 0 .. (m - 1) \/ k = m
    BY <1>2
  <2> HIDE DEF a, b
  <2> DEFINE c == a \o b
  <2>6. /\ Len(a) \in Nat /\ Len(b) \in Nat /\ Len(c) = Len(a) + Len(b)
        /\ \A i \in 1 .. Len(a) : c[i] = a[i]
        /\ \A i \in 1 .. Len(b) : c[Len(a) + i] = b[i]
        /\ \A i \in 1 .. Len(c) : i \in 1 .. Len(a) \/ \E j \in 1 .. Len(b) : i = Len(a) + j
    BY <2>1, <2>2, Joined
  <2> HIDE DEF c
  <2>7. ASSUME NEW k \in 0 .. (m - 1) PROVE Begins(text[k], c)
    <3>1. Begins(text[k], a)
      BY <2>4
    <3>2. Len(text[k]) \in Nat
      <4>1. k \in 0 .. N
        BY <1>2
      <4> QED  BY <1>3, <4>1
    <3> QED  BY <2>6, <3>1, <3>2 DEF Begins
  <2>8. Begins(c, c)
    BY <2>6 DEF Begins
  <2>9. \A i \in 1 .. Len(c) : c[i] # "end"
    BY <2>2, <2>4, <2>6
  <2>10. text[m] = c
    BY <2>3 DEF c
  <2> QED  BY <2>5, <2>7, <2>8, <2>9, <2>10
<1> HIDE DEF Good
<1>6. Bad = {}
  <2> SUFFICES ASSUME Bad # {} PROVE FALSE
    OBVIOUS
  <2>1. Bad \in SUBSET Nat
    BY <1>2
  <2>2. PICK m \in Bad : \A k \in Bad : m <= k
    <3> HIDE DEF Bad
    <3> QED  BY <2>1, Least
  <2>3. m \in 0 .. N /\ ~ Good(m) /\ m # 0
    BY <1>4
  <2>4. m - 1 \in 0 .. N /\ m \in 1 .. N /\ ~(m <= m - 1)
    BY <1>2, <2>3
  <2>5. Good(m - 1)
    BY <2>2, <2>4
  <2> QED  BY <1>5, <2>3, <2>4, <2>5
<1>7. Good(n)
  BY <1>6 DEF N
<1> QED  BY <1>7 DEF Good, text

\* Where a token stands in its text, and what comes after it.
LEMMA TokenPlaced ==
  ASSUME NEW tokens, IsText(tokens), NEW k \in 1 .. Len(tokens)
  PROVE  LET text == Spelled(tokens)
             sql == TextOf(tokens)
             x == tokens[k].text
         IN /\ At(sql, Scanned(sql), Len(text[k - 1]), x)
            /\ Len(text[k]) = Len(text[k - 1]) + Len(x)
            /\ k < Len(tokens) => After(sql, Len(text[k])) = tokens[k + 1].text[1]
            /\ k = Len(tokens) => After(sql, Len(text[k])) = "end"
<1> DEFINE N == Len(tokens)
           text == Spelled(tokens)
           sql == text[N]
<1>1. tokens \in Seq([kind : Kinds, text : Seq(STRING)])
  BY DEF IsText
<1>2. N \in Nat
  BY <1>1
<1>3. /\ \A j \in 1 .. N : text[j] = text[j - 1] \o tokens[j].text
      /\ \A j \in 0 .. N : text[j] \in Seq(STRING)
  BY <1>1, SpelledIs
<1>4. N \in 0 .. N
  BY <1>2
<1>5. /\ \A j \in 0 .. N : Begins(text[j], sql)
      /\ \A i \in 1 .. Len(sql) : sql[i] # "end"
  BY <1>4, Beginnings
<1> HIDE DEF text, N
<1>6. sql \in Seq(STRING)
  BY <1>3, <1>4
<1> HIDE DEF sql
<1>7. Len(sql) \in Nat /\ DOMAIN sql = 1 .. Len(sql)
  BY <1>6
\* Token j stands behind the text of those before it.
<1>8. ASSUME NEW j \in 1 .. N
      PROVE  LET x == tokens[j].text
                 p == Len(text[j - 1])
             IN /\ p \in Nat /\ x \in Seq(STRING) /\ Len(x) \in Nat /\ Len(x) >= 1
                /\ Len(text[j]) = p + Len(x) /\ p + Len(x) <= Len(sql)
                /\ \A i \in 1 .. Len(x) : sql[p + i] = x[i]
  <2> DEFINE x == tokens[j].text
             a == text[j - 1]
             p == Len(a)
             b == text[j]
  <2>1. x \in Seq(STRING) /\ Len(x) \in Nat /\ Len(x) >= 1
    BY TokenTyped DEF N
  <2>2. j - 1 \in 0 .. N /\ j \in 0 .. N
    BY <1>2
  <2>3. a \in Seq(STRING) /\ b = a \o x
    BY <1>3, <2>2
  <2>4. Begins(b, sql)
    BY <1>5, <2>2
  <2> HIDE DEF x, a, b
  <2>5. p \in Nat /\ Len(b) = p + Len(x) /\ \A i \in 1 .. Len(x) : b[p + i] = x[i]
    BY <2>1, <2>3, Joined
  <2>6. p + Len(x) <= Len(sql)
    BY <2>4, <2>5 DEF Begins
  <2>7. ASSUME NEW i \in 1 .. Len(x) PROVE sql[p + i] = x[i]
    <3>1. p + i \in 1 .. Len(b) /\ b[p + i] = x[i]
      BY <2>1, <2>5
    <3> QED  BY <2>4, <3>1 DEF Begins
  <2> QED  BY <2>1, <2>5, <2>6, <2>7 DEF x, a, b
<1>9. At(sql, Scanned(sql), Len(text[k - 1]), tokens[k].text)
  <2> DEFINE x == tokens[k].text
             p == Len(text[k - 1])
  <2>1. /\ p \in Nat /\ x \in Seq(STRING) /\ Len(x) \in Nat /\ Len(x) >= 1
        /\ p + Len(x) <= Len(sql) /\ \A i \in 1 .. Len(x) : sql[p + i] = x[i]
    BY <1>8 DEF N
  <2>2. "end" \notin Range(sql)
    BY <1>5, <1>7 DEF Range
  <2>3. Scans(Scanned(sql), sql)
    BY <1>6, ScannedIs
  <2> HIDE DEF x, p
  <2>4. At(sql, Scanned(sql), p, x)
    BY <1>6, <2>1, <2>2, <2>3 DEF At, Char
  <2> QED  BY <2>4 DEF x, p
<1>10. Len(text[k]) = Len(text[k - 1]) + Len(tokens[k].text)
  BY <1>8 DEF N
<1>11. ASSUME k < N PROVE After(sql, Len(text[k])) = tokens[k + 1].text[1]
  <2> DEFINE x == tokens[k + 1].text
             p == Len(text[k])
  <2>1. k + 1 \in 1 .. N /\ (k + 1) - 1 = k
    BY <1>2, <1>11
  <2>2. /\ p \in Nat /\ Len(x) \in Nat /\ Len(x) >= 1
        /\ p + Len(x) <= Len(sql) /\ \A i \in 1 .. Len(x) : sql[p + i] = x[i]
    BY <1>8, <2>1
  <2> HIDE DEF x, p
  <2>3. 1 \in 1 .. Len(x) /\ p < Len(sql)
    BY <1>7, <2>2
  <2>4. After(sql, p) = x[1]
    BY <2>2, <2>3 DEF After
  <2> QED  BY <2>4 DEF x, p
<1>12. ASSUME k = N PROVE After(sql, Len(text[k])) = "end"
  <2>1. Len(text[k]) = Len(sql)
    BY <1>12 DEF sql
  <2> QED  BY <1>7, <2>1 DEF After
<1> QED  BY <1>9, <1>10, <1>11, <1>12 DEF N, text, sql, TextOf

\* A literal is no semicolon.
LEMMA ShortIsNotLong ==
  ASSUME NEW x \in Seq(STRING), Len(x) >= 2
  PROVE  x # <<";">>
<1>1. Len(<<";">>) = 1
  OBVIOUS
<1>2. ASSUME x = <<";">> PROVE FALSE
  <2>1. Len(x) = 1
    BY <1>1, <1>2
  <2> QED  BY <2>1
<1> QED  BY <1>2

\* After each token, whether the text ends in a semicolon is what its tokens say.
Told(tokens, k, o) ==
  LET sql == TextOf(tokens)
      p == Len(Spelled(tokens)[k])
  IN /\ o \in Seq(Letters) /\ (Ink(o) <=> Ends(tokens, k))
     /\ \/ Between(sql, Scanned(sql), p, o)
        \/ k = Len(tokens) /\ State(Scanned(sql), p).out = o

LEMMA TokenTold ==
  ASSUME NEW tokens, IsText(tokens), NEW k \in 1 .. Len(tokens), NEW o \in Seq(Letters),
         Between(TextOf(tokens), Scanned(TextOf(tokens)), Len(Spelled(tokens)[k - 1]), o),
         Ink(o) <=> Ends(tokens, k - 1)
  PROVE  \E o2 : Told(tokens, k, o2)
<1> DEFINE N == Len(tokens)
           token == tokens[k]
           x == token.text
           sql == TextOf(tokens)
           scan == Scanned(sql)
           p == Len(Spelled(tokens)[k - 1])
           q == Len(Spelled(tokens)[k])
           next == After(sql, q)
           pair == k < N
           after == tokens[k + 1].text[1]
<1>1. /\ At(sql, scan, p, x) /\ q = p + Len(x)
      /\ k < N => next = after
      /\ k = N => next = "end"
  BY TokenPlaced
<1>2. /\ x \in Seq(STRING) /\ Len(x) \in Nat /\ Len(x) >= 1
      /\ token.kind \in Kinds /\ IsToken(token)
  BY TokenTyped
<1>3. Between(sql, scan, p, o)
  OBVIOUS
<1>4. N \in Nat /\ k \in 1 .. N
  BY DEF IsText
<1>5. k < N => /\ x = <<"-">> => after # "-"
               /\ x = <<"/">> => after # "*"
               /\ token.kind = "comment" /\ IsLineComment(x) => Len(x) >= 3 /\ x[Len(x)] = "newline"
  <2>1. k < N => k \in 1 .. (N - 1)
    BY <1>4
  <2> QED  BY <2>1 DEF IsText
<1>6. /\ token.kind \notin {"code", "literal"} => (Ends(tokens, k) <=> Ends(tokens, k - 1))
      /\ token.kind \in {"code", "literal"} => (Ends(tokens, k) <=> x = <<";">>)
  <2>1. k - 1 \in Nat /\ (k - 1) + 1 = k
    BY <1>4
  <2> DEFINE j == k - 1
  <2> HIDE DEF j
  <2>2. /\ tokens[j + 1].kind \notin {"code", "literal"} => (Ends(tokens, j + 1) <=> Ends(tokens, j))
        /\ tokens[j + 1].kind \in {"code", "literal"} => (Ends(tokens, j + 1) <=> tokens[j + 1].text = <<";">>)
    BY <2>1, TokenAppended DEF j
  <2> QED  BY <2>1, <2>2 DEF j
<1>7. ASSUME NEW o2 \in Seq(Letters), Ink(o2) <=> Ends(tokens, k),
             Between(sql, scan, q, o2) \/ (k = N /\ State(scan, q).out = o2)
      PROVE  Told(tokens, k, o2)
  BY <1>7 DEF Told
<1>8. \A o2 \in Seq(Letters), c \in Letters : Append(o2, c) \in Seq(Letters)
  BY AppendTyped
<1>9. \A o2 : State(scan, q) = Within(o2, "code") => Between(sql, scan, q, o2)
  BY DEF Between
<1>10. k = N \/ k < N
  BY <1>4
<1> HIDE DEF N, token, x, sql, scan, p, q, next, after
<1>11. ASSUME Len(x) = 1, Char(x, 1) \notin Quotes
       PROVE  State(scan, q) = Within(Append(o, Char(x, 1)), "code") /\ Char(x, 1) \in Letters
  <2>1. q = p + 1 /\ Char(x, 1) \in STRING
    <3>1. q = p + 1
      BY <1>1, <1>11
    <3>2. \A j \in 1 .. Len(x) : x[j] \in STRING
      BY <1>2
    <3>3. 1 \in 1 .. Len(x)
      BY <1>2
    <3> QED  BY <3>1, <3>2, <3>3 DEF Char
  <2>2. x = <<x[1]>>
    BY <1>2, <1>11
  <2>3. ~(Char(x, 1) = "-" /\ After(sql, p + 1) = "-")
    BY <1>1, <1>5, <1>10, <2>1, <2>2 DEF next, Char
  <2>4. ~(Char(x, 1) = "/" /\ After(sql, p + 1) = "*")
    BY <1>1, <1>5, <1>10, <2>1, <2>2 DEF next, Char
  <2>5. State(scan, p + 1) = Within(Append(o, Char(x, 1)), "code")
    BY <1>1, <1>3, <1>11, <2>3, <2>4, FirstOfToken
  <2>6. Char(x, 1) \in Letters
    BY <2>1, LettersAre
  <2> QED  BY <2>1, <2>5, <2>6
<1>12. CASE token.kind = "code"
  <2> DEFINE c == Char(x, 1)
             o2 == Append(o, c)
  <2>1. Len(x) = 1 /\ c \notin Quotes /\ c \notin Blank
    BY <1>2, <1>12 DEF IsToken, Char, x
  <2>2. State(scan, q) = Within(o2, "code") /\ c \in Letters
    BY <1>11, <2>1
  <2>3. c = ";" <=> x = <<";">>
    <3>1. x = <<c>>
      BY <1>2, <2>1 DEF Char
    <3> HIDE DEF c
    <3>2. <<";">>[1] = ";" /\ <<c>>[1] = c
      OBVIOUS
    <3> QED  BY <3>1, <3>2
  <2>4. Ink(o2) <=> c = ";"
    BY <2>1, <2>2, InkAppended
  <2>5. o2 \in Seq(Letters)
    BY <1>8, <2>2
  <2>6. Ink(o2) <=> Ends(tokens, k)
    BY <1>6, <1>12, <2>3, <2>4
  <2> HIDE DEF o2
  <2>7. Told(tokens, k, o2)
    BY <1>7, <1>9, <2>2, <2>5, <2>6
  <2> QED  BY <2>7
<1>13. CASE token.kind = "blank"
  <2> DEFINE c == Char(x, 1)
             o2 == Append(o, c)
  <2>1. Len(x) = 1 /\ c \in Blank
    BY <1>2, <1>13 DEF IsToken, Char, x
  <2>2. c \notin Quotes
    BY <2>1 DEF Blank, Quotes
  <2>3. State(scan, q) = Within(o2, "code") /\ c \in Letters
    BY <1>11, <2>1, <2>2
  <2>4. Ink(o2) <=> Ink(o)
    BY <2>1, <2>3, InkAppended
  <2>5. o2 \in Seq(Letters)
    BY <1>8, <2>3
  <2>6. Ink(o2) <=> Ends(tokens, k)
    BY <1>6, <1>13, <2>4
  <2> HIDE DEF o2
  <2>7. Told(tokens, k, o2)
    BY <1>7, <1>9, <2>3, <2>5, <2>6
  <2> QED  BY <2>7
<1>14. CASE token.kind = "literal"
  <2> DEFINE c == Char(x, 1)
  <2>1. IsLiteral(x)
    BY <1>2, <1>14 DEF IsToken, x
  <2>2. c \in Quotes /\ c \in Letters /\ x # <<";">>
    <3>1. Len(x) >= 2 /\ c \in Quotes
      BY <2>1 DEF IsLiteral, Char
    <3>2. c \in STRING
      BY <1>2, <3>1 DEF Char
    <3>4. x # <<";">>
      BY <1>2, <3>1, ShortIsNotLong
    <3> QED  BY <3>1, <3>2, <3>4, LettersAre
  <2>3. c \notin Blank /\ c # ";"
    BY <2>2 DEF Blank, Quotes
  <2>4. PICK o3 \in Seq(Letters) : Between(sql, scan, q, Append(o3, c))
    BY <1>1, <1>3, <2>1, Literal
  <2> DEFINE o2 == Append(o3, c)
  <2>5. ~Ink(o2)
    BY <2>2, <2>3, InkAppended
  <2>6. o2 \in Seq(Letters)
    BY <1>8, <2>2
  <2>7. Ink(o2) <=> Ends(tokens, k)
    BY <1>6, <1>14, <2>2, <2>5
  <2> HIDE DEF o2
  <2>8. Told(tokens, k, o2)
    BY <1>7, <2>4, <2>6, <2>7 DEF o2
  <2> QED  BY <2>8
<1>15. CASE token.kind = "comment" /\ IsLineComment(x)
  <2>1. CASE Char(x, Len(x)) = "newline"
    <3> DEFINE o2 == Append(o, "newline")
    <3>1. Len(x) >= 3
      BY <1>2, <1>15, <2>1 DEF IsLineComment, Char
    <3>2. State(scan, q) = Within(o2, "code")
      BY <1>1, <1>3, <1>15, <2>1, <3>1, LineComment
    <3>3. "newline" \in Blank /\ "newline" \in Letters
      BY LettersAre
    <3>4. (Ink(o2) <=> Ink(o)) /\ o2 \in Seq(Letters)
      BY <1>8, <3>3, InkAppended
    <3> HIDE DEF o2
    <3>5. Ink(o2) <=> Ends(tokens, k)
      BY <1>6, <1>15, <3>4
    <3>6. Told(tokens, k, o2)
      BY <1>7, <1>9, <3>2, <3>4, <3>5
    <3> QED  BY <3>6
  <2>2. CASE Char(x, Len(x)) # "newline"
    <3>1. k = N
      BY <1>5, <1>10, <1>15, <2>2 DEF Char
    <3>2. State(scan, q) = Within(o, "line")
      BY <1>1, <1>3, <1>15, <2>2, LineComment
    <3>3. State(scan, q).out = o
      BY <3>2 DEF Within, Scanner
    <3>4. Ink(o) <=> Ends(tokens, k)
      BY <1>6, <1>15
    <3>5. Told(tokens, k, o)
      BY <1>7, <3>1, <3>3, <3>4
    <3> QED  BY <3>5
  <2> QED  BY <2>1, <2>2
<1>16. CASE token.kind = "comment" /\ IsBlockComment(x)
  <2> DEFINE o2 == Append(o, "blank")
  <2>1. State(scan, q) = Within(o2, "code")
    BY <1>1, <1>3, <1>16, BlockComment
  <2>2. "blank" \in Blank /\ "blank" \in Letters
    BY LettersAre
  <2>3. (Ink(o2) <=> Ink(o)) /\ o2 \in Seq(Letters)
    BY <1>8, <2>2, InkAppended
  <2> HIDE DEF o2
  <2>4. Ink(o2) <=> Ends(tokens, k)
    BY <1>6, <1>16, <2>3
  <2>5. Told(tokens, k, o2)
    BY <1>7, <1>9, <2>1, <2>3, <2>4
  <2> QED  BY <2>5
<1>17. token.kind = "comment" => IsLineComment(x) \/ IsBlockComment(x)
  BY <1>2 DEF IsToken, x
<1> QED  BY <1>2, <1>12, <1>13, <1>14, <1>15, <1>16, <1>17 DEF Kinds
\* By induction over the tokens.
LEMMA AllTold ==
  ASSUME NEW tokens, IsText(tokens), NEW n \in 0 .. Len(tokens)
  PROVE  \E o : Told(tokens, n, o)
<1> DEFINE N == Len(tokens)
           Has(k) == \E o : Told(tokens, k, o)
           Missed == {k \in 0 .. N : ~ Has(k)}
<1>1. N \in Nat
  BY DEF IsText
<1>2. Has(0)
  <2>1. tokens \in Seq([kind : Kinds, text : Seq(STRING)])
    BY DEF IsText
  <2>2. /\ Spelled(tokens)[0] = <<>>
        /\ \A k \in 0 .. Len(tokens) : Spelled(tokens)[k] \in Seq(STRING)
    BY <2>1, SpelledIs
  <2>3. TextOf(tokens) \in Seq(STRING)
    BY <1>1, <2>2 DEF TextOf
  <2>4. State(Scanned(TextOf(tokens)), 0) = Within(<<>>, "code")
    BY <2>3, ScannedIs DEF Scans, State
  <2>5. Between(TextOf(tokens), Scanned(TextOf(tokens)), 0, <<>>)
    BY <2>4 DEF Between
  <2>6. ~Ink(<<>>) /\ ~Ends(tokens, 0)
    <3>1. Inked(<<>>) = {}
      BY DEF Inked
    <3>2. InkedTokens(tokens, 0) = {}
      BY DEF InkedTokens
    <3> QED  BY <3>1, <3>2 DEF Ink, Ends
  <2>7. <<>> \in Seq(Letters) /\ Len(<<>>) = 0
    OBVIOUS
  <2>8. Told(tokens, 0, <<>>)
    BY <2>2, <2>5, <2>6, <2>7 DEF Told
  <2> QED  BY <2>8
<1>3. ASSUME NEW k \in 1 .. N, Has(k - 1)
      PROVE  Has(k)
  <2>1. PICK o : Told(tokens, k - 1, o)
    BY <1>3
  <2>2. k - 1 # N
    BY <1>1
  <2>3. /\ o \in Seq(Letters) /\ (Ink(o) <=> Ends(tokens, k - 1))
        /\ Between(TextOf(tokens), Scanned(TextOf(tokens)), Len(Spelled(tokens)[k - 1]), o)
    BY <2>1, <2>2 DEF Told
  <2> QED  BY <2>3, TokenTold
<1> HIDE DEF Has
<1>4. Has(n)
  <2> SUFFICES ASSUME ~ Has(n) PROVE FALSE
    OBVIOUS
  <2>1. n \in Missed /\ Missed \in SUBSET Nat
    BY <1>1
  <2>2. PICK k \in Missed : \A j \in Missed : k <= j
    BY <2>1, Least
  <2>3. k \in 0 .. N /\ ~ Has(k)
    BY <2>2
  <2>4. k # 0
    BY <1>2, <2>3
  <2>5. k \in 1 .. N /\ k - 1 \in 0 .. N /\ ~(k <= k - 1)
    BY <1>1, <2>3, <2>4
  <2>6. Has(k - 1)
    BY <2>2, <2>5
  <2> QED  BY <1>3, <2>3, <2>5, <2>6
<1> QED  BY <1>4 DEF Has

\* A text ends in a semicolon for the program exactly when its tokens say so.
LEMMA TextIsRight ==
  ASSUME NEW tokens, IsText(tokens)
  PROVE  HasSemicolon(TextOf(tokens)) = EndsInSemicolon(tokens)
<1> DEFINE N == Len(tokens)
           sql == TextOf(tokens)
           scan == Scanned(sql)
<1>1. tokens \in Seq([kind : Kinds, text : Seq(STRING)]) /\ N \in Nat
  BY DEF IsText
<1>2. PICK o : Told(tokens, N, o)
  BY <1>1, AllTold
<1>3. sql = Spelled(tokens)[N] /\ N \in 0 .. N
  BY <1>1 DEF TextOf
<1>4. sql \in Seq(STRING)
  BY <1>1, <1>3, SpelledIs
<1>5. Len(sql) \in Nat
  BY <1>4
<1> HIDE DEF sql, scan
<1>6. State(scan, Len(sql)).out = o
  <2>1. Between(sql, scan, Len(sql), o) \/ State(scan, Len(sql)).out = o
    BY <1>2, <1>3 DEF Told, sql, scan
  <2>2. Between(sql, scan, Len(sql), o) => State(scan, Len(sql)) = Within(o, "code")
    BY <1>5 DEF Between
  <2>3. Within(o, "code").out = o
    BY DEF Within, Scanner
  <2> QED  BY <2>1, <2>2, <2>3
<1>7. stripSqlComments(sql) = o
  BY <1>6 DEF stripSqlComments, scan, State
<1>8. HasSemicolon(sql) <=> Ink(o)
  BY <1>7 DEF HasSemicolon, Ink, EndOf, Inked
<1>9. EndsInSemicolon(tokens) <=> Ends(tokens, N)
  <2>1. DOMAIN tokens = 1 .. N
    BY <1>1
  <2> HIDE DEF N
  <2> QED  BY <2>1 DEF EndsInSemicolon, Ends, LastToken, InkedTokens
<1>10. Ink(o) <=> Ends(tokens, N)
  BY <1>2 DEF Told
<1>11. HasSemicolon(sql) <=> EndsInSemicolon(tokens)
  BY <1>8, <1>9, <1>10
<1>12. HasSemicolon(sql) \in BOOLEAN /\ EndsInSemicolon(tokens) \in BOOLEAN
  BY DEF HasSemicolon, EndsInSemicolon
<1> QED  BY <1>11, <1>12 DEF sql

LEMMA TextsTold ==
  ASSUME NEW e \in Endings
  PROVE  e.semicolon = e.deserves
<1>1. PICK text \in Texts : e = [semicolon |-> HasSemicolon(TextOf(text)), deserves |-> EndsInSemicolon(text)]
  BY DEF Endings
<1>2. IsText(text)
  BY GradingAssumption
<1> QED  BY <1>1, <1>2, TextIsRight
-----------------------------------------------------------------------------
(* The submissions of a class.                                             *)

\* What the log holds.
Attempts ==
  {a \in [user : Students, problem : Ids, mode : Modes, action : {"submit", "run"},
          client : BOOLEAN, tutor : BOOLEAN \cup {None}, deserves : BOOLEAN] :
     DistinctNames => a.client = a.deserves}

Submits(of) == {i \in DOMAIN of : of[i].action = "submit"}

\* The class has the submissions in their order, each with what it is shown by.
LEMMA SubmissionsAre ==
  ASSUME NEW of \in Seq(Attempts), NEW all
  PROVE  LET g == Submits(of)
             subs == toSubmissions(of, all)
         IN /\ Len(of) \in Nat /\ g \in SUBSET (1 .. Len(of)) /\ Cardinality(g) \in Nat
            /\ Kept(of, g) = [n \in 1 .. Cardinality(g) |-> of[NthOf(g, n)]]
            /\ DOMAIN subs = 1 .. Cardinality(g) /\ Len(subs) = Cardinality(g)
            /\ \A n \in 1 .. Cardinality(g) :
                 /\ NthOf(g, n) \in g
                 /\ subs[n].user = of[NthOf(g, n)].user /\ subs[n].mode = of[NthOf(g, n)].mode
                 /\ subs[n].passed = PassedBy(of[NthOf(g, n)])
                 /\ subs[n].module = Where(all, of[NthOf(g, n)].problem).module
                 /\ subs[n].step = Where(all, of[NthOf(g, n)].problem).step
<1> DEFINE g == Submits(of)
           subs == toSubmissions(of, all)
           C == Cardinality(g)
           a(n) == of[NthOf(g, n)]
           sub(n) == [user |-> a(n).user, mode |-> a(n).mode, passed |-> PassedBy(a(n)),
                      module |-> Where(all, a(n).problem).module,
                      step |-> Where(all, a(n).problem).step]
<1>1. Len(of) \in Nat /\ DOMAIN of = 1 .. Len(of) /\ g \in SUBSET (1 .. Len(of))
  BY DEF Submits
<1>2. g = {i \in DOMAIN of : of[i].action # "run"}
  <2>1. ASSUME NEW i \in DOMAIN of PROVE of[i].action = "submit" <=> of[i].action # "run"
    <3>1. of[i] \in Attempts
      OBVIOUS
    <3> QED  BY <3>1 DEF Attempts
  <2> QED  BY <2>1 DEF Submits
<1> HIDE DEF g
<1>3. C \in Nat /\ \A n \in 1 .. C : NthOf(g, n) \in g
  BY <1>1, PlacesInTurn
<1>4. Kept(of, g) = [n \in 1 .. C |-> a(n)]
  BY DEF Kept
<1>5. subs = [n \in 1 .. C |-> sub(n)]
  BY <1>2, <1>4 DEF toSubmissions
<1> HIDE DEF subs, C
<1>6. DOMAIN subs = 1 .. C /\ \A n \in 1 .. C : subs[n] = sub(n)
  BY <1>5
<1>7. Len(subs) = C
  <2> DEFINE S == {sub(n) : n \in 1 .. C}
  <2>1. subs \in [1 .. C -> S]
    BY <1>5
  <2> HIDE DEF S, sub
  <2> QED  BY <1>3, <2>1
<1> QED  BY <1>1, <1>3, <1>4, <1>6, <1>7 DEF C, g, subs

\* They pass by the ruling or, where the comparison is right, by what their
\* rows deserve.
LEMMA PassesAre ==
  ASSUME NEW of \in Seq(Attempts), NEW all, DistinctNames
  PROVE  Cardinality(Passing(toSubmissions(of, all), DOMAIN toSubmissions(of, all)))
           = Cardinality({i \in Submits(of) :
                            IF of[i].tutor # None THEN of[i].tutor ELSE of[i].deserves})
<1> DEFINE g == Submits(of)
           subs == toSubmissions(of, all)
           C == Cardinality(g)
           ok(i) == IF of[i].tutor # None THEN of[i].tutor ELSE of[i].deserves
           S == Passing(subs, DOMAIN subs)
           T == {i \in g : ok(i)}
           f == [n \in S |-> NthOf(g, n)]
<1>1. /\ g \in SUBSET (1 .. Len(of)) /\ Len(of) \in Nat /\ g \in SUBSET (DOMAIN of)
      /\ DOMAIN subs = 1 .. C
      /\ \A n \in 1 .. C : NthOf(g, n) \in g /\ subs[n].passed = PassedBy(of[NthOf(g, n)])
  <2>1. g \in SUBSET (DOMAIN of)
    BY DEF Submits
  <2> QED  BY <2>1, SubmissionsAre
<1>2. ASSUME NEW i \in DOMAIN of PROVE PassedBy(of[i]) = ok(i)
  <2>1. of[i] \in Attempts
    OBVIOUS
  <2>2. of[i].client = of[i].deserves
    BY <2>1 DEF Attempts
  <2> QED  BY <2>2 DEF PassedBy
<1>3. /\ \A n, m \in 1 .. C : NthOf(g, n) = NthOf(g, m) => n = m
      /\ \A i \in g : \E n \in 1 .. C : NthOf(g, n) = i
  <2> HIDE DEF g
  <2> QED  BY <1>1, PlacesInTurn
<1> HIDE DEF g, subs, C, ok
<1>4. ASSUME NEW n \in 1 .. C PROVE subs[n].passed = ok(NthOf(g, n))
  BY <1>1, <1>2
<1>5. /\ S \in SUBSET (1 .. C)
      /\ \A n \in 1 .. C : n \in S <=> NthOf(g, n) \in T
  BY <1>1, <1>4 DEF Passing
<1>6. T \in SUBSET g
  OBVIOUS
<1> HIDE DEF S, T
<1>7. f \in Bijection(S, T)
  <2>1. \A n \in S : f[n] = NthOf(g, n) /\ NthOf(g, n) \in T
    BY <1>5
  <2>2. f \in [S -> T]
    BY <2>1
  <2>3. \A n, m \in S : f[n] = f[m] => n = m
    BY <1>3, <1>5, <2>1
  <2>4. \A t \in T : \E n \in S : f[n] = t
    BY <1>3, <1>5, <1>6, <2>1
  <2> HIDE DEF f
  <2> QED  BY <2>2, <2>3, <2>4 DEF Bijection, Injection, Surjection, IsInjective
<1>8. IsFiniteSet(S)
  <2>1. C \in Nat
    BY SubmissionsAre DEF C, g
  <2>2. IsFiniteSet(1 .. C)
    BY <2>1, FS_Interval
  <2> QED  BY <1>5, <2>2, FS_Subset
<1> HIDE DEF f
<1>9. Cardinality(S) = Cardinality(T)
  BY <1>7, <1>8, FS_Bijection DEF ExistsBijection
<1> QED  BY <1>9 DEF S, T, g, subs, ok

LEMMA ClassAddsUp ==
  ASSUME NEW of \in Seq(Attempts), NEW all
  PROVE  AddsUp(toSubmissions(of, all), of)
<1> DEFINE g == Submits(of)
           subs == toSubmissions(of, all)
           C == Cardinality(g)
<1>1. /\ C \in Nat /\ DOMAIN subs = 1 .. C /\ Len(subs) = C
      /\ \A n \in 1 .. C : NthOf(g, n) \in g /\ subs[n].user = of[NthOf(g, n)].user
                           /\ subs[n].mode = of[NthOf(g, n)].mode
  BY SubmissionsAre
<1>2. \A i \in g : of[i].user \in Students /\ of[i].mode \in Modes
  <2>1. ASSUME NEW i \in g PROVE of[i] \in Attempts
    BY DEF Submits
  <2> QED  BY <2>1 DEF Attempts
<1>3. DistinctNames =>
        Cardinality(Passing(subs, DOMAIN subs))
          = Cardinality({i \in g : IF of[i].tutor # None THEN of[i].tutor ELSE of[i].deserves})
  BY PassesAre
<1>4. C = Cardinality({i \in DOMAIN of : of[i].action = "submit"})
  BY DEF Submits
<1> HIDE DEF subs, C
<1>5. \A i \in DOMAIN subs : subs[i].user \in Students /\ subs[i].mode \in Modes
  BY <1>1, <1>2
<1>6. /\ Total([u \in Students |-> Row(subs, u).subs]) = C
      /\ Total([u \in Students |-> Row(subs, u).passed]) = Cardinality(Passing(subs, DOMAIN subs))
  BY <1>1, <1>5, RowsAddUp
<1>7. /\ Total([m \in Modules(subs) |-> Module(subs, m).total]) = C
      /\ Total([m \in Modules(subs) |-> Module(subs, m).passed])
           = Cardinality(Passing(subs, DOMAIN subs))
  BY <1>1, ModulesAddUp
<1>8. Total([m \in Modes |-> Mode(subs, m)]) = C
  BY <1>1, <1>5, ModesAddUp
<1>9. ASSUME NEW u
      PROVE  /\ Total([m \in Groups(subs, u) |-> Group(subs, u, m).count]) = Row(subs, u).subs
             /\ Row(subs, u).problems <= Row(subs, u).subs
  BY <1>1, GroupsAddUp
<1>10. AddsUp(subs, of)
  BY <1>1, <1>3, <1>4, <1>6, <1>7, <1>8, <1>9 DEF AddsUp, Submits
<1> QED  BY <1>10 DEF subs
-----------------------------------------------------------------------------
(* Steps.                                                                  *)

\* A problem of the bank is found where its students find it, whatever custom
\* problems follow.
LEMMA BankSteps ==
  ASSUME NEW c \in Seq(Custom), NEW id \in {p.id : p \in Range(BuiltIn)}
  PROVE  Where(BuiltIn \o c, id) = Where(BuiltIn, id)
<1> DEFINE all == BuiltIn \o c
           same == {i \in DOMAIN BuiltIn : BuiltIn[i].id = id}
           N == Len(BuiltIn)
<1>1. /\ N \in Nat /\ DOMAIN BuiltIn = 1 .. N
      /\ Len(c) \in Nat /\ DOMAIN all = 1 .. (N + Len(c))
      /\ \A i \in 1 .. N : all[i] = BuiltIn[i]
      /\ \A i \in 1 .. (N + Len(c)) : i > N => all[i] \in Custom
  <2>1. BuiltIn \in Seq(Range(BuiltIn))
    BY GradingAssumption
  <2> DEFINE S == Range(BuiltIn)
             b == BuiltIn
  <2>2. b \in Seq(S)
    BY <2>1
  <2> HIDE DEF S, b
  <2>3. /\ Len(b) \in Nat /\ DOMAIN b = 1 .. Len(b)
        /\ Len(c) \in Nat /\ DOMAIN (b \o c) = 1 .. (Len(b) + Len(c))
        /\ \A i \in 1 .. Len(b) : (b \o c)[i] = b[i]
        /\ \A i \in 1 .. (Len(b) + Len(c)) : i > Len(b) => (b \o c)[i] \in Custom
    BY <2>2
  <2> QED  BY <2>3 DEF b
<1> HIDE DEF all, N
<1>2. {i \in DOMAIN all : all[i].id = id} = same
  <2>1. ASSUME NEW i \in DOMAIN all, i > N PROVE all[i].id # id
    <3>1. all[i] \in Custom
      BY <1>1, <2>1
    <3>2. PICK k \in DOMAIN BuiltIn : BuiltIn[k].id = id
      BY DEF Range
    <3> QED  BY <3>1, <3>2, GradingAssumption
  <2> QED  BY <1>1, <2>1
<1>3. same # {} /\ same \in SUBSET (1 .. N)
  BY <1>1 DEF Range
<1> HIDE DEF same
<1>4. PICK m \in same : \A k \in same : k <= m
  BY <1>1, <1>3, Greatest
<1> DEFINE i == CHOOSE i \in same : \A k \in same : k <= i
<1>5. i \in same /\ i \in 1 .. N
  BY <1>3, <1>4
<1>6. Where(all, id) = [module |-> all[i].module, step |-> StepOf(all, i)]
  BY <1>2, <1>3 DEF Where
<1>7. Where(BuiltIn, id) = [module |-> BuiltIn[i].module, step |-> StepOf(BuiltIn, i)]
  BY <1>3 DEF Where, same
<1> HIDE DEF i
<1>8. all[i] = BuiltIn[i] /\ \A k \in 1 .. i : all[k] = BuiltIn[k]
  BY <1>1, <1>5
<1>9. StepOf(all, i) = StepOf(BuiltIn, i)
  BY <1>8 DEF StepOf
<1> QED  BY <1>6, <1>7, <1>8, <1>9 DEF all

LEMMA ClassStepsAgree ==
  ASSUME NEW of \in Seq(Attempts), NEW c \in Seq(Custom)
  PROVE  StepsAgree(toSubmissions(of, BuiltIn \o c), of)
<1> DEFINE g == Submits(of)
           all == BuiltIn \o c
           subs == toSubmissions(of, all)
<1>1. /\ Kept(of, g) = [n \in 1 .. Cardinality(g) |-> of[NthOf(g, n)]]
      /\ \A n \in 1 .. Cardinality(g) :
           /\ subs[n].module = Where(all, of[NthOf(g, n)].problem).module
           /\ subs[n].step = Where(all, of[NthOf(g, n)].problem).step
  BY SubmissionsAre
<1> HIDE DEF subs
<1>2. ASSUME NEW n \in DOMAIN Kept(of, g),
             Kept(of, g)[n].problem \in {p.id : p \in Range(BuiltIn)}
      PROVE  /\ subs[n].module = Where(BuiltIn, Kept(of, g)[n].problem).module
             /\ subs[n].step = Where(BuiltIn, Kept(of, g)[n].problem).step
  <2> DEFINE id == Kept(of, g)[n].problem
  <2>1. id = of[NthOf(g, n)].problem /\ n \in 1 .. Cardinality(g)
    BY <1>1
  <2>2. Where(all, id) = Where(BuiltIn, id)
    <3> HIDE DEF id
    <3> QED  BY <1>2, BankSteps DEF id
  <2> HIDE DEF all, g
  <2>3. subs[n].module = Where(all, id).module /\ subs[n].step = Where(all, id).step
    BY <1>1, <2>1
  <2> QED  BY <2>2, <2>3
<1> QED  BY <1>2 DEF StepsAgree, Submits, subs
-----------------------------------------------------------------------------
(* The log and the class.                                                  *)

\* What was read of the log: it may have grown since, and rows may have been
\* ruled on, once.
Earlier(of) ==
  /\ of \in Seq(Attempts) /\ Len(of) <= Len(log)
  /\ \A i \in DOMAIN of : of[i].tutor # None => of[i] = log[i]

TypeInv ==
  /\ log \in Seq(Attempts) /\ custom \in Seq(Custom)
  /\ begun \in Nat /\ begun <= Len(log) /\ crossed \in BOOLEAN
  /\ load \in [Load -> [pc : {"none", "sent", "served"}, served : Seq(Attempts)]]
  /\ DOMAIN class = {"status", "subs", "of"}

\* A load that was served holds the log of a while ago; so does the class, whose
\* submissions were made of it with the custom problems of that moment.
ServedInv ==
  /\ \A l \in Load : /\ load[l].pc = "none" => load[l] = NoLoad
                     /\ load[l].pc = "served" => Earlier(load[l].served)
  /\ class.status = "ok" =>
       /\ Earlier(class.of)
       /\ \E c \in Seq(Custom) : class.subs = toSubmissions(class.of, BuiltIn \o c)

\* While no loads overlapped there is one at most, and none was served before
\* it began.
AloneInv ==
  ~crossed =>
    /\ \A l, m \in Load : load[l] # NoLoad /\ load[m] # NoLoad => l = m
    /\ \A l \in Load : load[l].pc = "served" => Len(load[l].served) >= begun
    /\ class.status = "ok" => Len(class.of) >= begun

GradeInv == TypeInv /\ ServedInv /\ AloneInv

LEMMA VerdictsFair ==
  ASSUME NEW v \in Verdicts \cup {Failure}
  PROVE  /\ v.client \in BOOLEAN /\ v.deserves \in BOOLEAN
         /\ DistinctNames => v.client = v.deserves
<1>1. CASE v = Failure
  BY <1>1 DEF Failure
<1>2. CASE v \in Verdicts
  <2>1. PICK c \in Comparisons, e \in Endings :
          v = [client |-> c.match /\ e.semicolon, deserves |-> c.deserves /\ e.deserves]
    BY <1>2 DEF Verdicts
  <2>2. PICK s \in Results, g \in Results, ordered \in BOOLEAN :
          LET match == compareResults(s, g, ordered).isMatch
              deserves == Deserves(s, g, ordered)
          IN c = [match |-> match, deserves |-> IF deserves = "either" THEN match ELSE deserves = "pass"]
    BY DEF Comparisons
  <2> DEFINE match == compareResults(s, g, ordered).isMatch
             deserves == Deserves(s, g, ordered)
  <2>3. ASSUME DistinctNames PROVE c.match = c.deserves
    <3>1. IsResult(s) /\ IsResult(g) /\ Named(s) /\ Named(g)
      BY <2>3, GradingAssumption DEF DistinctNames, Named
    <3>2. /\ SameRows(s, g, ordered, 0) => match
          /\ match => SameRows(s, g, ordered, Micro)
      BY <3>1, ComparisonRight
    <3>3. match \in BOOLEAN
      BY DEF compareResults
    <3> HIDE DEF match
    <3>4. (IF deserves = "either" THEN match ELSE deserves = "pass") = match
      BY <3>2, <3>3 DEF Deserves
    <3> HIDE DEF deserves
    <3> QED  BY <2>2, <3>4 DEF match, deserves
  <2>4. e.semicolon = e.deserves
    BY TextsTold
  <2>5. /\ v.client = (c.match /\ e.semicolon)
        /\ v.deserves = (c.deserves /\ e.deserves)
    BY <2>1
  <2> QED  BY <2>3, <2>4, <2>5
<1> QED  BY <1>1, <1>2

LEMMA AttemptTyped ==
  ASSUME NEW u \in Students, NEW id \in Ids, NEW action \in {"submit", "run"},
         NEW v \in Verdicts \cup {Failure}
  PROVE  Attempt(u, id, action, v) \in Attempts
<1>1. ModeOf(id) \in Modes
  <2>1. \E p \in Range(BuiltIn) \cup Custom : p.id = id
    BY DEF Ids, Range
  <2> QED  BY <2>1, GradingAssumption DEF ModeOf
<1>2. /\ v.client \in BOOLEAN /\ v.deserves \in BOOLEAN
      /\ DistinctNames => v.client = v.deserves
  BY VerdictsFair
<1> DEFINE a == Attempt(u, id, action, v)
<1>3. a \in [user : Students, problem : Ids, mode : Modes, action : {"submit", "run"},
             client : BOOLEAN, tutor : BOOLEAN \cup {None}, deserves : BOOLEAN]
  BY <1>1, <1>2 DEF Attempt
<1>4. a.client = v.client /\ a.deserves = v.deserves
  BY DEF Attempt
<1> HIDE DEF a
<1>5. a \in Attempts
  BY <1>2, <1>3, <1>4 DEF Attempts
<1> QED  BY <1>5 DEF a

LEMMA GradeInit ==
  Init => GradeInv
<1> SUFFICES ASSUME Init PROVE GradeInv
  OBVIOUS
<1>1. log = <<>> /\ custom = <<>> /\ begun = 0 /\ crossed = FALSE /\ class.status = "loading"
      /\ DOMAIN class = {"status", "subs", "of"}
  BY DEF Init
<1>2. PICK l \in Load : load = [m \in Load |-> IF m = l THEN [NoLoad EXCEPT !.pc = "sent"] ELSE NoLoad]
  BY DEF Init
<1>3. /\ NoLoad \in [pc : {"none", "sent", "served"}, served : Seq(Attempts)]
      /\ [NoLoad EXCEPT !.pc = "sent"] \in [pc : {"none", "sent", "served"}, served : Seq(Attempts)]
      /\ [NoLoad EXCEPT !.pc = "sent"].pc = "sent" /\ NoLoad.pc = "none"
  <2>1. <<>> \in Seq(Attempts)
    OBVIOUS
  <2> QED  BY <2>1 DEF NoLoad
<1> DEFINE sent == [NoLoad EXCEPT !.pc = "sent"]
<1> HIDE DEF sent
<1>4. \A m \in Load : load[m] = IF m = l THEN sent ELSE NoLoad
  BY <1>2 DEF sent
<1>5. load \in [Load -> [pc : {"none", "sent", "served"}, served : Seq(Attempts)]]
  BY <1>2, <1>3
<1>6. TypeInv
  <2>1. <<>> \in Seq(Attempts) /\ <<>> \in Seq(Custom) /\ Len(<<>>) = 0
    OBVIOUS
  <2>2. log \in Seq(Attempts) /\ custom \in Seq(Custom)
    BY <1>1, <2>1
  <2>3. begun \in Nat /\ begun <= Len(log)
    <3>1. Len(log) \in Nat /\ begun = 0
      BY <1>1, <2>2
    <3> QED  BY <3>1
  <2>4. crossed \in BOOLEAN
    BY <1>1
  <2> QED  BY <1>1, <1>5, <2>2, <2>3, <2>4, Zenon DEF TypeInv
<1>7. ServedInv
  BY <1>1, <1>3, <1>4 DEF ServedInv, sent
<1>8. AloneInv
  BY <1>1, <1>3, <1>4 DEF AloneInv, sent
<1> QED  BY <1>6, <1>7, <1>8 DEF GradeInv
\* What is read of the log stays an earlier version of it.
LEMMA EarlierStays ==
  ASSUME TypeInv, NEW of, Earlier(of), log' \in Seq(Attempts), Len(log) <= Len(log'),
         \A i \in DOMAIN log : log[i].tutor # None => log'[i] = log[i]
  PROVE  /\ of \in Seq(Attempts) /\ Len(of) <= Len(log')
         /\ \A i \in DOMAIN of : of[i].tutor # None => of[i] = log'[i]
<1>1. /\ Len(of) \in Nat /\ Len(log) \in Nat /\ Len(log') \in Nat
      /\ DOMAIN of = 1 .. Len(of) /\ DOMAIN log = 1 .. Len(log)
  BY DEF Earlier, TypeInv
<1>2. ASSUME NEW i \in DOMAIN of, of[i].tutor # None PROVE of[i] = log'[i]
  <2>1. i \in DOMAIN log /\ of[i] = log[i]
    BY <1>1, <1>2 DEF Earlier
  <2> QED  BY <1>2, <2>1
<1> QED  BY <1>1, <1>2 DEF Earlier

\* A step of the log: it grows, or a row that no one ruled on is ruled on.
LogStep ==
  /\ log' \in Seq(Attempts) /\ Len(log) <= Len(log')
  /\ \A i \in DOMAIN log : log[i].tutor # None => log'[i] = log[i]
  /\ UNCHANGED <<custom, console>>

LEMMA LogStepKeeps ==
  ASSUME GradeInv, LogStep
  PROVE  GradeInv'
<1> USE DEF GradeInv
<1>1. UNCHANGED <<custom, inClass, class, load, openId, openCat, begun, crossed>>
  BY DEF LogStep, console
<1>2. TypeInv'
  <2>1. Len(log) \in Nat /\ Len(log') \in Nat
    BY DEF TypeInv, LogStep
  <2> QED  BY <1>1, <2>1 DEF TypeInv, LogStep
<1>3. ASSUME NEW of, Earlier(of)
      PROVE  /\ of \in Seq(Attempts) /\ Len(of) <= Len(log')
             /\ \A i \in DOMAIN of : of[i].tutor # None => of[i] = log'[i]
  BY <1>3, EarlierStays DEF LogStep
<1>4. ServedInv'
  BY <1>1, <1>3 DEF ServedInv, Earlier
<1>5. AloneInv'
  BY <1>1 DEF AloneInv
<1> QED  BY <1>2, <1>4, <1>5

LEMMA LoggedStep ==
  ASSUME GradeInv, NEW u \in Students, NEW id \in Ids, NEW action \in {"submit", "run"},
         NEW v \in Verdicts \cup {Failure}, Logged(u, id, action, v)
  PROVE  LogStep
<1> DEFINE a == Attempt(u, id, action, v)
<1>1. a \in Attempts
  BY AttemptTyped
<1>2. log \in Seq(Attempts) /\ log' = Append(log, a) /\ UNCHANGED <<custom, console>>
  BY DEF GradeInv, TypeInv, Logged
<1> HIDE DEF a
<1>3. /\ log' \in Seq(Attempts) /\ Len(log) <= Len(log')
      /\ \A i \in DOMAIN log : log'[i] = log[i]
  BY <1>1, <1>2
<1> QED  BY <1>2, <1>3 DEF LogStep

LEMMA RulesStep ==
  ASSUME GradeInv, NEW i \in 1 .. Len(log), NEW verdict \in BOOLEAN, Rules(i, verdict)
  PROVE  LogStep
<1>1. log \in Seq(Attempts)
  BY DEF GradeInv, TypeInv
<1>2. i \in DOMAIN log /\ log[i] \in Attempts
  BY <1>1
<1> DEFINE a == [log[i] EXCEPT !.tutor = verdict]
<1>3. a \in Attempts
  <2>1. log[i] \in [user : Students, problem : Ids, mode : Modes, action : {"submit", "run"},
                    client : BOOLEAN, tutor : BOOLEAN \cup {None}, deserves : BOOLEAN]
    BY <1>2 DEF Attempts
  <2>2. a \in [user : Students, problem : Ids, mode : Modes, action : {"submit", "run"},
               client : BOOLEAN, tutor : BOOLEAN \cup {None}, deserves : BOOLEAN]
    BY <2>1
  <2>3. a.client = log[i].client /\ a.deserves = log[i].deserves
    BY <2>1
  <2> HIDE DEF a
  <2> QED  BY <1>2, <2>2, <2>3 DEF Attempts
<1>4. log' = [log EXCEPT ![i] = a] /\ log[i].tutor = None /\ UNCHANGED <<custom, console>>
  BY DEF Rules
<1> HIDE DEF a
<1>5. log' \in Seq(Attempts) /\ Len(log') = Len(log) /\ Len(log) \in Nat
  BY <1>1, <1>2, <1>3, <1>4
<1>6. \A k \in DOMAIN log : log[k].tutor # None => log'[k] = log[k]
  BY <1>4
<1> QED  BY <1>4, <1>5, <1>6 DEF LogStep

LEMMA KeptTyped ==
  ASSUME NEW S, NEW list \in Seq(S), NEW places \in SUBSET (DOMAIN list)
  PROVE  Kept(list, places) \in Seq(S)
<1>1. Len(list) \in Nat /\ DOMAIN list = 1 .. Len(list)
  OBVIOUS
<1>2. /\ Cardinality(places) \in Nat
      /\ \A n \in 1 .. Cardinality(places) : NthOf(places, n) \in places
  BY <1>1, PlacesInTurn
<1>3. \A n \in 1 .. Cardinality(places) : list[NthOf(places, n)] \in S
  BY <1>2
<1>4. Kept(list, places) \in [1 .. Cardinality(places) -> S]
  BY <1>3 DEF Kept
<1> QED  BY <1>2, <1>4

LEMMA ProblemStep ==
  ASSUME GradeInv, NEW p \in Custom, AddProblem(p) \/ DeleteProblem(p)
  PROVE  GradeInv'
<1> USE DEF GradeInv
<1>1. UNCHANGED <<log, inClass, class, load, openId, openCat, begun, crossed>>
  BY DEF AddProblem, DeleteProblem, console
<1>2. custom' \in Seq(Custom)
  <2>1. custom \in Seq(Custom)
    BY DEF TypeInv
  <2>2. CASE AddProblem(p)
    BY <2>1, <2>2 DEF AddProblem
  <2>3. CASE DeleteProblem(p)
    <3>1. {i \in DOMAIN custom : custom[i] # p} \in SUBSET (DOMAIN custom)
      OBVIOUS
    <3> QED  BY <2>1, <2>3, <3>1, KeptTyped DEF DeleteProblem
  <2> QED  BY <2>2, <2>3
<1>3. TypeInv'
  BY <1>1, <1>2 DEF TypeInv
<1>4. ServedInv'
  BY <1>1 DEF ServedInv, Earlier
<1>5. AloneInv'
  BY <1>1 DEF AloneInv
<1> QED  BY <1>3, <1>4, <1>5
-----------------------------------------------------------------------------
(* The loads.                                                              *)

\* A load begins: it is the only one, or loads cross.
LEMMA LoadBegins ==
  ASSUME GradeInv, NEW l \in Load, LoadClass(l), UNCHANGED <<log, custom>>
  PROVE  GradeInv'
<1> USE DEF GradeInv
<1>1. /\ load[l] = NoLoad /\ load' = [load EXCEPT ![l].pc = "sent"]
      /\ class' = [class EXCEPT !.status = "loading"] /\ begun' = Len(log)
      /\ crossed' = (crossed \/ \E m \in Load : load[m] # NoLoad)
  BY DEF LoadClass
<1>2. load \in [Load -> [pc : {"none", "sent", "served"}, served : Seq(Attempts)]]
  BY DEF TypeInv
<1>3. /\ load' \in [Load -> [pc : {"none", "sent", "served"}, served : Seq(Attempts)]]
      /\ load'[l].pc = "sent" /\ \A m \in Load : m # l => load'[m] = load[m]
  BY <1>1, <1>2
<1>4. DOMAIN class' = {"status", "subs", "of"} /\ class'.status = "loading"
  BY <1>1 DEF TypeInv
<1>5. TypeInv'
  <2>1. begun' \in Nat /\ begun' <= Len(log')
    BY <1>1 DEF TypeInv
  <2>2. crossed' \in BOOLEAN
    BY <1>1 DEF TypeInv
  <2> QED  BY <1>3, <1>4, <2>1, <2>2 DEF TypeInv
<1>6. ServedInv'
  BY <1>3, <1>4 DEF ServedInv, Earlier
<1>7. AloneInv'
  <2>1. ~crossed' => \A m \in Load : load[m] = NoLoad
    BY <1>1
  <2>2. NoLoad.pc = "none"
    BY DEF NoLoad
  <2> QED  BY <1>3, <1>4, <2>1, <2>2 DEF AloneInv
<1> QED  BY <1>5, <1>6, <1>7

LEMMA Served ==
  ASSUME GradeInv, NEW l \in Load, Serve(l)
  PROVE  GradeInv'
<1> USE DEF GradeInv
<1> DEFINE now == [pc |-> "served", served |-> log]
<1>1. load[l].pc = "sent" /\ load' = [load EXCEPT ![l] = now] /\ now.pc = "served" /\ now.served = log
  BY DEF Serve
<1>2. UNCHANGED <<log, custom, inClass, class, openId, openCat, begun, crossed>>
  BY DEF Serve
<1>3. now \in [pc : {"none", "sent", "served"}, served : Seq(Attempts)]
  BY DEF TypeInv
<1> HIDE DEF now
<1>4. load \in [Load -> [pc : {"none", "sent", "served"}, served : Seq(Attempts)]]
  BY DEF TypeInv
<1>5. /\ load' \in [Load -> [pc : {"none", "sent", "served"}, served : Seq(Attempts)]]
      /\ load'[l] = now /\ \A m \in Load : m # l => load'[m] = load[m]
  BY <1>1, <1>3, <1>4
<1>6. TypeInv'
  BY <1>2, <1>5 DEF TypeInv
<1>7. Earlier(log)
  <2>1. log \in Seq(Attempts) /\ Len(log) \in Nat
    BY DEF TypeInv
  <2> QED  BY <2>1 DEF Earlier
<1>8. ServedInv'
  <2>1. ASSUME NEW m \in Load
        PROVE  /\ load'[m].pc = "none" => load'[m] = NoLoad
               /\ load'[m].pc = "served" => Earlier(load'[m].served)
    <3>1. CASE m = l
      BY <1>1, <1>5, <1>7, <3>1
    <3>2. CASE m # l
      BY <1>5, <3>2 DEF ServedInv
    <3> QED  BY <3>1, <3>2
  <2> QED  BY <1>2, <2>1 DEF ServedInv, Earlier
<1>9. AloneInv'
  <2>1. load[l] # NoLoad
    BY <1>1 DEF NoLoad
  <2>2. begun <= Len(log)
    BY DEF TypeInv
  <2>3. \A m \in Load : load'[m] # NoLoad => load[m] # NoLoad
    BY <1>5, <2>1
  <2>4. ASSUME NEW m \in Load, load'[m].pc = "served", ~crossed PROVE Len(load'[m].served) >= begun
    <3>1. CASE m = l
      BY <1>1, <1>5, <2>2, <3>1 DEF TypeInv
    <3>2. CASE m # l
      BY <1>5, <2>4, <3>2 DEF AloneInv
    <3> QED  BY <3>1, <3>2
  <2> QED  BY <1>2, <2>3, <2>4 DEF AloneInv
<1> QED  BY <1>6, <1>8, <1>9

\* A load ends: its answer is shown, or an error.
LEMMA LoadEnds ==
  ASSUME GradeInv, NEW l \in Load, Arrive(l) \/ LoadFails(l)
  PROVE  GradeInv'
<1> USE DEF GradeInv
<1>1. load[l].pc \in {"sent", "served"} /\ load' = [load EXCEPT ![l] = NoLoad]
      /\ UNCHANGED <<log, custom, inClass, openId, openCat, begun, crossed>>
  BY DEF Arrive, LoadFails
<1>2. load \in [Load -> [pc : {"none", "sent", "served"}, served : Seq(Attempts)]]
  BY DEF TypeInv
<1>3. NoLoad \in [pc : {"none", "sent", "served"}, served : Seq(Attempts)] /\ NoLoad.pc = "none"
  <2>1. <<>> \in Seq(Attempts)
    OBVIOUS
  <2> QED  BY <2>1 DEF NoLoad
<1>4. /\ load' \in [Load -> [pc : {"none", "sent", "served"}, served : Seq(Attempts)]]
      /\ load'[l] = NoLoad /\ \A m \in Load : m # l => load'[m] = load[m]
  BY <1>1, <1>2, <1>3
<1>5. DOMAIN class' = {"status", "subs", "of"}
  BY DEF Arrive, LoadFails, TypeInv
<1>6. TypeInv'
  BY <1>1, <1>4, <1>5 DEF TypeInv
<1>7. class'.status = "ok" =>
        /\ Earlier(class'.of) /\ (~crossed => Len(class'.of) >= begun)
        /\ \E c \in Seq(Custom) : class'.subs = toSubmissions(class'.of, BuiltIn \o c)
  <2>1. CASE Arrive(l)
    <3>1. /\ load[l].pc = "served" /\ class'.of = load[l].served
          /\ class'.subs = toSubmissions(load[l].served, BuiltIn \o custom)
      BY <2>1 DEF Arrive, All
    <3>2. Earlier(load[l].served) /\ (~crossed => Len(load[l].served) >= begun)
      BY <3>1 DEF ServedInv, AloneInv
    <3>3. custom \in Seq(Custom)
      BY DEF TypeInv
    <3> QED  BY <3>1, <3>2, <3>3
  <2>2. CASE LoadFails(l)
    BY <2>2 DEF LoadFails, TypeInv
  <2> QED  BY <2>1, <2>2
<1>8. ServedInv'
  BY <1>1, <1>3, <1>4, <1>7 DEF ServedInv, Earlier
<1>9. AloneInv'
  BY <1>1, <1>3, <1>4, <1>7 DEF AloneInv
<1> QED  BY <1>6, <1>8, <1>9

LEMMA GradeStep ==
  GradeInv /\ [Next]_vars => GradeInv'
<1> SUFFICES ASSUME GradeInv, [Next]_vars PROVE GradeInv'
  OBVIOUS
<1>1. ASSUME NEW u \in Students, NEW id \in Ids, Submit(u, id) PROVE GradeInv'
  <2>1. PICK v \in Verdicts \cup {Failure} : Logged(u, id, "submit", v)
    BY <1>1 DEF Submit
  <2> QED  BY <2>1, LoggedStep, LogStepKeeps
<1>2. ASSUME NEW u \in Students, NEW id \in Ids, RunFails(u, id) PROVE GradeInv'
  BY <1>2, LoggedStep, LogStepKeeps DEF RunFails
<1>3. ASSUME NEW i \in 1 .. Len(log), NEW verdict \in BOOLEAN, Rules(i, verdict) PROVE GradeInv'
  BY <1>3, RulesStep, LogStepKeeps
<1>4. ASSUME NEW p \in Custom, AddProblem(p) \/ DeleteProblem(p) PROVE GradeInv'
  BY <1>4, ProblemStep
<1>5. ASSUME NEW l \in Load, EnterClass(l) \/ TryAgain(l) PROVE GradeInv'
  <2>1. LoadClass(l) /\ UNCHANGED <<log, custom>>
    BY <1>5 DEF EnterClass, TryAgain
  <2> QED  BY <2>1, LoadBegins
<1>6. ASSUME NEW l \in Load, Serve(l) PROVE GradeInv'
  BY <1>6, Served
<1>7. ASSUME NEW l \in Load, Arrive(l) \/ LoadFails(l) PROVE GradeInv'
  BY <1>7, LoadEnds
<1>8. ASSUME UNCHANGED <<log, custom, class, load, begun, crossed>> PROVE GradeInv'
  BY <1>8 DEF GradeInv, TypeInv, ServedInv, AloneInv, Earlier
<1>9. \/ \E u \in Students, id \in Ids : Submit(u, id) \/ RunFails(u, id)
      \/ \E i \in 1 .. Len(log), verdict \in BOOLEAN : Rules(i, verdict)
      \/ \E p \in Custom : AddProblem(p) \/ DeleteProblem(p)
      \/ \E l \in Load : EnterClass(l) \/ TryAgain(l) \/ Serve(l) \/ Arrive(l) \/ LoadFails(l)
      \/ UNCHANGED <<log, custom, class, load, begun, crossed>>
  BY DEF Next, OpenStudent, OpenModule, LeaveClass, Back, CloseStudent, vars, console
<1> QED  BY <1>1, <1>2, <1>3, <1>4, <1>5, <1>6, <1>7, <1>8, <1>9

-----------------------------------------------------------------------------
(* Theorems.                                                               *)

\* Every attempt in the log passed exactly where it deserves to, for all texts
\* and all results without two columns of one name (App.jsx:400-440,
\* verifier.js:10-118, 164-217).
THEOREM VerdictsAreRight ==
  Spec => []VerdictRight
<1>1. GradeInv => VerdictRight
  <2> SUFFICES ASSUME GradeInv, DistinctNames, NEW i \in DOMAIN log
               PROVE  log[i].client = log[i].deserves
    BY DEF VerdictRight
  <2>1. log[i] \in Attempts
    BY DEF GradeInv, TypeInv
  <2> QED  BY <2>1 DEF Attempts
<1> QED  BY <1>1, GradeInit, GradeStep, PTL DEF Spec

\* What a loaded class shows adds up and is the log: every figure counts the
\* same submissions, a problem of the bank has the step its students know, and
\* no row is older than the load (InstructorDashboard.jsx:149-158, 650-716).
THEOREM TheRosterTellsTheLog ==
  Spec => []RosterTellsTheLog
<1>1. GradeInv => RosterTellsTheLog
  <2> SUFFICES ASSUME GradeInv, class.status = "ok"
               PROVE  /\ AddsUp(class.subs, class.of) /\ StepsAgree(class.subs, class.of)
                      /\ Len(class.of) <= Len(log) /\ (~crossed => Len(class.of) >= begun)
                      /\ \A i \in DOMAIN class.of : class.of[i].tutor # None => class.of[i] = log[i]
    BY DEF RosterTellsTheLog
  <2>1. Earlier(class.of)
    BY DEF GradeInv, ServedInv
  <2>2. PICK c \in Seq(Custom) : class.subs = toSubmissions(class.of, BuiltIn \o c)
    BY DEF GradeInv, ServedInv
  <2>3. class.of \in Seq(Attempts)
    BY <2>1 DEF Earlier
  <2>4. AddsUp(class.subs, class.of)
    BY <2>2, <2>3, ClassAddsUp
  <2>5. StepsAgree(class.subs, class.of)
    BY <2>2, <2>3, ClassStepsAgree
  <2>6. ~crossed => Len(class.of) >= begun
    BY DEF GradeInv, AloneInv
  <2> QED  BY <2>1, <2>4, <2>5, <2>6 DEF Earlier
<1> QED  BY <1>1, GradeInit, GradeStep, PTL DEF Spec
=============================================================================
