------------------------------ MODULE Verifier ------------------------------
(***************************************************************************)
(* Output-based grading (frontend/src/lib/verifier.js): comments are       *)
(* stripped from a query, its result is compared with the result of the    *)
(* golden query.  Pure operators, and the references they are held         *)
(* against.                                                                *)
(*                                                                         *)
(* A text is a sequence of characters, by name.  A result has the names of *)
(* its columns and its rows, each a sequence of cells.  A cell is a record *)
(*   [type, value, pad]                                                    *)
(* with the JavaScript type the engine hands over: "number", "bigint",     *)
(* "decimal" (an object whose text is a number), "object" (any other),     *)
(* "string", "boolean", "date", "invalid date" or "null".  Numbers are      *)
(* counted in tenths of a millionth; "pad" says whether a text has blanks  *)
(* around it.                                                              *)
(***************************************************************************)
EXTENDS Integers, Sequences, FiniteSets, SequencesExt

-----------------------------------------------------------------------------
(* stripSqlComments.                                                       *)

Quotes == {"single", "double", "back"}

After(sql, i) == IF i < Len(sql) THEN sql[i + 1] ELSE "end"

Scanner(out, in, skip) == [out |-> out, in |-> in, skip |-> skip]

\* The character at i: inside a literal it is kept, with the one after it
\* where that is escaped; inside a comment it is dropped.
Scan(sql, s, i) ==
  LET c == sql[i]
      next == After(sql, i)
      kept == Append(s.out, c)
  IN CASE s.skip -> Scanner(s.out, s.in, FALSE)
       [] ~s.skip /\ s.in = "line" -> IF c = "newline" THEN Scanner(kept, "code", FALSE) ELSE s
       [] ~s.skip /\ s.in = "block" ->
            IF c = "*" /\ next = "/" THEN Scanner(s.out, "code", TRUE) ELSE s
       [] ~s.skip /\ s.in \in Quotes ->
            IF (c = "escape" /\ next # "end") \/ (c = s.in /\ next = s.in)
              THEN Scanner(Append(kept, next), s.in, TRUE)
            ELSE Scanner(kept, IF c = s.in THEN "code" ELSE s.in, FALSE)
       [] ~s.skip /\ s.in = "code" ->
            IF c \in Quotes THEN Scanner(kept, c, FALSE)
            ELSE IF c = "-" /\ next = "-" THEN Scanner(s.out, "line", FALSE)
            ELSE IF c = "/" /\ next = "*" THEN Scanner(Append(s.out, "blank"), "block", TRUE)
            ELSE Scanner(kept, "code", FALSE)

Scanned(sql) ==
  LET scan[i \in 0 .. Len(sql)] ==
        IF i = 0 THEN Scanner(<<>>, "code", FALSE) ELSE Scan(sql, scan[i - 1], i)
  IN scan

stripSqlComments(sql) == Scanned(sql)[Len(sql)].out

Blank == {"blank", "newline"}

\* What handleSubmit and handleRunCode ask of a query: it ends in a semicolon.
HasSemicolon(sql) ==
  LET clean == stripSqlComments(sql)
      inked == {i \in DOMAIN clean : clean[i] \notin Blank}
  IN inked # {} /\ clean[CHOOSE i \in inked : \A k \in inked : k <= i] = ";"

-----------------------------------------------------------------------------
(* The reference for texts: a text is a sequence of tokens.                *)

Kinds == {"code", "blank", "literal", "comment"}

\* A literal ends where its quote is neither doubled nor escaped: some
\* characters are the second of a pair.
IsLiteral(text) ==
  LET last == Len(text)
      quote == text[1]
  IN /\ last >= 2 /\ quote \in Quotes /\ text[last] = quote
     /\ \E second \in [2 .. last -> BOOLEAN] :
          /\ ~second[2] /\ ~second[last]
          /\ \A i \in 2 .. (last - 1) :
               /\ second[i + 1] <=> (~second[i] /\ text[i] \in {quote, "escape"})
               /\ ~second[i] /\ text[i] = quote => text[i + 1] = quote

\* To the end of the line, or of the text.
IsLineComment(text) ==
  /\ Len(text) >= 2 /\ text[1] = "-" /\ text[2] = "-"
  /\ \A i \in 3 .. (Len(text) - 1) : text[i] # "newline"

IsBlockComment(text) ==
  LET last == Len(text)
  IN /\ last >= 4 /\ text[1] = "/" /\ text[2] = "*"
     /\ text[last - 1] = "*" /\ text[last] = "/"
     /\ \A i \in 3 .. (last - 2) : ~(text[i] = "*" /\ text[i + 1] = "/")

IsToken(token) ==
  /\ "end" \notin Range(token.text)
  /\ CASE token.kind = "code" -> Len(token.text) = 1 /\ token.text[1] \notin Quotes \cup Blank
       [] token.kind = "blank" -> Len(token.text) = 1 /\ token.text[1] \in Blank
       [] token.kind = "literal" -> IsLiteral(token.text)
       [] token.kind = "comment" -> IsLineComment(token.text) \/ IsBlockComment(token.text)

\* No two tokens open a comment together, and a line ends before the next token.
IsText(tokens) ==
  /\ tokens \in Seq([kind : Kinds, text : Seq(STRING)])
  /\ \A i \in DOMAIN tokens : IsToken(tokens[i])
  /\ \A i \in 1 .. (Len(tokens) - 1) :
       LET text == tokens[i].text
           next == tokens[i + 1].text[1]
       IN /\ text = <<"-">> => next # "-"
          /\ text = <<"/">> => next # "*"
          /\ tokens[i].kind = "comment" /\ IsLineComment(text) =>
               Len(text) >= 3 /\ text[Len(text)] = "newline"

Spelled(tokens) ==
  LET text[i \in 0 .. Len(tokens)] == IF i = 0 THEN <<>> ELSE text[i - 1] \o tokens[i].text
  IN text

TextOf(tokens) == Spelled(tokens)[Len(tokens)]

\* The last token that is neither blank nor a comment is a semicolon.
EndsInSemicolon(tokens) ==
  LET inked == {i \in DOMAIN tokens : tokens[i].kind \in {"code", "literal"}}
  IN inked # {} /\ tokens[CHOOSE i \in inked : \A k \in inked : k <= i].text = <<";">>

-----------------------------------------------------------------------------
(* Comparing results.                                                      *)

CellType == {"number", "bigint", "decimal", "object", "string", "boolean", "date",
             "invalid date", "null"}
Cell == [type : CellType, value : Int, pad : BOOLEAN]

\* What executeReadOnly returns: every row has a cell for each column, and a
\* bigint is whole.
IsResult(result) ==
  /\ result.columns \in Seq(STRING) /\ result.rows \in Seq(Seq(Cell))
  /\ \A i \in DOMAIN result.rows :
       /\ DOMAIN result.rows[i] = DOMAIN result.columns
       /\ \A k \in DOMAIN result.columns :
            result.rows[i][k].type = "bigint" => result.rows[i][k].value % 10 = 0

Null == [tag |-> "null", value |-> 0]

\* null, undefined, and a Date of no time.
Nothing(cell) == cell.type \in {"null", "invalid date"}

\* canonicalNumber: six decimals, halves away from zero, no negative zero.
Micro == 10
canonicalNumber(n) ==
  IF n >= 0 THEN (n + Micro \div 2) \div Micro ELSE -((-n + Micro \div 2) \div Micro)

\* A number and a text never agree, whatever they look like.
normalizeValue(cell) ==
  CASE Nothing(cell) -> Null
    [] cell.type \in {"number", "decimal"} -> [tag |-> "n", value |-> canonicalNumber(cell.value)]
    [] cell.type = "bigint" -> [tag |-> "n", value |-> cell.value \div Micro]
    [] cell.type = "boolean" -> [tag |-> "b", value |-> cell.value]
    [] cell.type = "date" -> [tag |-> "d", value |-> cell.value]
    [] cell.type \in {"string", "object"} -> [tag |-> "s", value |-> cell.value]

\* A row is asked for its value by the column's NAME; of columns with one name
\* an Arrow row answers with the first.
Field(columns, row, name) ==
  row[CHOOSE i \in DOMAIN columns : columns[i] = name /\ \A k \in 1 .. (i - 1) : columns[k] # name]

rowKey(row, columns) ==
  [i \in DOMAIN columns |-> normalizeValue(Field(columns, row, columns[i]))]

RowKeys(result) == [i \in DOMAIN result.rows |-> rowKey(result.rows[i], result.columns)]

Occurs(keys, key) == Cardinality({i \in DOMAIN keys : keys[i] = key})

\* Two sequences are equal once sorted.
MultisetMatch(a, b) ==
  \A key \in Range(a) \cup Range(b) : Occurs(a, key) = Occurs(b, key)

\* Mutant: rows in another order pass although the golden query orders them.
compareResults_Unordered(student, golden, orderSensitive) ==
  LET s == RowKeys(student)
      g == RowKeys(golden)
      shape == Len(student.columns) = Len(golden.columns) /\ Len(s) = Len(g)
  IN [isMatch |-> shape /\ MultisetMatch(s, g), orderIssue |-> FALSE]

compareResults(student, golden, orderSensitive) ==
  LET s == RowKeys(student)
      g == RowKeys(golden)
      shape == Len(student.columns) = Len(golden.columns) /\ Len(s) = Len(g)
  IN [isMatch |-> shape /\ IF orderSensitive THEN s = g ELSE MultisetMatch(s, g),
      orderIssue |-> shape /\ orderSensitive /\ s # g /\ MultisetMatch(s, g)]

-----------------------------------------------------------------------------
(* The reference for results: positions, not names; a pairing of rows, not *)
(* a sort.                                                                 *)

Numeric == {"number", "decimal", "bigint"}
Textual == {"string", "object"}

\* a and b are one value; with slack, one but for a millionth or for blanks.
Agree(a, b, slack) ==
  \/ Nothing(a) /\ Nothing(b)
  \/ /\ ~Nothing(a) /\ ~Nothing(b)
     /\ \/ /\ a.type \in Numeric /\ b.type \in Numeric
           /\ a.value - b.value \in (-slack) .. slack
        \/ /\ a.type \in Textual /\ b.type \in Textual
           /\ a.value = b.value /\ (slack = 0 => a.pad = b.pad)
        \/ /\ {a.type, b.type} \cap (Numeric \cup Textual) = {}
           /\ a.type = b.type /\ a.value = b.value

SameRow(p, q, slack) == \A k \in DOMAIN p : Agree(p[k], q[k], slack)

\* The same rows: in this order, or in some order.
SameRows(student, golden, ordered, slack) ==
  /\ Len(student.columns) = Len(golden.columns)
  /\ Len(student.rows) = Len(golden.rows)
  /\ LET n == DOMAIN golden.rows
         Pairings == IF ordered THEN {[i \in n |-> i]}
                     ELSE {f \in [n -> n] : \A i, k \in n : f[i] = f[k] => i = k}
     IN \E f \in Pairings : \A i \in n : SameRow(student.rows[f[i]], golden.rows[i], slack)

\* What the rows deserve: "either" where they agree but for the slack.
Deserves(student, golden, ordered) ==
  CASE SameRows(student, golden, ordered, 0) -> "pass"
    [] ~SameRows(student, golden, ordered, Micro) -> "fail"
    [] OTHER -> "either"
=============================================================================
