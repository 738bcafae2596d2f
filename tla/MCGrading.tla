---------------------------- MODULE MCGrading -----------------------------
(* Two students and a bank of two modules, for TLC.                        *)
EXTENDS Grading

MCBuiltIn == <<[id |-> 1, type |-> "COURSE", module |-> "01"],
               [id |-> 2, type |-> "EXAM", module |-> "02"]>>
MCCustom == {[id |-> 3, type |-> "COURSE", module |-> "01"]}

Datum(type, value) == [type |-> type, value |-> value, pad |-> FALSE]

\* A whole number in its three forms, noise below and at a millionth, texts
\* that look like the number and like one another, nothing in two forms.
MCCells ==
  {Datum("bigint", 10), Datum("number", 10), Datum("decimal", 14), Datum("number", 16), Datum("number", -4),
   Datum("string", 1), [Datum("string", 1) EXCEPT !.pad = TRUE], Datum("object", 1),
   Datum("null", 0), Datum("invalid date", 0), Datum("date", 1)}

FewCells == {Datum("number", 10), Datum("string", 1), Datum("null", 0)}

Pairs(h, most) ==
  {[columns |-> h, rows |-> r] :
     r \in UNION {[1 .. n -> FewCells \X {Datum("number", 10), Datum("null", 0)}] : n \in 0 .. most}}

Singles(cells, least, most) ==
  {[columns |-> <<"x">>, rows |-> r] :
     r \in UNION {[1 .. n -> {<<c>> : c \in cells}] : n \in least .. most}}

MCResults ==
  Singles(MCCells, 0, 1) \cup Singles(FewCells, 2, 3)
  \cup Pairs(<<"x", "y">>, 2) \cup Pairs(<<"y", "z">>, 2)

\* Two columns of one name.
MCTwins == Pairs(<<"x", "y">>, 1) \cup Pairs(<<"x", "x">>, 1)

MCSemicolon == {<<[kind |-> "code", text |-> <<";">>]>>}

\* A word, a semicolon, a minus, a slash, a blank; literals that hold a
\* comment's opening, doubled and escaped quotes, a semicolon or another quote;
\* comments that hold a semicolon or a quote, and one that ends with the text.
MCTokens ==
  {[kind |-> "code", text |-> <<c>>] : c \in {"x", ";", "-", "/"}} \cup
  {[kind |-> "blank", text |-> <<"blank">>],
   [kind |-> "literal", text |-> <<"single", "-", "-", "double", "single">>],
   [kind |-> "literal", text |-> <<"single", "single", "single", ";", "single">>],
   [kind |-> "literal", text |-> <<"double", "/", "*", "escape", "double", "double">>],
   [kind |-> "comment", text |-> <<"-", "-", "single", ";", "newline">>],
   [kind |-> "comment", text |-> <<"-", "-", "x">>],
   [kind |-> "comment", text |-> <<"/", "*", "/", "double", ";", "*", "/">>]}

MCTexts == {tokens \in UNION {[1 .. n -> MCTokens] : n \in 0 .. 4} : IsText(tokens)}

Symmetry == Permutations(Students) \cup Permutations(Load)
=============================================================================
