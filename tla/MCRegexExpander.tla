--------------------------- MODULE MCRegexExpander ---------------------------
(***************************************************************************)
(* Model checking of the reader of .l files and of the expander.  A file   *)
(* is printed from expressions with a meaning of their own, the words that *)
(* they match, and from actions with marks that could mislead the reader.  *)
(***************************************************************************)
EXTENDS RegexExpander

Bound == 3

MCCode == ("nul" :> 0) @@ ("\n" :> 10) @@ (" " :> 32) @@ ("\"" :> 34) @@ ("*" :> 42) @@ ("-" :> 45) @@ ("]" :> 93)
          @@ ("^" :> 94) @@ ("a" :> 97) @@ ("b" :> 98) @@ ("c" :> 99) @@ ("byte254" :> 254) @@ ("byte255" :> 255)
MCSpelling == ("/*" :> <<"/", "*">>) @@ ("*/" :> <<"*", "/">>) @@ ("//" :> <<"/", "/">>)

\* Expressions: how they are written, what they match, and how strongly they bind
\* (3 an atom, 2 a repetition, 1 a sequence, 0 an alternative).
Expr(t, words, binding) == [text |-> t, words |-> words, binding |-> binding]
Atom(t, words)  == Expr(t, words, 3)
Chars(t, chars) == Atom(t, {<<c>> : c \in chars})
InParentheses(e) == <<"(">> \o e.text \o <<")">>
Printed(e, binding) == IF e.binding >= binding THEN e.text ELSE InParentheses(e)
Low   == {c \in DOMAIN MCCode : MCCode[c] \in 1..127}

Seq2(e, f) == Expr(Printed(e, 1) \o Printed(f, 2), Joins(e.words, f.words, Bound), 1)
Alt(e, f)  == Expr(Printed(e, 0) \o <<"|">> \o Printed(f, 1), e.words \cup f.words, 0)
RECURSIVE Times(_, _)
Times(W, n) == IF n = 0 THEN {<<>>} ELSE Joins(Times(W, n - 1), W, Bound)
Starred(e)  == Expr(Printed(e, 2) \o <<"*">>, Powers(e.words, {<<>>}, Bound), 2)
Plus(e)     == Expr(Printed(e, 2) \o <<"+">>, Joins(e.words, Powers(e.words, {<<>>}, Bound), Bound), 2)
Maybe(e)    == Expr(Printed(e, 2) \o <<"?">>, e.words \cup {<<>>}, 2)
Exactly(e)  == Expr(Printed(e, 2) \o <<"{", "2", "}">>, Times(e.words, 2), 2)
AtLeast(e)  == Expr(Printed(e, 2) \o <<"{", "1", ",", "}">>, Joins(e.words, Powers(e.words, {<<>>}, Bound), Bound), 2)
UpTo(e)     == Expr(Printed(e, 2) \o <<"{", "0", ",", "2", "}">>, UNION {Times(e.words, n) : n \in 0..2}, 2)
Between(e)  == Expr(Printed(e, 2) \o <<"{", "1", ",", "3", "}">>, UNION {Times(e.words, n) : n \in 1..3}, 2)
None(e)     == Expr(Printed(e, 2) \o <<"{", "0", "}">>, {<<>>}, 2)
Repeated(e) == {Starred(e), Plus(e), Maybe(e), Exactly(e), AtLeast(e), UpTo(e), Between(e), None(e)}

a == Chars(<<"a">>, {"a"})
b == Chars(<<"b">>, {"b"})
InD == Atom(<<"{", "D", "}">>, {<<"a">>, <<"b">>})                     \* a | b
InE == Atom(<<"{", "E", "}">>, {<<"a", "c">>, <<"b", "c">>})           \* {D}c
Atoms ==
  { Atom(<<"\"", "\"">>, {<<>>}), Atom(<<"\"", "a", "*", "\"">>, {<<"a", "*">>}),
    Atom(<<"\"", "\\", "\"", "b", " ", "\"">>, {<<"\"", "b", " ">>}),
    Chars(<<"\\", "n">>, {"\n"}), Chars(<<"\\", "*">>, {"*"}), Chars(<<"]">>, {"]"}), Chars(<<".">>, Low \ {"\n"}),
    Chars(<<"[", "a", "c", "]">>, {"a", "c"}), Chars(<<"[", "^", "a", "\n", "]">>, Low \ {"a", "\n"}),
    Chars(<<"[", "]", "a", "]">>, {"a", "]"}), Chars(<<"[", "^", "]", "b", "]">>, Low \ {"b", "]"}),
    Chars(<<"[", "a", "-", "c", "]">>, {"a", "b", "c"}), Chars(<<"[", "-", "a", "]">>, {"-", "a"}),
    Chars(<<"[", "a", "-", "]">>, {"-", "a"}), Chars(<<"[", "a", "\\", "-", "c", "]">>, {"a", "-", "c"}),
    Chars(<<"[", "\\", "]", "-", "\\", "a", "]">>, {"]", "^", "a"}), Chars(<<"[", "\"", " ", "]">>, {"\"", " "}),
    Chars(<<"[", "\\", "0", "-", " ", "]">>, {"nul", "\n", " "}),
    Chars(<<"[", "c", "-", "byte254", "]">>, {"c", "byte254"}), Chars(<<"[", "byte255", "]">>, {"byte255"}) }
Simple == {a, b, InD, InE}
Deep ==
  UNION {Repeated(e) : e \in Simple \cup {Seq2(a, b), Alt(a, b), Starred(a), Alt(Maybe(a), InD)}}
  \cup {Seq2(e, f) : e \in Simple \cup {Alt(a, InD), Seq2(a, b), Starred(b)}, f \in Simple \cup {Alt(b, InE), Seq2(b, a), Plus(a)}}
  \cup {Alt(e, f) : e \in Simple \cup {Seq2(a, b)}, f \in Simple \cup {Seq2(b, b), Alt(b, a)}}
  \cup {Seq2(a, Starred(e)) : e \in {Alt(a, Seq2(b, a)), Between(b), InE}}

-----------------------------------------------------------------------------
\* Rules: an expression and an action, which is read as it was written less the lines
\* that are blank.
Action(t)     == [text |-> t, read |-> t]
Return        == Action(<<"r", ";">>)
Actions ==
  { Return, Action(<<"{", "}">>), Action(<<"{", "r", "\n", " ", "}">>), Action(<<"{", "{", "}", "\n", "}">>),
    Action(<<"{", "\"", "}", "\"", "\n", "r", "}">>), Action(<<"{", "'", "{", "'", "}">>),
    Action(<<"{", "\"", "\\", "\"", "{", "\"", "}">>), Action(<<"{", "/*", "}", "\n", "'", "*/", "}">>),
    Action(<<"{", "//", "}", "\"", "\n", "}">>), Action(<<"{", "'", "\\", "'", "'", "\n", "}">>),
    Action(<<"{", "r", "%%", "\n", "}">>), Action(<<"{", "/*", "\n", "%%", "b", "*/", "}">>),
    [text |-> <<"{", "\n", " ", "\n", "}">>, read |-> <<"{", "\n", "}">>] }
Rule(e, gap, action) == [expr |-> e, gap |-> gap, action |-> action]

Lines(texts) == FoldLeft(LAMBDA done, t : done \o t \o <<"\n">>, <<>>, texts)
Definitions ==
  << <<"D", " ", " ", "c">>, <<"%{">>, <<"%%">>, <<"D", " ", "b">>, <<"%}">>, <<" ", "D", " ", "a", " ", "|", " ", "b", " ", "/*", "c", "*/">>,
     <<"E", " ", "{", "D", "}", "c">>, <<"/*", " ", "D", " ", "c", " ", "*/">>, <<"D">>, <<>> >>
PrintFile(definitions, rules) ==
  Lines(definitions \o << <<"%%">> >> \o rules \o << <<>>, <<" ", "%%">> >>)
Written(rules) == PrintFile(Definitions, [k \in DOMAIN rules |-> rules[k].expr.text \o rules[k].gap \o rules[k].action.text])

\* The kinds of files: "whole", what is written is to be read; "broken", a file in which
\* something is missing or wrong; "misread", "split" and "endless", three in which nothing
\* is, of which the code makes something else, see below.
Whole(rules)   == [text |-> Written(rules), rules |-> rules, kind |-> "whole"]
Split(rules)   == [text |-> Written(rules), rules |-> rules, kind |-> "split"]
Other(t, kind) == [text |-> t, rules |-> <<>>, kind |-> kind]
Only(definitions, raw, kind) == Other(PrintFile(definitions, << raw \o <<" ", "{", "}">> >>), kind)

\* Broken expressions: an operand, the beginning of a group, or the end of a group, a string,
\* a class, an escape or a repetition is missing, a range or a repetition counts downwards, the
\* lower bound is missing, a bound is no number or too large, a name is not defined.
BrokenExpressions ==
  { <<"*">>, <<"}">>, <<"a", "|">>, <<"|", "a">>, <<"(", ")">>, <<"(", "a">>, <<"a", ")">>,
    <<"\"", "a">>, <<"\"", "a", "\\">>, <<"[", "a">>, <<"[", "]">>, <<"[", "\\">>, <<"[", "a", "-", "\\">>, <<"a", "\\">>,
    <<"[", "c", "-", "a", "]">>, <<"a", "{", "2", ",", "1", "}">>, <<"a", "{", "2">>, <<"a", "{", "}">>,
    <<"a", "{", ",", "2", "}">>, <<"a", "{", "1", ",", "b", "}">>, <<"a", "{", "1", "0", "0", "0", "1", "}">>,
    <<"a", "{", "1", ",", "9", "9", "9", "9", "9", "}">>, <<"a", "{", "9", "9", "9", "9", "9", "}">>, <<"a", "{", "D", "}">> }
\* Definitions that name each other, and one without a text.
Cyclic  == << <<"D", " ", "{", "E", "}", "a">>, <<"E", " ", "b", "{", "D", "}">> >>
Empty   == << <<"D">> >>
\* Broken files: without the first or the second "%%", with a rule that has no action, with
\* an action whose string or brace is never closed.
BrokenFiles ==
  { <<"a">>, <<"D", " ", "a", "\n", "%%", "\n", "a", " ", "r", ";">>,
    PrintFile(<<>>, << <<"a", " ", "r", ";">>, <<"b">> >>),
    PrintFile(<<>>, << <<"a", " ", "{", "\"", "}">> >>), PrintFile(<<>>, << <<"a", " ", "{">>, <<"b", " ", "r", ";">> >>) }

\* Expressions that are complete, and that the parser would take, but whose end the reader
\* sees elsewhere: it does not know that a "]" may be the first character of a class, takes a
\* blank between braces for the end, and a "/*" in the class of a definition for a comment.
CutExpressions == { <<"[", "]", "\"", "]">>, <<"[", "]", " ", "]">>, <<"a", "{", "2", " ", "}">>, <<"a", "{", "1", ",", " ", "2", "}">> }
CutDefinition  == << <<"D", " ", "[", "/*", "]">> >>
\* A blank in front of a rule leaves it without an expression, and so all lines behind it.
Indented == PrintFile(<<>>, << <<" ", "a", " ", "r", ";">>, <<"b", " ", "r", ";">> >>)

\* Actions with a "%%" alone on a line.  seuLex/docs/ALGORITHMS.md:34 promises that a "%%"
\* inside of an action does not end the section, without a condition, and
\* DEVELOPMENT_PROCESS.md:61 says the same; findSectionDelimiter
\* (lex_parser.cpp:16-53) knows of %{ and %} but not of actions, and ends the section
\* there.  These files are written as the document allows, and the code refuses them.
SplitActions ==
  { Action(<<"{", "\n", "%%", "\n", "}">>), Action(<<"{", "r", "\n", " ", "%%", " ", "\n", "r", "}">>), Action(<<"{", "{", "\n", "%%", "\n", "}", "}">>),
    Action(<<"{", "/*", "\n", "%%", "\n", "*/", "}">>), Action(<<"{", "{", "}", "\n", "%%", "\n", "%%", "\n", "}">>) }

\* Classes with a range that ends at the last value of an unsigned char.
EndlessClasses == { <<"[", "a", "-", "byte255", "]">>, <<"[", "^", "byte254", "-", "byte255", "]", "*">>,
                    <<"b", "|", "(", "a", "[", "\\", "0", "-", "byte255", "]">> }

MCFiles ==
  {Whole(<<Rule(e, <<" ">>, Return)>>) : e \in Atoms \cup Simple \cup Deep}
  \cup {Whole(<<Rule(e, gap, act), Rule(b, <<" ">>, other)>>) :
          e \in {a, Atom(<<"\"", "a", " ", "\"">>, {<<"a", " ">>})}, gap \in {<<" ">>, <<" ", " ">>, <<" ", "\n", " ">>}, act \in Actions,
          other \in {Return, Action(<<"{", "\"", "}", "\"", "\n", "r", "}">>), Action(<<"{", "/*", "}", "\n", "'", "*/", "}">>)}}
  \cup {Other(t, "broken") : t \in BrokenFiles} \cup {Only(<<>>, r, "broken") : r \in BrokenExpressions}
  \cup {Only(d, InD.text, "broken") : d \in {Cyclic, Empty}}
  \cup {Other(Indented, "misread"), Only(CutDefinition, InD.text, "misread")} \cup {Only(<<>>, r, "misread") : r \in CutExpressions}
  \cup {Split(<<Rule(a, <<" ">>, act), Rule(b, <<" ">>, Return)>>) : act \in SplitActions}
  \cup {Split(<<Rule(b, <<" ">>, Return), Rule(a, <<" ", "\n", " ">>, act)>>) : act \in SplitActions}
  \cup {Only(<<>>, r, "endless") : r \in EndlessClasses}

-----------------------------------------------------------------------------
\* What is read are the rules that were written, from the first one on and in their order,
\* each with the whole expression and the whole action, however many lines the action takes
\* and whatever its strings, characters and comments hold; no rule is ever without an
\* action, so that the text of an action tells an accepting state from any other; and a
\* reader that does not refuse the file has read all of them.  It refuses three kinds of
\* files: broken ones, some whose expressions or rules it delimits wrongly ("misread"), and
\* those with a "%%" alone on a line of an action ("split"), which against
\* ALGORITHMS.md:34 ends the rules; what counts there is that it never goes on with the
\* rules in front of the "%%", or with half an action.
RulesAsWritten ==
  LET written == [k \in DOMAIN file.rules |-> [regex |-> file.rules[k].expr.text, action |-> file.rules[k].action.read]]
  IN  /\ \A k \in DOMAIN lexRules : lexRules[k].regex # <<>> /\ lexRules[k].action # <<>>
      /\ file.kind \in {"whole", "split"} => IsPrefix(lexRules, written) /\ (reading = "done" => lexRules = written)
      /\ reading = "threw" => file.kind \in {"broken", "misread", "split"}

\* The tree of a rule matches the words that the expression means: operators bind as they
\* should, a repetition repeats all of what stands before it, classes, ranges and escapes
\* name their characters, and a definition is put in as a whole.
ExpansionMeans ==
  file.kind = "whole" =>
    \A k \in DOMAIN expanded : Words(expanded[k], Bound) = file.rules[k].expr.words

\* The driver comes to an end for every file but those with a range that ends at the last
\* value of an unsigned char, which is counted for ever ("endless").  It expands what was
\* written ("whole").  It refuses files in which an operand, a beginning or an end, a definition,
\* a sound bound, an action or a "%%" is missing ("broken"); and, though nothing is missing in them,
\* complete expressions that the reader cuts off, an indented rule ("misread"), and a "%%"
\* alone on a line of an action ("split"), which ALGORITHMS.md:34 says is read.
Outcome == ("whole" :> "done") @@ ("broken" :> "threw") @@ ("misread" :> "threw") @@ ("split" :> "threw") @@ ("endless" :> "range")
ReadingEnds == <>[](parsing = Outcome[file.kind])
=============================================================================
