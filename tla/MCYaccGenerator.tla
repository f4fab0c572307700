--------------------------- MODULE MCYaccGenerator ---------------------------
(***************************************************************************)
(* Model checking of the reader of .y files and of the generator's work on *)
(* symbols and actions.  A file is printed from the productions it is to   *)
(* say, and what was read is compared with them; strings, characters and   *)
(* comments hold the marks that could mislead the reader.                  *)
(***************************************************************************)
EXTENDS YaccGenerator

MCPunctuation == {" ", "\n", ":", "|", ";", "{", "}", "'", "\"", "\\", "//", "/*", "*/", "<", ">", "+", "=",
                  "$$", "$1", "$2", "$3", "$0", "$<t>$", "$<t>2"}
MCCharCode == ("+" :> 43) @@ ("|" :> 124) @@ (";" :> 59) @@ ("\"" :> 34) @@ ("'" :> 39) @@ ("\\" :> 92)
              @@ ("n" :> 110) @@ ("0" :> 48)
Reference(index)   == [typed |-> FALSE, tag |-> <<>>, index |-> index]
TaggedBy(t, index) == [typed |-> TRUE, tag |-> <<t>>, index |-> index]
MCReferences == ("$$" :> Reference(0)) @@ ("$1" :> Reference(1)) @@ ("$2" :> Reference(2)) @@ ("$3" :> Reference(3))
                @@ ("$<t>$" :> TaggedBy("t", 0)) @@ ("$<t>2" :> TaggedBy("t", 2))

-----------------------------------------------------------------------------
\* What an alternative is written with.  An action is made of pieces of code, and of strings,
\* characters and comments, which are opaque.
Sym(t)     == [kind |-> "symbol", text |-> t]
Prec(t)    == [kind |-> "prec", text |-> t]
Code(t)    == [opaque |-> FALSE, text |-> t]
Opaque(t)  == [opaque |-> TRUE, text |-> t]
Joined(texts, gap) ==
  FoldLeft(LAMBDA done, t : IF done = <<>> THEN t ELSE done \o gap \o t, <<>>, texts)
Act(pieces) == [kind |-> "action", pieces |-> pieces,
                text |-> <<"{">> \o Joined([k \in DOMAIN pieces |-> pieces[k].text], <<>>) \o <<"}">>]

A == Sym(<<"A">>)
E == Sym(<<"e">>)
Plus  == Sym(<<"'", "+", "'">>)
Bar   == Sym(<<"'", "|", "'">>)
Tick  == Sym(<<"'", "\\", "'", "'">>)
Line  == Sym(<<"'", "\\", "n", "'">>)
Nul   == Sym(<<"'", "\\", "0", "'">>)
If    == Sym(<<"\"", "if", "\"">>)
Plain == Act(<<Code(<<"$$", "=", "$1", "+", "$2", ";">>)>>)
Tricky ==
  { Act(<<>>),
    Act(<<Code(<<"$1", "=">>), Opaque(<<"\"", "}", "$1", "\"">>), Code(<<";">>)>>),
    Act(<<Opaque(<<"\"", "\\", "\"", "}", "\"">>), Code(<<"$2">>)>>),
    Act(<<Opaque(<<"'", "}", "'">>), Code(<<"$$">>), Opaque(<<"'", "\\", "'", "'">>), Code(<<"$0", "$3">>)>>),
    Act(<<Code(<<"{", "$1", "}", "{", "}">>)>>),
    Act(<<Opaque(<<"//", "'", "}", "$1", "\n">>), Code(<<"$<t>2">>)>>),
    Act(<<Opaque(<<"/*", "\"", "}", "//", "*/">>), Code(<<"$<t>$", "=", "$3">>)>>) }

Production(l, alternatives) == [left |-> l, alternatives |-> alternatives]
PrintAlternative(alternative, gap) ==
  Joined([k \in DOMAIN alternative |->
            IF alternative[k].kind = "prec" THEN <<"%prec", " ">> \o alternative[k].text
            ELSE alternative[k].text], gap)
PrintProduction(p, gap) ==
  <<p.left>> \o gap \o <<":">> \o gap
  \o Joined([k \in DOMAIN p.alternatives |-> PrintAlternative(p.alternatives[k], gap) \o gap], <<"|">> \o gap)
  \o <<";">>

Gaps == {<<" ">>, <<"\n">>, <<" ", "/*", "|", "'", ";", "*/">>, <<"//", "{", "\n">>}

\* The definitions: the lines, and what they are to declare.
Declares(lines, start, types, tokens) ==
  [lines |-> lines, start |-> start, types |-> types, tokens |-> tokens]
NoHead == Declares(<<>>, <<>>, <<>>, {})
Heads ==
  { NoHead,
    Declares(<< <<"%start", " ", "f">> >>, <<"f">>, <<>>, {}),
    Declares(<< <<"%start", " ", "e">>, <<" ", "%start", " ", "f", " ", "e">>, <<"%start">> >>, <<"f">>, <<>>, {}),
    Declares(<< <<"%{">>, <<"%%">>, <<"%start", " ", "A">>, <<"%}">>, <<"%token", " ", "<", "n", ">", " ", "A">> >>,
          <<>>, (<<"A">> :> <<"n">>), {<<"A">>}),
    Declares(<< <<"%token", " ", "A", " ", "<", "n", ">", " ", "B", " ", "<", "m", ">">>, <<"x", " ", "%%">>,
             <<"%type", " ", "<", "k", ">", " ", "e", " ", "A">> >>,
          <<>>, (<<"A">> :> <<"k">>) @@ (<<"B">> :> <<"m">>) @@ (<<"e">> :> <<"k">>), {<<"A">>, <<"B">>}),
    Declares(<< <<"%union", " ", "{", "int", " ", "n", ";", "\n", "}">>, <<"%left", " ", "'", "+", "'">>, <<>>,
             <<"%right", " ", "U", " ", "A">>, <<"%nonassoc", " ", "<", "n", ">", " ", "A">> >>, <<>>, <<>>, {}),
    Declares(<< <<"%token", " ", "e">>, <<"%token", " ", "$", " ", "A", " ", "'", "+", "'">> >>,
          <<>>, <<>>, {<<"e">>, <<"$">>, <<"A">>, <<"'", "+", "'">>}) }

File(head, gap, productions) ==
  [head |-> head, productions |-> productions, broken |-> FALSE,
   text |-> Joined(head.lines \o << <<>>, <<"%%">>, <<>> >>, <<"\n">>)
            \o Joined([k \in DOMAIN productions |-> PrintProduction(productions[k], gap)], <<"\n">>)
            \o <<"\n", " ", "%%", " ", "\n", "rest">>]
Broken(t) == [head |-> NoHead, productions |-> <<>>, broken |-> TRUE, text |-> t]

-----------------------------------------------------------------------------
Up(S, n) == UNION {[1..k -> S] : k \in 0..n}
One(alternative) == <<Production("e", <<alternative>>)>>

Shapes == Up({A, Plus, Plain}, 3)
Placed(a) == {<<a>>, <<A, a>>, <<a, E>>, <<A, a, Plus>>, <<A, a, a>>, <<A, Plus, A, a>>}
Ranked == {<<A, Prec(<<"U">>)>>, <<A, Plain, Prec(<<"U">>)>>, <<A, Prec(<<"U">>), Plain>>, <<Prec(<<>>)>>,
           <<Prec(<<"'", "+", "'">>), A, Prec(<<"U">>)>>}
Paired == {<<>>, <<A, Plain, E>>, <<E, Plus, E, Plain>>, <<Plain, A>>}
TwoRules == {<<Production("e", <<a, b>>), Production("f", <<b, c>>)>> : a, b, c \in Paired}
Quotes == {<<Plus, Bar, Tick, If>>, <<Line, A, Tick, Nul>>, <<Sym(<<"'", "\"", "'">>), Sym(<<"'", "\\", "\"", "'">>), If>>}

MCFiles ==
  {File(NoHead, gap, One(s)) : s \in Shapes \cup (UNION {Placed(a) : a \in Tricky}) \cup Ranked \cup Quotes, gap \in Gaps}
  \cup {File(NoHead, <<" ">>, p) : p \in TwoRules}
  \cup {File(h, <<"\n">>, p) :
          h \in Heads, p \in {One(<<A, Plus, Plain>>), One(<<A, Plain, E, Plain>>), One(<<Plain, E>>) \o <<Production("f", << <<>> >>)>>,
                              One(<<E, Sym(<<"B">>), Plain>>) \o <<Production("f", << <<A>>, <<>> >>)>>}}
  \cup {Broken(t) : t \in
          { <<"%token", " ", "A">>, <<"%%", "\n", "e", ":", ";">>, <<"x", "%%", "\n", "%%">>, <<"%%", "\n", "%%">>,
            <<"%union", " ", ";", "\n", "%%", "\n", "%%">>, <<"%union", "{", "\n", "%%", "\n", "%%">>,
            <<"%{", "\n", "%%", "\n", "%%">>, <<"%%", "\n", "e", " ", "A", ";", "\n", "%%">>,
            <<"%%", "\n", "'", "+", "'", ":", ";", "\n", "%%">>, <<"%%", "\n", "e", ":", "A", "\n", "%%">>,
            <<"%%", "\n", "e", ":", "{", "\"", "}", "\n", "%%">>, <<"%%", "\n", "e", ":", "{", "}", "/*", "\n", "%%">>,
            <<"%%", "\n", "e", ":", "{", "}", "\n", "%%">>,
            <<"%%", "\n", "e", ":", "'", "+", ";", "\n", "%%">>, <<"%%", "\n", "e", ":", ":", ";", "\n", "%%">>,
            <<"%%", "\n", "e", ":", ";", "/*", "\n", "%%">>, <<"%%", "\n", "e", ":", "%prec", " ", "'", ";", "\n", "%%">>,
            <<"%%", "\n", "e", ":", "/*", "\n", "%%", "\n", "*/", "A", ";", "\n", "%%">> }}

-----------------------------------------------------------------------------
\* The parts of a written alternative: its own action is the one it ends with, every other
\* action is a component like a symbol.
HasAction(a)  == a # <<>> /\ a[Len(a)].kind = "action"
OwnAction(a)  == IF HasAction(a) THEN a[Len(a)].text ELSE <<>>
Components(a) ==
  SelectSeq(IF HasAction(a) THEN SubSeq(a, 1, Len(a) - 1) ELSE a, LAMBDA i : i.kind # "prec")
Precedence(a) ==
  LET precs == SelectSeq(a, LAMBDA i : i.kind = "prec")
  IN  IF precs = <<>> THEN <<>> ELSE precs[Len(precs)].text

Written ==
  FoldLeft(LAMBDA done, p : done \o [k \in DOMAIN p.alternatives |->
                                      [left |-> Symbol(p.left), alternative |-> p.alternatives[k]]],
           <<>>, file.productions)

IsMidrule(symbol) == symbol # <<>> /\ symbol[1] = "__midrule_"
MainRules == SelectSeq([k \in DOMAIN spec.rules |-> spec.rules[k] @@ [number |-> k]],
                       LAMBDA r : ~IsMidrule(r.left))
MadeFor(symbol) == {k \in DOMAIN spec.rules : spec.rules[k].left = symbol}
Uses(symbol)    == {<<k, i>> \in UNION {{k} \X DOMAIN spec.rules[k].right : k \in DOMAIN spec.rules} :
                      spec.rules[k].right[i] = symbol}

\* The symbol stands for the component: it is the one that was written, or it belongs to
\* one empty production with the action that was written, and is used nowhere else.
StandsFor(symbol, component) ==
  IF component.kind = "symbol" THEN symbol = component.text
  ELSE /\ IsMidrule(symbol) /\ Cardinality(Uses(symbol)) = 1 /\ Cardinality(MadeFor(symbol)) = 1
       /\ \A k \in MadeFor(symbol) : spec.rules[k].right = <<>> /\ spec.rules[k].action = component.text

Reads(r, w) ==
  LET components == Components(w.alternative)
  IN  /\ r.left = w.left /\ r.action = OwnAction(w.alternative) /\ r.precedence = Precedence(w.alternative)
      /\ Len(r.right) = Len(components)
      /\ \A k \in DOMAIN components : StandsFor(r.right[k], components[k])

\* The start symbol is the last one that a line names, or else the left side of the first
\* rule in the vector: of the first production, unless its first alternative has an action
\* in front of something, whose own symbol then becomes the start of the grammar.
DefaultStart ==
  CASE file.head.start # <<>> -> file.head.start
    [] \E i \in DOMAIN Components(Written[1].alternative) : Components(Written[1].alternative)[i].kind = "action"
         -> Midrule(Written[1].left, 0)
    [] OTHER -> Written[1].left

\* Whatever strings, characters, comments and nested braces an action holds and however the
\* productions are laid out, the rules are the alternatives as written, in their order,
\* with one empty rule for each action in front of something, and they begin with the start
\* symbol; and a file that breaks off inside of a production, a block, a quote, a comment or
\* a section is refused.
RulesAsWritten ==
  /\ reading = "done" =>
       /\ ~file.broken /\ Len(MainRules) = Len(Written)
       /\ \A k \in DOMAIN Written : Reads(MainRules[k], Written[k])
       /\ spec.startSymbol = DefaultStart
  /\ reading = "threw" => file.broken

-----------------------------------------------------------------------------
RightSymbols == UNION {Range(spec.rules[k].right) : k \in DOMAIN spec.rules}
Lefts        == {spec.rules[k].left : k \in DOMAIN spec.rules}

\* A symbol of a right-hand side is a nonterminal if some production defines it and else a
\* terminal, and both only when it is declared as a token and defined all the same; the
\* header, the table and the message of the parser agree on the number of a named
\* terminal, unless "$" is declared as a token and shifts the numbers of the table; two
\* terminals share a number only if they are two spellings of one character, and the end
\* marker shares its number only with the character 0.
SymbolsNumbered ==
  generating = "done" =>
    /\ \A s \in RightSymbols : /\ Contains(nonterminals, s) <=> s \in Lefts
                               /\ Contains(terminals, s) <=> s \notin Lefts \/ s \in file.head.tokens
    /\ EndMarker \notin file.head.tokens =>
         \A s \in Range(TokenKinds) :
           TokenCodeForSymbol(s) = HeaderCode(s) /\ TokenSymbol(HeaderCode(s)) = s
    /\ \A s, t \in Range(terminals) \cup {EndMarker} :
         s # t /\ TokenCodeForSymbol(s) = TokenCodeForSymbol(t) =>
           /\ \A u \in {s, t} \ {EndMarker} : Quoted(u) /\ TokenCodeForSymbol(u) = DecodeQuotedTerminal(u)
           /\ EndMarker \in {s, t} => TokenCodeForSymbol(s) = 0

\* The type that the definitions give to what a component stands for: to a symbol only.
DeclaredType(component) ==
  IF component.kind = "symbol" /\ component.text \in DOMAIN file.head.types
  THEN file.head.types[component.text] ELSE <<>>

\* What the pieces of an action come to, when "$k" is the k-th of the components.
Resolved(piece, symbol, components) ==
  FoldLeft(LAMBDA done, u :
             done \o (IF piece.opaque \/ u \notin DOMAIN References THEN <<Copied(u)>>
                      ELSE LET ref == References[u]
                               named == [k \in 0..Len(components) |->
                                           DeclaredType(IF k = 0 THEN Sym(symbol) ELSE components[k])]
                           IN  IF ref.index > Len(components) THEN <<>>
                               ELSE <<Value(ref.index, IF ref.typed THEN ref.tag ELSE named[ref.index])>>),
           <<>>, piece.text)
Meant(action, symbol, components) ==
  FoldLeft(LAMBDA done, p : done \o Resolved(p, symbol, components), <<>>, action.pieces)

\* In the action of an alternative "$k" is the value of the k-th thing written in it, symbols
\* and actions alike, with the type declared for it, "$$" the one of the left side, and a
\* number beyond the end vanishes; in strings, characters and comments nothing changes.
ReferencesResolved ==
  generating = "done" =>
    \A k \in DOMAIN Written :
      LET a == Written[k].alternative
      IN  HasAction(a) => emitted[MainRules[k].number] = Meant(a[Len(a)], Written[k].left, Components(a))

\* In an action in front of something "$k" is the k-th thing written before it
\* (ALGORITHMS.md:66-75 promises correct actions there and the translation of $1, $2).
MidruleReferences ==
  generating = "done" =>
    \A k \in DOMAIN Written :
      LET components == Components(Written[k].alternative)
      IN  \A i \in DOMAIN components :
            components[i].kind = "action" =>
              \A m \in MadeFor(MainRules[k].right[i]) :
                emitted[m] = Meant(components[i], spec.rules[m].left, SubSeq(components, 1, i - 1))
=============================================================================
