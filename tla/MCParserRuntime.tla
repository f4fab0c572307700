-------------------------- MODULE MCParserRuntime --------------------------
(***************************************************************************)
(* Model checking of the generated parser: parsers built from the          *)
(* catalogue's grammars by both table modes, on every short input and on   *)
(* some longer ones.                                                       *)
(***************************************************************************)
EXTENDS ParserRuntime

LOCAL INSTANCE SequencesExt    \* FlattenSeq, FoldLeft

Tables == INSTANCE TableRows

\* The parser that a specification g and an automaton of its grammar give.
ParserWith(g, c, rows) ==
  LET next(s) == [X \in {e[1] : e \in Elements(c.edges[s])} |->
                    (CHOOSE e \in Elements(c.edges[s]) : e[1] = X)[2]]
  IN  [nonterminals |-> g.nonterminals, producers |-> g.producers, start |-> g.start, first |-> c.first,
       looks  |-> Tabulated([s \in DOMAIN rows |-> Elements(c.items[s])]),
       items  |-> Tabulated([s \in DOMAIN rows |-> {x[1] : x \in Elements(c.items[s])}]),
       next   |-> Tabulated([s \in DOMAIN rows |-> Tabulated(next(s))]),
       action |-> Tabulated([s \in DOMAIN rows |-> Tabulated(rows[s].action)]),
       goto   |-> Tabulated([s \in DOMAIN rows |-> Tabulated(rows[s].goto)]),
       acting |-> {k \in DOMAIN g.producers : Len(g.producers[k].right) # 1},
       deterministic |-> ~Cyclic(g) /\ \A s \in DOMAIN rows : rows[s].conflicts = {},
       specification |-> g]
ParserOf(g, c) == ParserWith(g, c, Tabulated([s \in 0 .. c.states - 1 |-> Tables!RowOf(g, c, s)]))

(***************************************************************************)
(* The cases: a specification, the table mode and a name for its words.    *)
(***************************************************************************)
Case(g, mode, words) == [specification |-> g, mode |-> mode, words |-> words]

\* Both table modes, every word over the tokens and the end marker.
MCPlain ==
  {Case(Plain(g), "lalr1", "all4") :
     g \in {NullableChain, ClosureLookahead, ReduceReduce, DoubleC, Assign, NotLalr, RightLoop, Twice, Closing}}
  \cup {Case(Plain(g), "lr1", "all4") : g \in {DoubleC, NotLalr, Assign}}
  \cup {Case(Plain(g), "lalr1", "all3") : g \in {Expr, Unproductive, Hopeless}}
  \cup {Case(Plain(Dangling), "lalr1", "all5"), Case(Plain(Blocks), "lalr1", "blocks")}

\* Conflicts resolved by precedence, on longer calculations.
MCOperators ==
  {Case(s, "lalr1", "calculations") :
     s \in {t \in OperatorSpecifications :
              t.producers \in {q.producers : q \in {TwoOperators, LeftAssoc, Comparison, UnaryMinus}}}}

\* Every small grammar that cannot feed itself, conflicts and all.
MCSmall ==
  {Case(Plain(g), "lalr1", "all3") :
     g \in {h \in SmallGrammars({<<>>, <<"A">>, <<"S", "a">>, <<"A", "a">>}) :
              ~Cyclic(h) /\ ~HiddenLeftRecursive(h)}}

AllWords(alphabet, n) == UNION {[1 .. k -> alphabet] : k \in 0 .. n}
BlockTexts ==
  {FlattenSeq([k \in DOMAIN w |-> IF w[k] = ";" THEN <<"INT", "IDENTIFIER", ";">> ELSE <<w[k]>>]) :
     w \in AllWords({"{", "}", ";"}, 6)}
WordsOf(case) ==
  LET tokenset == TokensOf(case.specification)
  IN  CASE case.words = "all3" -> AllWords(tokenset \cup {"?"}, 3)
        [] case.words = "all4" -> AllWords(tokenset, 4)
        [] case.words = "all5" -> AllWords(tokenset \ {EndMarker}, 5)
        [] case.words = "calculations" -> AllWords(tokenset \ {EndMarker, "(", ")"}, 5)
        [] case.words = "blocks" -> BlockTexts

MCCases == Enumerate(MCPlain \cup MCOperators \cup MCSmall)
MCAutomaton(tables, mode) == IF mode = "lr1" THEN CanonicalFrom(tables) ELSE LalrFrom(tables)
MCParser(g, mode) == ParserOf(g, MCAutomaton(WithTables(g, FirstTable(g)), mode))
MCWordsOf(case) == {[k \in DOMAIN w |-> [type |-> w[k], lexeme |-> ToString(k)]] : w \in WordsOf(case)}
MCParsersBuilt   == Tabulated([n \in DOMAIN MCCases |-> MCParser(MCCases[n].specification, MCCases[n].mode)])
MCSentencesBuilt == Tabulated([n \in DOMAIN MCCases |-> MCWordsOf(MCCases[n])])
MCParsers   == MCParsersBuilt
MCSentences == MCSentencesBuilt

-----------------------------------------------------------------------------
\* The tree that a term in postfix notation stands for.
TreeOf(g, term) ==
  LET grown(trees, mark) ==
        LET below == Len(trees) - (IF mark.by = 0 THEN 0 ELSE Len(g.producers[mark.by].right))
        IN  Append(SubSeq(trees, 1, below), [by |-> mark.by, kids |-> SubSeq(trees, below + 1, Len(trees))])
  IN  FoldLeft(grown, <<>>, term)[1]

RECURSIVE NodesOf(_)
NodesOf(value) ==
  IF value.by = 0 THEN {} ELSE {value} \cup UNION {NodesOf(value.kids[k]) : k \in DOMAIN value.kids}

WellRanked(g, tree) ==
  LET rank(q) == Tables!PrecedenceOf(g, Tables!ProductionPrecedenceSymbol(g, q))
      tighter(in, out, side) ==
        in.level >= 0 /\ out.level >= 0 =>
          \/ in.level > out.level
          \/ in.level = out.level /\ in.associativity = side
      open(q, at) == g.producers[q].right # <<>> /\ g.producers[q].right[at] \in g.nonterminals
      length(q) == Len(g.producers[q].right)
  IN  \A n \in NodesOf(tree) : \A k \in DOMAIN n.kids :
        LET inner == n.kids[k].by
        IN  inner # 0 =>
              /\ k = 1 /\ open(inner, length(inner)) => tighter(rank(inner), rank(n.by), "left")
              /\ k = length(n.by) /\ open(inner, 1) => tighter(rank(inner), rank(n.by), "right")
\* Precedence shapes the tree: an operand that is itself an operation open towards its
\* parent's operator binds tighter than the parent, or as tight and on the side that the
\* associativity names.
RankedTree ==
  pc = "accepted" /\ parser.specification.declarations # <<>> =>
    WellRanked(parser.specification, TreeOf(parser, semantic[1].value))

(***************************************************************************)
(* Scopes, by the text: the depth before each token, and the scope of an   *)
(* identifier as the last brace before it that is still open.              *)
(***************************************************************************)
OpenAt(k, j) ==   \* the brace at j is still open before k
  /\ tokens[j].type = OpenBrace
  /\ \A h \in j + 1 .. k : Cardinality({i \in j + 1 .. h - 1 : tokens[i].type = CloseBrace})
                             <= Cardinality({i \in j + 1 .. h - 1 : tokens[i].type = OpenBrace})
OpenBraces(k) == {j \in 1 .. k - 1 : OpenAt(k, j)}

\* A name is declared in the scope of the block that its declaration stands in, once that
\* declaration is reduced, and forgotten with it.
ScopesFollowText ==
  pc = "loop" /\ parser.start = "unit" =>
    LET waiting == {semantic[k].lexeme : k \in {j \in DOMAIN semantic : semantic[j].symbol = Identifier}}
        named(opened) ==
          {tokens[k].lexeme : k \in {j \in 1 .. index - 1 :
             /\ tokens[j].type = Identifier
             /\ OpenBraces(j) = opened /\ opened \subseteq OpenBraces(index)}}
        outer(depth) == {j \in OpenBraces(index) :
                           Cardinality({i \in OpenBraces(index) : i <= j}) < depth}
    IN  /\ Len(scopes) = Cardinality(OpenBraces(index)) + 1
        /\ \A depth \in DOMAIN scopes : scopes[depth] = named(outer(depth)) \ waiting
=============================================================================
