-------------------------- MODULE GrammarReference --------------------------
(***************************************************************************)
(* Reference definitions the runs compare the code's algorithms with, and  *)
(* the automata they start from.  They are not translations: each says     *)
(* what a result means, as a least set closed under a rule.                *)
(***************************************************************************)
EXTENDS Grammar, TLC

TerminalsOf(g) == {X \in UNION {Elements(prod.right) : prod \in AllProductions(g)} : ~IsNonterminal(g, X)}
TokensOf(g)    == TerminalsOf(g) \cup {EndMarker}
SymbolsOf(g)   == TokensOf(g) \cup g.nonterminals

(***************************************************************************)
(* FIRST and FOLLOW by reachability and not by equations: A begins with X  *)
(* if some right-hand side of A has X behind a nullable prefix, and ends   *)
(* with X if it has X before a nullable suffix.                            *)
(***************************************************************************)
NullableSet(g) ==
  LET grow[found \in SUBSET g.nonterminals] ==
        LET more == found \cup
              {q.left : q \in {r \in Elements(g.producers) : Elements(r.right) \subseteq found}}
        IN  IF more = found THEN found ELSE grow[more]
  IN  grow[{}]

Vanishes(g, word, from, to) == \A k \in from .. to : word[k] \in NullableSet(g)

Reachable(edges, X) ==
  LET grow[found \in SUBSET ({X} \cup {e[2] : e \in edges})] ==
        LET more == found \cup {e[2] : e \in {d \in edges : d[1] \in found}}
        IN  IF more = found THEN found ELSE grow[more]
  IN  grow[{X}]

BeginsWith(g) == UNION {{<<q.left, q.right[k]>> : k \in {j \in DOMAIN q.right : Vanishes(g, q.right, 1, j - 1)}} :
                          q \in Elements(g.producers)}
EndsWith(g)   == UNION {{<<q.left, q.right[k]>> : k \in {j \in DOMAIN q.right :
                                                           Vanishes(g, q.right, j + 1, Len(q.right))}} :
                          q \in Elements(g.producers)}

FirstByReach(g) ==
  LET edges == BeginsWith(g)
  IN  [A \in g.nonterminals |-> (Reachable(edges, A) \ g.nonterminals)
                                \cup {e \in {Epsilon} : A \in NullableSet(g)}]

\* first_sets as the code has it: the augmented start symbol has an entry which nothing fills.
FirstTable(g) ==
  LET reach == FirstByReach(g)
  IN  [A \in Names(g) |-> IF A \in g.nonterminals THEN reach[A] ELSE {}]

FollowByAdjacency(g) ==
  LET begins == BeginsWith(g)
      ends == EndsWith(g)
      neighbours == UNION {{<<q.right[jk[1]], q.right[jk[2]]>> :
                              jk \in {x \in (DOMAIN q.right) \X (DOMAIN q.right) :
                                        x[1] < x[2] /\ Vanishes(g, q.right, x[1] + 1, x[2] - 1)}} :
                           q \in Elements(g.producers)}
  IN  [A \in g.nonterminals |->
         (UNION {Reachable(begins, n[2]) \ g.nonterminals : n \in {m \in neighbours : A \in Reachable(ends, m[1])}})
         \cup {e \in {EndMarker} : A \in Reachable(ends, g.start)}]

\* The core items of a grammar, and those with a lookahead.
ItemsFrom(prod) == {[left |-> prod.left, right |-> prod.right, dot |-> d] : d \in 0 .. Len(prod.right)}
CoreItems(g)    == UNION {ItemsFrom(prod) : prod \in AllProductions(g)}
PairItems(g)    == CoreItems(g) \X (OwnSymbols(g) \cup {EndMarker})

\* The LR(0) item sets reachable from the start state.
Lr0Start(g)  == Lr0Closure(g, {StartItem(g)})
Lr0States(g) ==
  LET grow[found \in SUBSET SUBSET CoreItems(g)] ==
        LET more == found \cup
              UNION {{Lr0Goto(g, items, X) : X \in SymbolsAfterDots(items)} : items \in found}
        IN  IF more = found THEN found ELSE grow[more]
  IN  grow[{Lr0Start(g)}]

\* The canonical LR(1) item sets reachable from the start state.
Lr1Start(g, fst)  == Lr1Closure(g, fst, {<<StartItem(g), EndMarker>>})
Lr1States(g, fst) ==
  LET grow[found \in SUBSET SUBSET PairItems(g)] ==
        LET more == found \cup
              UNION {{Lr1Goto(g, fst, items, X) : X \in SymbolsAfterDots(CoresOf(items))} : items \in found}
        IN  IF more = found THEN found ELSE grow[more]
  IN  grow[{Lr1Start(g, fst)}]

\* Any sequence of the elements of a set (element by element: SequencesExt!SetToSeq would
\* enumerate every function).
Enumerate(set) ==
  LET list[rest \in SUBSET set] ==
        IF rest = {} THEN <<>>
        ELSE LET x == CHOOSE y \in rest : TRUE IN <<x>> \o list[rest \ {x}]
  IN  list[set]

\* The same function, with its values computed now and not at every application (TLC).
Tabulated(f) == f @@ <<>>

(***************************************************************************)
(* An automaton as the code numbers it: order lists the item sets, the     *)
(* start state first; the order of the other states, items and edges is    *)
(* one of many.  successors maps an item set to its set of <<symbol, set>>.*)
(***************************************************************************)
NumberOf(order, items) == (CHOOSE k \in DOMAIN order : order[k] = items) - 1
NumberedEdges(order, successors) ==
  Tabulated([e \in DOMAIN successors |-> <<successors[e][1], NumberOf(order, successors[e][2])>>])
WithStates(c, order, successors) ==
  [states |-> Len(order),
   items  |-> Tabulated([k \in 0 .. Len(order) - 1 |-> Enumerate(order[k + 1])]),
   edges  |-> Tabulated([k \in 0 .. Len(order) - 1 |->
                NumberedEdges(order, Enumerate(successors[order[k + 1]]))])] @@ c
StartFirst(start, sets) == <<start>> \o Enumerate(sets \ {start})
WithTables(g, fst) ==
  [nonterminals |-> g.nonterminals, producers |-> g.producers, start |-> g.start,
   first |-> Tabulated(fst), tokens |-> TokensOf(g)]

\* The LR(0) automaton as buildLALRPDA uses it.
Lr0Successors(c, sets) ==
  [items \in sets |-> {<<X, Lr0Goto(c, items, X)>> : X \in SymbolsAfterDots(items)}]
Lr0WithStates(c, sets) ==
  WithStates(c, StartFirst(Lr0Start(c), sets), Lr0Successors(c, sets))
Lr0From(c) == Lr0WithStates(c, Lr0States(c))
AutomatonOf(g) == Lr0From(WithTables(g, FirstTable(g)))

\* LALR(1) by its definition: walk the LR(0) and the canonical LR(1) automaton with the
\* same prefixes; the lookaheads of an item in an LR(0) state are those it has in some
\* canonical state reached together with it.
MergedCanonical(c) ==
  LET successors(pair) ==
        {<<e[2], Lr1Goto(c, c.first, pair[2], e[1])>> :
           e \in {d \in Elements(c.edges[pair[1]]) : d[1] \in SymbolsAfterDots(CoresOf(pair[2]))}}
      grow[found \in SUBSET (States(c) \X SUBSET PairItems(c))] ==
        LET more == found \cup UNION {successors(pair) : pair \in found}
        IN  IF more = found THEN found ELSE grow[more]
  IN  UNION {{<<pair[1], x[1], x[2]>> : x \in pair[2]} :
               pair \in grow[{<<0, Lr1Start(c, c.first)>>}]}

\* The LALR(1) automaton of a grammar with its lookaheads, as the table builder reads it:
\* the items of a state as a sequence of <<core item, lookahead>>.
WithFacts(c, facts) ==
  [c EXCEPT !.items = Tabulated([s \in DOMAIN @ |->
     Enumerate({<<f[2], f[3]>> : f \in {h \in facts : h[1] = s}})])]
WithLookaheads(c) == WithFacts(c, MergedCanonical(c))
LalrFrom(c) == WithLookaheads(Lr0From(c))
LalrOf(g) == WithLookaheads(AutomatonOf(g))

\* The canonical LR(1) automaton in the same form.
Lr1Successors(c, sets) ==
  [items \in sets |->
     {<<X, Lr1Goto(c, c.first, items, X)>> : X \in SymbolsAfterDots(CoresOf(items))}]
Lr1WithStates(c, sets) ==
  WithStates(c, StartFirst(Lr1Start(c, c.first), sets), Lr1Successors(c, sets))
CanonicalFrom(c) == Lr1WithStates(c, Lr1States(c, c.first))
CanonicalOf(g) == CanonicalFrom(WithTables(g, FirstTable(g)))

(***************************************************************************)
(* The language of a grammar: <<A, i, j>> says that A derives the symbols  *)
(* from i up to but not including j of the word.                           *)
(***************************************************************************)
SymbolEnds(g, word, found, i, X) ==
  IF X \in g.nonterminals THEN {j \in i .. Len(word) + 1 : <<X, i, j>> \in found}
  ELSE {j \in {i + 1} : i <= Len(word) /\ word[i] = X}
Ends(g, word, found, right, i) ==
  LET behind[n \in 0 .. Len(right)] ==
        IF n = 0 THEN {i} ELSE UNION {SymbolEnds(g, word, found, k, right[n]) : k \in behind[n - 1]}
  IN  behind[Len(right)]

Spans(g, word) ==
  LET places == 1 .. Len(word) + 1
      grow[found \in SUBSET ({prod.left : prod \in Elements(g.producers)} \X places \X places)] ==
        LET more == found \cup UNION {{<<prod.left, i, j>> : j \in Ends(g, word, found, prod.right, i)} :
                                       prod \in Elements(g.producers), i \in places}
        IN  IF more = found THEN found ELSE grow[more]
  IN  grow[{}]

InLanguage(g, word) == <<g.start, 1, Len(word) + 1>> \in Spans(g, word)

\* What an LR parser can reduce for ever without shifting anything: a nonterminal that
\* derives itself and nothing more, or itself behind symbols that vanish.
Around(g, prod, k) == Vanishes(g, prod.right, 1, k - 1) /\ Vanishes(g, prod.right, k + 1, Len(prod.right))
Derives1(g) == UNION {{<<prod.left, prod.right[k]>> : k \in {j \in DOMAIN prod.right : Around(g, prod, j)}} :
                        prod \in Elements(g.producers)}
Cyclic(g) == \E e \in Derives1(g) : e[1] \in Reachable(Derives1(g), e[2])
HiddenLeftRecursive(g) ==
  \E prod \in Elements(g.producers) : \E k \in (DOMAIN prod.right) \ {1} :
    Vanishes(g, prod.right, 1, k - 1) /\ prod.left \in Reachable(BeginsWith(g), prod.right[k])

(***************************************************************************)
(* What yyparse takes for granted of a parser, a record of its tables and  *)
(* of the automaton they were made from (ParserRuntime); the table         *)
(* generator guarantees it (TablePipeline, PartsFit).                      *)
(***************************************************************************)
Retreat(item) == [item EXCEPT !.dot = @ - 1]
WholeItem(prod) == [left |-> prod.left, right |-> prod.right, dot |-> Len(prod.right)]
StateSet(c) == DOMAIN c.items
IsSequence(s) == s \in Seq(Elements(s))

AutomatonSound(c) ==
  /\ 0 \in StateSet(c) /\ DOMAIN c.next = StateSet(c)
  /\ \A item \in c.items[0] : item.dot = 0
  /\ \A s \in StateSet(c) :
       /\ StartItem(c) \in c.items[s] => s = 0
       /\ \A X \in DOMAIN c.next[s] :
            /\ c.next[s][X] \in StateSet(c) \ {0}
            /\ \A item \in c.items[c.next[s][X]] :
                 item.dot > 0 => item.right[item.dot] = X /\ Retreat(item) \in c.items[s]

TablesSound(c) ==
  /\ DOMAIN c.action = StateSet(c) /\ DOMAIN c.goto = StateSet(c)
  /\ IsSequence(c.producers)
  /\ \A prod \in Elements(c.producers) : IsSequence(prod.right)
  /\ \A s \in StateSet(c) :
       /\ \A A \in DOMAIN c.goto[s] : A \in DOMAIN c.next[s] /\ c.goto[s][A] = c.next[s][A]
       /\ \A prod \in Elements(c.producers) :
            InitialItem(prod) \in c.items[s] => prod.left \in DOMAIN c.goto[s]
       /\ \A a \in DOMAIN c.action[s] :
            LET act == c.action[s][a]
            IN  /\ act.kind = "s" => a \in DOMAIN c.next[s] /\ act.to = c.next[s][a]
                /\ act.kind = "r" => /\ act.to \in 1 .. Len(c.producers)
                                     /\ WholeItem(c.producers[act.to]) \in c.items[s]
                /\ act.kind = "acc" => a = EndMarker /\ Advance(StartItem(c)) \in c.items[s]

\* Without conflicts, no cell lacks what the items ask for: the lookaheads are closed within a
\* state and along the edges, and each item has its shift, its goto or its reduction.
LookaheadsClosed(c) ==
  /\ DOMAIN c.looks = StateSet(c) /\ <<StartItem(c), EndMarker>> \in c.looks[0]
  /\ \A s \in StateSet(c) : \A x \in c.looks[s] :
       /\ ClosureItems(c, x[1]) \X FollowingPredicts(c.first, x[1], x[2]) \subseteq c.looks[s]
       /\ ~IsComplete(x[1]) => /\ AfterDot(x[1]) \in DOMAIN c.next[s]
                               /\ <<Advance(x[1]), x[2]>> \in c.looks[c.next[s][AfterDot(x[1])]]

CellsComplete(c) ==
  \A s \in StateSet(c) :
    /\ EndMarker \notin DOMAIN c.next[s] /\ DOMAIN c.action[s] \cap c.nonterminals = {}
    /\ \A x \in c.looks[s] :
         LET wanted == IF IsComplete(x[1]) THEN x[2] ELSE AfterDot(x[1])
             act    == c.action[s][wanted]
         IN  wanted \notin c.nonterminals =>
               /\ wanted \in DOMAIN c.action[s]
               /\ ~IsComplete(x[1]) => act.kind = "s"
               /\ IsComplete(x[1]) /\ x[1].left = AugmentedStart => act.kind = "acc"
               /\ IsComplete(x[1]) /\ x[1].left # AugmentedStart =>
                    act.kind = "r" /\ WholeItem(c.producers[act.to]) = x[1]

TablesComplete(c) ==
  /\ HasFirst(c, c.first) /\ c.start \in c.nonterminals
  /\ {Epsilon, EndMarker, AugmentedStart} \cap (OwnSymbols(c) \cup c.nonterminals) = {}
  /\ \A prod \in Elements(c.producers) :
       prod.left \in c.nonterminals /\ FirstOfSequence(c.first, prod.right, 1, Epsilon) \subseteq c.first[prod.left]
  /\ LookaheadsClosed(c) /\ CellsComplete(c)

(***************************************************************************)
(* The small grammars the runs work on.  Most are the repository's own     *)
(* test grammars (seuYacc/tests/yacc/test_cases), reduced to the symbols   *)
(* that matter; the others are chosen for the case they raise.             *)
(***************************************************************************)
Rule(left, right) == [left |-> left, right |-> right]
GrammarOf(start, rules) ==
  [nonterminals |-> {rules[k].left : k \in DOMAIN rules}, producers |-> rules, start |-> start]

\* 03_first_follow_expr.y
Expr == GrammarOf("E", <<Rule("E", <<"E", "+", "T">>), Rule("E", <<"T">>),
                         Rule("T", <<"T", "*", "F">>), Rule("T", <<"F">>),
                         Rule("F", <<"(", "E", ")">>), Rule("F", <<"ID">>)>>)
\* 04_first_follow_nullable_chain.y
NullableChain == GrammarOf("S", <<Rule("S", <<"A", "B">>), Rule("A", <<>>), Rule("A", <<"a">>),
                                  Rule("B", <<>>), Rule("B", <<"b">>)>>)
\* 05_closure_lookahead.y
ClosureLookahead == GrammarOf("S", <<Rule("S", <<"A", "c">>), Rule("A", <<"B">>),
                                     Rule("B", <<"b">>), Rule("B", <<>>)>>)
\* 06_precedence_left_assoc.y
LeftAssoc == GrammarOf("S", <<Rule("S", <<"E">>), Rule("E", <<"E", "-", "E">>), Rule("E", <<"NUM">>)>>)
\* 08_reduce_reduce_order.y
ReduceReduce == GrammarOf("S", <<Rule("S", <<"A">>), Rule("S", <<"B">>), Rule("A", <<"X">>), Rule("B", <<"X">>)>>)
\* 10_generated_parser_contract.y
TwoOperators == GrammarOf("S", <<Rule("S", <<"E">>), Rule("E", <<"E", "+", "E">>), Rule("E", <<"E", "*", "E">>),
                                 Rule("E", <<"(", "E", ")">>), Rule("E", <<"ID">>)>>)

\* Canonical LR(1) states that share a core but not their lookaheads.
DoubleC == GrammarOf("S", <<Rule("S", <<"C", "C">>), Rule("C", <<"c", "C">>), Rule("C", <<"d">>)>>)
\* Assignments: a state whose reduction is only decided by propagated lookaheads.
Assign == GrammarOf("S", <<Rule("S", <<"L", "=", "R">>), Rule("S", <<"R">>),
                           Rule("L", <<"*", "R">>), Rule("L", <<"ID">>), Rule("R", <<"L">>)>>)
\* Hidden left recursion: closures that feed themselves through a nullable prefix.
HiddenLeft == GrammarOf("S", <<Rule("S", <<"N", "S", "x">>), Rule("S", <<"y">>), Rule("N", <<>>)>>)
\* LR(1) but not LALR(1).
NotLalr == GrammarOf("S", <<Rule("S", <<"a", "E", "a">>), Rule("S", <<"b", "E", "b">>),
                            Rule("S", <<"a", "F", "b">>), Rule("S", <<"b", "F", "a">>),
                            Rule("E", <<"e">>), Rule("F", <<"e">>)>>)
\* A loop of edges and a nullable tail: lookaheads return to states already processed.
RightLoop == GrammarOf("S", <<Rule("S", <<"a", "S", "T">>), Rule("S", <<"a">>), Rule("S", <<"b", "S">>),
                              Rule("T", <<"t">>), Rule("T", <<>>)>>)
\* A nonterminal that derives no sentence.
Unproductive == GrammarOf("S", <<Rule("S", <<"a">>), Rule("S", <<"B", "U", "a">>), Rule("B", <<"b">>),
                                 Rule("U", <<"u", "U">>)>>)

\* A closure that holds B with no lookahead at all, for what follows it has no sentence.
Hopeless == GrammarOf("S", <<Rule("S", <<"B", "U">>), Rule("S", <<>>), Rule("B", <<"b">>), Rule("U", <<"U", "u">>)>>)

\* The tail Z follows x y in two contexts, whose item sets differ in the number of lookaheads only
\* behind the y, by the nullable D.
SplitTail == GrammarOf("S", <<Rule("S", <<"A", "a">>), Rule("S", <<"(", "A", "b">>),
                              Rule("A", <<"x", "y", "Z">>), Rule("Z", <<"B", "D">>),
                              Rule("B", <<"z">>), Rule("D", <<"a">>), Rule("D", <<>>)>>)

\* The dangling else.
Dangling == GrammarOf("S", <<Rule("S", <<"i", "S", "e", "S">>), Rule("S", <<"i", "S">>), Rule("S", <<"x">>)>>)
\* Two reductions and a shift want the same token.
ThreeWay == GrammarOf("S", <<Rule("S", <<"A", "+">>), Rule("S", <<"B", "+">>), Rule("S", <<"n", "+", "n">>),
                             Rule("A", <<"n">>), Rule("B", <<"n">>)>>)
\* A cycle: S derives itself.
Cycle == GrammarOf("S", <<Rule("S", <<"S">>), Rule("S", <<"a">>)>>)
\* The same rule twice.
Twice == GrammarOf("S", <<Rule("S", <<"A", "A">>), Rule("A", <<"a">>), Rule("A", <<"a">>)>>)
\* Blocks with declarations: the scopes of the runtime symbol table.
Blocks == GrammarOf("unit", <<Rule("unit", <<"{", "body", "}">>), Rule("body", <<>>),
                              Rule("body", <<"body", "declaration">>), Rule("body", <<"body", "unit">>),
                              Rule("declaration", <<"INT", "IDENTIFIER", ";">>)>>)
\* A closing brace where nothing was opened.
Closing == GrammarOf("S", <<Rule("S", <<"}", "S">>), Rule("S", <<"{", "S">>), Rule("S", <<"x">>)>>)
\* One comparison without brackets: 07_precedence_nonassoc.y.
Comparison == GrammarOf("S", <<Rule("S", <<"E">>), Rule("E", <<"E", "<", "E">>), Rule("E", <<"NUM">>)>>)
\* Unary minus with %prec.
UnaryMinus == GrammarOf("E", <<Rule("E", <<"E", "-", "E">>), Rule("E", <<"E", "*", "E">>),
                               Rule("E", <<"-", "E">>), Rule("E", <<"ID">>)>>)

\* A grammar with its precedence declarations and the %prec of its rules.
Level(k, associativity, symbols) == [level |-> k, associativity |-> associativity, symbols |-> symbols]
Specified(g, declarations, prec) ==
  [nonterminals |-> g.nonterminals, producers |-> g.producers, start |-> g.start,
   declarations |-> declarations, prec |-> prec]
Plain(g) == Specified(g, <<>>, [k \in DOMAIN g.producers |-> ""])
Ranked(g, declarations) == Specified(g, declarations, [k \in DOMAIN g.producers |-> ""])

OperatorSpecifications ==
  {Ranked(LeftAssoc, <<Level(1, "left", {"-"})>>), Ranked(LeftAssoc, <<Level(1, "right", {"-"})>>),
   Ranked(Comparison, <<Level(1, "nonassoc", {"<"})>>),
   Ranked(TwoOperators, <<Level(1, "left", {"+"}), Level(2, "left", {"*"})>>),
   Ranked(TwoOperators, <<Level(1, "right", {"*"}), Level(2, "left", {"+"})>>),
   Specified(UnaryMinus, <<Level(1, "left", {"-"}), Level(2, "left", {"*"}), Level(3, "right", {"UMINUS"})>>,
             <<"", "", "UMINUS", "">>),
   Ranked(Dangling, <<Level(1, "nonassoc", {"i"}), Level(2, "nonassoc", {"e"})>>),
   Ranked(ThreeWay, <<Level(1, "left", {"+"}), Level(2, "left", {"n"})>>)}

\* Every grammar with the nonterminals S and A and, for each of the two, one or two rules
\* with right-hand sides out of words.
RuleSets(left, words) == {{Rule(left, w), Rule(left, v)} : w, v \in words}
SmallGrammars(words) ==
  {[nonterminals |-> {"S", "A"}, producers |-> Enumerate(rs) \o Enumerate(ra), start |-> "S"] :
     rs \in RuleSets("S", words), ra \in RuleSets("A", words)}
=============================================================================
