--------------------------- MODULE MCTablePipeline ---------------------------
(***************************************************************************)
(* Model checking of the way from a grammar to its tables: the catalogue,  *)
(* operator grammars with their declarations, and every grammar with two   *)
(* nonterminals built from a few right-hand sides.                         *)
(***************************************************************************)
EXTENDS TablePipeline

MCTextOrder == <<"(", ")", "*", "+", "-", ";", "<", "=", "A", "B", "C", "D", "E", "F", "ID", "IDENTIFIER", "INT", "L",
                 "N", "NUM", "R", "S", "T", "U", "X", "Z", "a", "b", "body", "c", "d", "declaration", "e", "i", "n",
                 "t", "u", "unit", "x", "y", "z", "{", "}">>

MCCatalogue == {Expr, NullableChain, ClosureLookahead, LeftAssoc, ReduceReduce, TwoOperators, DoubleC, Assign,
                HiddenLeft, NotLalr, RightLoop, Unproductive, Hopeless, SplitTail, Dangling, ThreeWay, Twice, Blocks, Cycle}
MCWords     == {<<>>, <<"a">>, <<"A">>, <<"S", "A">>, <<"A", "a">>}
\* Two reductions against a shift, of which one or both tie with the token.
TiedTwice == {Ranked(ThreeWay, <<Level(1, "nonassoc", {"+", "n"})>>),
              Specified(ThreeWay, <<Level(1, "nonassoc", {"+"}), Level(2, "left", {"n"})>>, <<"", "", "", "+", "">>)}
MCGrammars  == {Plain(g) : g \in MCCatalogue \cup SmallGrammars(MCWords)} \cup OperatorSpecifications \cup TiedTwice

\* TLC tabulates a definition once, but not one that a cfg gives to a constant.
FirstSetsOf  == Tabulated([g \in MCGrammars |-> Tabulated(FirstTable(g))])
FollowSetsOf == Tabulated([g \in MCGrammars |-> FollowByAdjacency(g)])
CoresOfAll   == Tabulated([g \in MCGrammars |-> Lr0States(g)])
StatesOf     == Tabulated([g \in MCGrammars |-> Lr1States(g, FirstSetsOf[g])])
MCFirst      == FirstSetsOf
MCFollow     == FollowSetsOf
MCCores      == CoresOfAll
MCCanonical  == StatesOf
=============================================================================
