------------------------ MODULE MCLalrPropagation ------------------------
(***************************************************************************)
(* Model checking of LalrPropagation on the catalogue's grammars.          *)
(***************************************************************************)
EXTENDS LalrPropagation

MCCatalogue == {Expr, NullableChain, ClosureLookahead, LeftAssoc, ReduceReduce, TwoOperators,
                 DoubleC, Assign, HiddenLeft, NotLalr, RightLoop}
MCWords == {<<>>, <<"a">>, <<"A">>, <<"S", "A">>, <<"A", "a">>}
MCGrammars  == MCCatalogue \cup SmallGrammars(MCWords)

\* TLC tabulates a definition once, but not one that a cfg gives to a constant.
MCAutomata == Tabulated([g \in MCGrammars |-> AutomatonOf(g)])
MCCores    == MCAutomata
=============================================================================
