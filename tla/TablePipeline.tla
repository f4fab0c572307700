---------------------------- MODULE TablePipeline ----------------------------
(***************************************************************************)
(* From a grammar to the tables of its parser (SeuYaccDriver::generate and *)
(* runSelfTests, parse_table.cpp): the FIRST and FOLLOW sets, the automaton*)
(* that is built with them, and the tables that are made of it.  A         *)
(* canonical automaton goes to the table builder as it is, or merged by    *)
(* LALRConverter; an LR(0) automaton gets its lookaheads by propagation    *)
(* before, which is one step here and a module of its own elsewhere        *)
(* (LalrPropagation).                                                      *)
(***************************************************************************)
EXTENDS FirstFollow, LrAutomaton, LalrConverter, ParseTable, GrammarReference

CONSTANTS   \* what the references give for each grammar, tabulated
  FirstSets, FollowSets,      \* by reachability
  CoreStates,                 \* its LR(0) item sets
  CanonicalStates             \* its canonical LR(1) item sets

ASSUME ReferenceAssumption ==
  \A g \in Grammars :
    /\ FirstSets[g] = FirstTable(g) /\ FollowSets[g] = FollowByAdjacency(g)
    /\ CoreStates[g] = Lr0States(g)
    /\ CanonicalStates[g] = Lr1States(g, FirstTable(g))
\* The names the generator reserves are nobody's.
ASSUME ReservedAssumption ==
  \A g \in Grammars : {Epsilon, AugmentedStart} \cap (SymbolsIn(g) \cup g.nonterminals) = {}
ASSUME OrderAssumption ==
  \A g \in Grammars : SymbolsIn(g) \cup {g.start} \subseteq Elements(TextOrder)
ASSUME DeclarationsAssumption ==
  \A g \in Grammars :
    g.declarations \in Seq(Elements(g.declarations)) /\ \A d \in Elements(g.declarations) : d.level \in Int

pipelineVars == <<vars, builderVars, converterVars, tableVars>>

PipelineInit == Init /\ BuilderInit /\ ConverterInit /\ TableInit

ComputeSets == Next /\ UNCHANGED <<builderVars, converterVars, tableVars>>

\* buildLALRPDA makes an LR(0) automaton, buildCanonicalPDA one with lookaheads.
StartBuild ==
  /\ pc = "done"
  /\ \E isCanonical \in BOOLEAN :
       BuildAutomaton([nonterminals |-> input.nonterminals, producers |-> input.producers,
                       start |-> input.start, first |-> first, canonical |-> isCanonical])
  /\ UNCHANGED <<vars, converterVars, tableVars>>
Build == BuilderNext /\ UNCHANGED <<vars, converterVars, tableVars>>

StartConversion ==
  /\ building = "done" /\ build.canonical /\ filling = "idle"
  /\ ConvertAutomaton([items |-> nodes, edges |-> [n \in DOMAIN nodes |-> Elements(nodeEdges[n])]])
  /\ UNCHANGED <<vars, builderVars, tableVars>>
Convert == ConverterNext /\ UNCHANGED <<vars, builderVars, tableVars>>

\* An automaton as the table builder reads it.
Readable(items, edgesOf) ==
  [states |-> Cardinality(DOMAIN items), tokens |-> TokensOf(input), edges |-> edgesOf,
   items |-> [n \in DOMAIN items |-> Enumerate(items[n])]]
\* The LR(0) automaton as the propagation takes it (LalrPropagation).
HandedOver ==
  [nonterminals |-> input.nonterminals, producers |-> input.producers, start |-> input.start, first |-> first,
   tokens |-> TokensOf(input), states |-> Cardinality(DOMAIN nodes), edges |-> nodeEdges,
   items |-> [n \in DOMAIN nodes |-> Enumerate(CoresOf(nodes[n]))]]
\* Where the propagation of the automaton c ends, which is LALR(1) by its definition
\* (LalrPropagation, ExactlyLalr): the facts <<node, item, lookahead>>, and a set for each node.
Propagated(c, facts) == [n \in DOMAIN c.items |-> {<<f[2], f[3]>> : f \in {h \in facts : h[1] = n}}]
MergedEdges(n) ==
  LET order == InTextOrder(DOMAIN mergedEdges[n])
  IN  [k \in DOMAIN order |-> <<order[k], mergedEdges[n][order[k]]>>]

FillFrom(c) == BuildTable(input, c) /\ UNCHANGED <<vars, builderVars, converterVars>>
FillFromCanonical ==
  /\ building = "done" /\ build.canonical /\ converting = "idle"
  /\ \E c \in {Readable(nodes, nodeEdges)} : FillFrom(c)
FillFromMerged ==
  /\ converting = "done"
  /\ \E c \in {Readable(merged, [n \in DOMAIN merged |-> MergedEdges(n)])} : FillFrom(c)
FillFromPropagated ==
  /\ building = "done" /\ ~build.canonical /\ filling = "idle"
  /\ \E c \in {HandedOver} : \E facts \in {MergedCanonical(c)} :
       \E d \in {Readable(Propagated(c, facts), nodeEdges)} : FillFrom(d)
Fill == TableNext /\ UNCHANGED <<vars, builderVars, converterVars>>

PipelineNext ==
  \/ ComputeSets \/ StartBuild \/ Build \/ StartConversion \/ Convert
  \/ FillFromCanonical \/ FillFromMerged \/ FillFromPropagated \/ Fill

PipelineSpec == PipelineInit /\ [][PipelineNext]_pipelineVars
FairPipeline == PipelineSpec /\ WF_pipelineVars(PipelineNext)   \* the loops run until they return
-----------------------------------------------------------------------------
\* The parser that emitParser writes, with the automaton its tables were made from, as
\* ParserRuntime takes it.
Emitted ==
  LET items == IF converting = "done" THEN merged ELSE nodes
      edges(s) == Elements(automaton.edges[s])
  IN  [nonterminals |-> grammar.nonterminals, producers |-> grammar.producers, start |-> grammar.start, first |-> first,
       items  |-> [s \in States(automaton) |-> CoresOf(items[s])],
       looks  |-> [s \in States(automaton) |-> ItemsOf(automaton, s)],
       next   |-> [s \in States(automaton) |-> [X \in {e[1] : e \in edges(s)} |-> (CHOOSE e \in edges(s) : e[1] = X)[2]]],
       action |-> [s \in States(automaton) |-> table[s].action],
       goto   |-> [s \in States(automaton) |-> table[s].goto]]

\* No two entries competed for a cell, be it reported or not; and no symbol is named like the
\* end marker.
Uncontested ==
  /\ EndMarker \notin SymbolsIn(grammar) \cup grammar.nonterminals
  /\ \A s \in States(automaton) :
       /\ table[s].conflicts = {}
       /\ Accepts(ItemsOf(automaton, s), EndMarker) # {} => Reductions(grammar, ItemsOf(automaton, s), EndMarker) = {}

\* Each part hands over what the next one takes for granted.  A merged automaton may have lost
\* lookaheads (SplitTail), so nothing is promised of the completeness of its tables.
PartsFit ==
  /\ building = "done" /\ ~build.canonical => IsCore(HandedOver)
  /\ converting # "idle" => IsCanonical(canonical)
  /\ filling # "idle" => IsReadable(grammar, automaton)
  /\ filling = "done" => /\ AutomatonSound(Emitted) /\ TablesSound(Emitted)
                         /\ converting = "idle" /\ Uncontested => TablesComplete(Emitted)

\* FIRST holds what a derivation can begin with, and <epsilon> exactly for the nonterminals
\* that derive nothing; FOLLOW what can stand next to a nonterminal in a sentential form:
\* not a symbol more or less (the loops of lr1_pda.cpp 348-470).
SetsExact ==
  /\ pc # "first" => first = FirstSets[input]
  /\ pc = "done" => follow = FollowSets[input]

\* The item sets of the textbook collection.
Collection ==
  IF build.canonical THEN CanonicalStates[input]
  ELSE {items \X {NoLookahead} : items \in CoreStates[input]}

\* The loop finds every reachable item set and no other, each of them once, and every edge
\* (lr1_pda.cpp 298-345, 608-676): two nodes with one item set would be two rows of the
\* parse table where one is meant.  What the propagation assumes of an LR(0) automaton holds,
\* and so does what the converter assumes of a canonical one and the table builder of all.
CollectionExact ==
  building = "done" =>
    /\ {nodes[n] : n \in DOMAIN nodes} = Collection
    /\ Cardinality(DOMAIN nodes) = Cardinality(Collection)
    /\ NoNodeForgotten
    /\ PartsFit

\* Whatever the grammar, the tables are finished.
TablesDone == <>(filling = "done")
=============================================================================
