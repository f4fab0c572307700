----------------------------- MODULE LrAutomaton -----------------------------
(***************************************************************************)
(* The construction of the state automaton (lr1_pda.cpp): buildLR0Automaton*)
(* over LR(0) item sets and buildCanonicalPDA over LR(1) item sets.  Both  *)
(* are the same breadth-first loop: take a node from the queue, compute    *)
(* the goto set for each symbol after a dot in text order, look it up by   *)
(* its key among the known nodes, add it if it is new, record the edge.    *)
(*                                                                         *)
(* A build is a record with the fields of a grammar, first (its FIRST      *)
(* sets) and canonical (which of the two constructions).  Items are pairs  *)
(* <<core item, lookahead>>; an LR(0) item has the lookahead NoLookahead.  *)
(* One step is one symbol of one node.                                     *)
(***************************************************************************)
EXTENDS Grammar

CONSTANT TextOrder    \* all symbols, in the order of std::string

ASSUME TextOrderAssumption == TextOrder \in Seq(STRING)

NoLookahead == "<lr0>"

VARIABLES
  build,       \* the arguments
  nodes,       \* node number |-> its set of items
  nodeEdges,   \* node number |-> sequence of <<symbol, target>>, nextnode in key order
  work,        \* the FIFO queue of nodes
  current,     \* the node being expanded
  waiting,     \* its symbols that are still to be expanded
  building     \* "idle", "pop", "expand", "done"

builderVars == <<build, nodes, nodeEdges, work, current, waiting, building>>

Numbers == DOMAIN nodes
ClosureOf(b, kernel) ==
  IF b.canonical THEN Lr1Closure(b, b.first, kernel)
  ELSE Lr0Closure(b, CoresOf(kernel)) \X {NoLookahead}
GotoOf(b, items, X) ==
  ClosureOf(b, {<<Advance(x[1]), x[2]>> : x \in {y \in items : DotBefore(y[1], X)}})
StartItems(b) ==
  ClosureOf(b, {<<StartItem(b), IF b.canonical THEN EndMarker ELSE NoLookahead>>})

\* std::set and std::map iterate over symbols in text order.
InTextOrder(set) ==
  LET listed[k \in 0 .. Len(TextOrder)] ==   \* those among the first k
        IF k = 0 THEN <<>>
        ELSE IF TextOrder[k] \in set THEN Append(listed[k - 1], TextOrder[k]) ELSE listed[k - 1]
  IN  listed[Len(TextOrder)]
SymbolsInOrder(items) == InTextOrder(SymbolsAfterDots(CoresOf(items)))

\* Before the call.
BuilderInit ==
  /\ build = <<>> /\ nodes = <<>> /\ nodeEdges = <<>> /\ work = <<>>
  /\ current = 0 /\ waiting = <<>> /\ building = "idle"

\* The call with the arguments b.
BuildAutomaton(b) ==
  /\ building = "idle" /\ building' = "pop"
  /\ build' = b
  /\ nodes' = [n \in {0} |-> StartItems(b)]
  /\ nodeEdges' = [n \in {0} |-> <<>>]
  /\ work' = <<0>>
  /\ UNCHANGED <<current, waiting>>

\* Mutant of Pop: the front of the queue is read and not removed.
MutPop ==
  /\ building = "pop" /\ work # <<>>
  /\ current' = Head(work) /\ waiting' = SymbolsInOrder(nodes[Head(work)])
  /\ building' = "expand"
  /\ UNCHANGED <<build, nodes, nodeEdges, work>>

Pop ==
  /\ building = "pop" /\ work # <<>>
  /\ current' = Head(work) /\ work' = Tail(work)
  /\ waiting' = SymbolsInOrder(nodes[Head(work)])
  /\ building' = "expand"
  /\ UNCHANGED <<build, nodes, nodeEdges>>

\* Mutant of Known: only the cores are compared.
MutCoresOnly(target) == {n \in Numbers : CoresOf(nodes[n]) = CoresOf(target)}

Known(target) == {n \in Numbers : nodes[n] = target}

Fresh == Cardinality(Numbers)
\* nextnode is a map: an entry that is there already is not there twice.
RecordEdge(f, n) ==
  [f EXCEPT ![current] = IF <<Head(waiting), n>> \in Elements(@) THEN @ ELSE Append(@, <<Head(waiting), n>>)]

ExpandKnown(target) ==
  /\ \E n \in Known(target) : nodeEdges' = RecordEdge(nodeEdges, n)
  /\ UNCHANGED <<nodes, work>>

ExpandNew(target) ==
  /\ Known(target) = {}
  /\ nodes' = [n \in Numbers \cup {Fresh} |-> IF n = Fresh THEN target ELSE nodes[n]]
  /\ nodeEdges' = RecordEdge([n \in Numbers \cup {Fresh} |-> IF n = Fresh THEN <<>> ELSE nodeEdges[n]], Fresh)
  /\ work' = Append(work, Fresh)

Expand ==
  /\ building = "expand" /\ waiting # <<>>
  /\ \E target \in {GotoOf(build, nodes[current], Head(waiting))} : ExpandKnown(target) \/ ExpandNew(target)
  /\ waiting' = Tail(waiting)
  /\ UNCHANGED <<build, current, building>>

FinishNode ==
  /\ building = "expand" /\ waiting = <<>>
  /\ building' = "pop"
  /\ UNCHANGED <<build, nodes, nodeEdges, work, current, waiting>>

FinishBuild ==
  /\ building = "pop" /\ work = <<>>
  /\ building' = "done"
  /\ UNCHANGED <<build, nodes, nodeEdges, work, current, waiting>>

BuilderNext == Pop \/ Expand \/ FinishNode \/ FinishBuild
-----------------------------------------------------------------------------
EdgesFrom(n) == Elements(nodeEdges[n])

\* A node that is neither queued nor being expanded has all its edges, each to its goto set.
NoNodeForgotten ==
  \A n \in Numbers :
    n \notin Elements(work) /\ (n = current => building # "expand") =>
      /\ {e[1] : e \in EdgesFrom(n)} = SymbolsAfterDots(CoresOf(nodes[n]))
      /\ \A e \in EdgesFrom(n) : nodes[e[2]] = GotoOf(build, nodes[n], e[1])
=============================================================================
