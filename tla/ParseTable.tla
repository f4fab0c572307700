----------------------------- MODULE ParseTable -----------------------------
(***************************************************************************)
(* buildLR1Table (parse_table.cpp): the rows state by state, in each row   *)
(* first the edges and then the items, one step an iteration.              *)
(***************************************************************************)
EXTENDS TableRows

VARIABLES
  grammar, automaton,   \* the arguments
  table,      \* state |-> row
  state,      \* the state whose row is written
  turn,       \* the edge or the item that comes next
  filling     \* "idle", "edges", "items", "done"

tableVars == <<grammar, automaton, table, state, turn, filling>>

\* Before the call.
TableInit ==
  grammar = <<>> /\ automaton = <<>> /\ table = <<>> /\ state = 0 /\ turn = 1 /\ filling = "idle"

\* The call for the grammar g and the automaton c.
BuildTable(g, c) ==
  /\ filling = "idle" /\ filling' = "edges"
  /\ grammar' = g /\ automaton' = c
  /\ table' = [s \in States(c) |-> EmptyRow]
  /\ UNCHANGED <<state, turn>>

EdgesHere == automaton.edges[state]
ItemsHere == automaton.items[state]

ReadEdge ==
  /\ filling = "edges" /\ turn <= Len(EdgesHere)
  /\ table' = [table EXCEPT ![state] = AfterEdge(grammar, @, EdgesHere[turn])]
  /\ turn' = turn + 1
  /\ UNCHANGED <<grammar, automaton, state, filling>>

TurnToItems ==
  /\ filling = "edges" /\ turn > Len(EdgesHere)
  /\ filling' = "items" /\ turn' = 1
  /\ UNCHANGED <<grammar, automaton, table, state>>

ReadItem ==
  /\ filling = "items" /\ turn <= Len(ItemsHere)
  /\ table' = [table EXCEPT ![state] = AfterItem(grammar, @, ItemsHere[turn])]
  /\ turn' = turn + 1
  /\ UNCHANGED <<grammar, automaton, state, filling>>

NextRow ==
  /\ filling = "items" /\ turn > Len(ItemsHere) /\ state + 1 < automaton.states
  /\ state' = state + 1 /\ filling' = "edges" /\ turn' = 1
  /\ UNCHANGED <<grammar, automaton, table>>

FinishTable ==
  /\ filling = "items" /\ turn > Len(ItemsHere) /\ state + 1 >= automaton.states
  /\ filling' = "done"
  /\ UNCHANGED <<grammar, automaton, table, state, turn>>

TableNext == ReadEdge \/ TurnToItems \/ ReadItem \/ NextRow \/ FinishTable
-----------------------------------------------------------------------------
(***************************************************************************)
(* What buildLR1Table takes for granted of its arguments: states numbered  *)
(* from 0, an item of the augmented production nowhere among the others,   *)
(* and levels that can be compared.                                        *)
(***************************************************************************)
IsReadable(g, c) ==
  /\ g.producers \in Seq(Elements(g.producers)) /\ \A prod \in Elements(g.producers) : prod.left # AugmentedStart
  /\ g.declarations \in Seq(Elements(g.declarations)) /\ \A d \in Elements(g.declarations) : d.level \in Int
  /\ c.states \in Nat \ {0}
  /\ \A s \in States(c) : c.edges[s] \in Seq(Elements(c.edges[s])) /\ c.items[s] \in Seq(ItemsOf(c, s))

\* The actions that lay claim to a cell: by edges, by items, by the augmented production.
Shifts(g, edges, a) == {ShiftTo(e[2]) : e \in {d \in edges : d[1] = a /\ IsTerminalSymbol(g, a)}}
Reductions(g, items, a) ==
  {ReduceBy(k) : k \in {j \in DOMAIN g.producers :
     /\ \A l \in 1 .. j - 1 : ~Produces(g.producers[l], g.producers[j])
     /\ \E x \in items : IsComplete(x[1]) /\ x[2] = a /\ Produces(g.producers[j], x[1])}}
Accepts(items, a) ==
  {act \in {AcceptIt} : \E x \in items : IsComplete(x[1]) /\ IsAccept(x) /\ x[2] = a}

\* What %prec, %left, %right and %nonassoc say of the shifts against each reduction.
Verdicts(g, shifts, reduces, a) == {ByPrecedence(g, s, r, a) : s \in shifts, r \in reduces}

Lowest(reduces) == {r \in reduces : \A q \in reduces : r.to <= q.to}

\* The entry that these claims give a cell, whatever the order of the writes: accept before
\* all else; the lowest production among reductions; a shift unless one of the reductions
\* displaces it; an error that %nonassoc has made stays one, whatever is written later.
Decided(g, action, shifts, reduces, accepts, a) ==
  LET verdicts == Verdicts(g, shifts, reduces, a)
      Holds(allowed) == action[a] \in allowed
  IN  /\ a \in DOMAIN action <=> shifts \cup reduces \cup accepts # {}
      /\ accepts # {} => Holds(accepts)
      /\ accepts = {} =>
           /\ shifts = {} /\ reduces # {} => Holds(Lowest(reduces))
           /\ shifts # {} /\ verdicts \subseteq shifts => Holds(shifts)
           /\ verdicts # {} /\ verdicts \subseteq reduces => Holds(Lowest(reduces))
           /\ verdicts = {ErrorEntry} => Holds({ErrorEntry})
           /\ ~ verdicts \subseteq shifts => Holds(reduces \cup (verdicts \cap {ErrorEntry}))

\* The report of conflicts names the cells that different claims are laid to, and no other;
\* but accept displaces a reduction without a word.
Reported(conflicts, shifts, reduces, accepts, a) ==
  LET contested == \E c, d \in shifts \cup reduces \cup accepts : c # d
  IN  /\ a \in conflicts => contested
      /\ contested /\ accepts = {} => a \in conflicts

\* GOTO leads where the edges on nonterminals lead.
Routed(g, goto, edges) ==
  /\ DOMAIN goto = {e[1] : e \in {d \in edges : ~IsTerminalSymbol(g, d[1])}}
  /\ \A A \in DOMAIN goto : \E e \in edges : e[1] = A /\ goto[A] = e[2]

\* Every cell holds what its claims and the declarations say (docs/ALGORITHMS.md 7), and the
\* contested ones are reported.
CellsExact ==
  filling = "done" =>
    \A s \in States(automaton) :
      LET edges == Elements(automaton.edges[s])
          items == ItemsOf(automaton, s)
      IN  /\ Routed(grammar, table[s].goto, edges)
          /\ \A a \in automaton.tokens :
               LET shifts  == Shifts(grammar, edges, a)
                   reduces == Reductions(grammar, items, a)
                   accepts == Accepts(items, a)
               IN  /\ Decided(grammar, table[s].action, shifts, reduces, accepts, a)
                   /\ Reported(table[s].conflicts, shifts, reduces, accepts, a)
=============================================================================
