------------------------------ MODULE TableRows ------------------------------
(***************************************************************************)
(* The pure part of ParseTableBuilder (parse_table.cpp): what a row of the *)
(* ACTION and GOTO tables is, and how a conflict is resolved.              *)
(*                                                                         *)
(* buildLR1Table writes the cells of a row one after the other: first the  *)
(* shifts and the entries of GOTO, in the order of nextnode, then the      *)
(* reductions in the order of the state's items.  Whoever comes second to  *)
(* a cell of ACTION goes through resolveConflict.                          *)
(*                                                                         *)
(* Here a grammar has two more fields: prec, for each production the       *)
(* symbol of its %prec or NoSymbol, and declarations, the sequence of      *)
(* precedence declarations [level, associativity, symbols].  An automaton  *)
(* has items (state |-> sequence of <<core item, lookahead>>) and edges    *)
(* (state |-> sequence of <<symbol, target>>).                             *)
(***************************************************************************)
EXTENDS Grammar

NoSymbol == ""

ShiftTo(s)  == [kind |-> "s", to |-> s]
ReduceBy(k) == [kind |-> "r", to |-> k]    \* productions are numbered from 1 here
AcceptIt    == [kind |-> "acc", to |-> 0]
ErrorEntry  == [kind |-> "err", to |-> 0]

IsTerminalSymbol(g, X) == ~IsNonterminal(g, X)

FirstIndex(set) == CHOOSE k \in set : \A j \in set : k <= j
LastIndex(set)  == CHOOSE k \in set : \A j \in set : j <= k

Produces(prod, item) == prod.left = item.left /\ prod.right = item.right

\* The production an item belongs to, the first of equal ones; 0 if there is none.
ProductionIndex(g, item) ==
  LET same == {k \in DOMAIN g.producers : Produces(g.producers[k], item)}
  IN  IF same = {} THEN 0 ELSE FirstIndex(same)

\* %prec, or else the last terminal of the right-hand side.
ProductionPrecedenceSymbol(g, k) ==
  LET right == g.producers[k].right
      terminals == {j \in DOMAIN right : IsTerminalSymbol(g, right[j])}
  IN  CASE g.prec[k] # NoSymbol -> g.prec[k]
        [] g.prec[k] = NoSymbol /\ terminals # {} -> right[LastIndex(terminals)]
        [] OTHER -> NoSymbol

\* The first declaration that names the symbol; level -1 without one.
PrecedenceOf(g, X) ==
  LET naming == {d \in DOMAIN g.declarations : X \in g.declarations[d].symbols}
  IN  IF naming = {} THEN [level |-> -1, associativity |-> ""]
      ELSE g.declarations[FirstIndex(naming)]

\* Mutant of ByPrecedence: a tie is decided before the associativity is asked.
MutByPrecedence(g, shift, reduce, a) ==
  LET token == PrecedenceOf(g, a)
      prod  == PrecedenceOf(g, ProductionPrecedenceSymbol(g, reduce.to))
  IN  IF token.level >= prod.level \/ prod.level < 0 \/ token.level < 0 THEN shift ELSE reduce

\* The precedence of the token against that of the production.
Prefer(token, prod, shift, reduce) ==
  LET known == token.level >= 0 /\ prod.level >= 0
  IN  CASE ~known \/ token.level > prod.level -> shift
        [] known /\ token.level < prod.level -> reduce
        [] known /\ token.level = prod.level /\ token.associativity = "left" -> reduce
        [] known /\ token.level = prod.level /\ token.associativity = "right" -> shift
        [] OTHER -> ErrorEntry

\* A shift and a reduction compete for the lookahead a.
ByPrecedence(g, shift, reduce, a) ==
  Prefer(PrecedenceOf(g, a), PrecedenceOf(g, ProductionPrecedenceSymbol(g, reduce.to)), shift, reduce)

\* Mutant of ResolveConflict: of two reductions the later one stays.
MutResolveConflict(g, existing, incoming, a) ==
  CASE existing.kind = "s" /\ incoming.kind = "r" -> ByPrecedence(g, existing, incoming, a)
    [] existing.kind = "r" /\ incoming.kind = "s" -> ByPrecedence(g, incoming, existing, a)
    [] OTHER -> incoming

\* Two different entries for the same cell.
ResolveConflict(g, existing, incoming, a) ==
  CASE existing.kind = "s" /\ incoming.kind = "r" -> ByPrecedence(g, existing, incoming, a)
    [] existing.kind = "r" /\ incoming.kind = "s" -> ByPrecedence(g, incoming, existing, a)
    [] existing.kind = "r" /\ incoming.kind = "r" ->
         (IF existing.to <= incoming.to THEN existing ELSE incoming)
    [] OTHER -> existing

\* One write into a row: a free cell is taken; an equal entry changes nothing; accept
\* overwrites without asking; everything else is a conflict, resolved and recorded.
Write(g, row, a, incoming) ==
  CASE a \notin DOMAIN row.action \/ incoming.kind = "acc" ->
         [row EXCEPT !.action = [b \in DOMAIN row.action \cup {a} |->
                                   IF b = a THEN incoming ELSE row.action[b]]]
    [] a \in DOMAIN row.action /\ incoming.kind # "acc" /\ row.action[a] = incoming -> row
    [] OTHER -> [row EXCEPT !.action[a] = ResolveConflict(g, @, incoming, a),
                            !.conflicts = @ \cup {a}]

\* The loop over the edges of a state: a shift for one on a terminal, else an entry of GOTO.
AfterEdge(g, row, e) ==
  IF IsTerminalSymbol(g, e[1]) THEN Write(g, row, e[1], ShiftTo(e[2]))
  ELSE [row EXCEPT !.goto = [A \in DOMAIN row.goto \cup {e[1]} |-> IF A = e[1] THEN e[2] ELSE row.goto[A]]]

IsAccept(x) == x[1].left = AugmentedStart /\ x[2] = EndMarker

\* The loop over its items: accept or a reduction for a complete one, unless it is no
\* production of the grammar.
AfterItem(g, row, x) ==
  CASE IsComplete(x[1]) /\ IsAccept(x) -> Write(g, row, EndMarker, AcceptIt)
    [] IsComplete(x[1]) /\ ~IsAccept(x) /\ ProductionIndex(g, x[1]) > 0 ->
         Write(g, row, x[2], ReduceBy(ProductionIndex(g, x[1])))
    [] OTHER -> row

EmptyRow == [action |-> [a \in {} |-> ErrorEntry], goto |-> [A \in {} |-> 0], conflicts |-> {}]
RowOf(g, c, s) ==
  LET edges == c.edges[s]
      items == c.items[s]
      overEdges[k \in 0 .. Len(edges)] == IF k = 0 THEN EmptyRow ELSE AfterEdge(g, overEdges[k - 1], edges[k])
      overItems[k \in 0 .. Len(items)] ==
        IF k = 0 THEN overEdges[Len(edges)] ELSE AfterItem(g, overItems[k - 1], items[k])
  IN  overItems[Len(items)]
=============================================================================
