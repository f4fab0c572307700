------------------------------ MODULE Grammar ------------------------------
(***************************************************************************)
(* The vocabulary of seuYacc's grammar tables: symbols, productions, items *)
(* and the pure helpers of lr1_pda.cpp that the construction algorithms    *)
(* are written with.                                                       *)
(*                                                                         *)
(* The C++ keeps one grammar in globals of namespace seu_yacc; here it is  *)
(* a record g with fields                                                  *)
(*   nonterminals : the set of left-hand sides registered by the driver,   *)
(*   producers    : the productions in rule order, [left, right] each,     *)
(*   start        : the start symbol.                                      *)
(* Items are structural, as in the code: [left, right, dot] for a          *)
(* CoreItem, with a further field predict for an ITEM.  The code orders    *)
(* items and symbols by their text; a set is used here wherever that order *)
(* does not matter, and a sequence supplied by the model where it does.    *)
(***************************************************************************)
EXTENDS Integers, Sequences, FiniteSets

Epsilon        == "<epsilon>"
EndMarker      == "$"
AugmentedStart == "__SEU_YACC_AUGMENTED_START__"

Elements(s) == {s[k] : k \in DOMAIN s}

IsNonterminal(g, X) == X \in g.nonterminals \/ X = AugmentedStart

AugmentedProduction(g) == [left |-> AugmentedStart, right |-> <<g.start>>]
AllProductions(g)      == {AugmentedProduction(g)} \cup Elements(g.producers)
ProductionsOf(g, X)    == {prod \in AllProductions(g) : prod.left = X}

\* The symbols with an entry in first_sets, and those that productions are made of.
Names(g)      == g.nonterminals \cup {AugmentedStart}
OwnSymbols(g) == UNION {Elements(prod.right) : prod \in AllProductions(g)}

InitialItem(prod)   == [left |-> prod.left, right |-> prod.right, dot |-> 0]
StartItem(g)     == InitialItem(AugmentedProduction(g))
IsComplete(item) == item.dot >= Len(item.right)
AfterDot(item)   == item.right[item.dot + 1]
Advance(item)    == [item EXCEPT !.dot = @ + 1]
DotBefore(item, X)     == ~IsComplete(item) /\ AfterDot(item) = X
SymbolsAfterDots(items) == {AfterDot(item) : item \in {it \in items : ~IsComplete(it)}}
\* The core items of a set of pairs <<core item, lookahead>>.
CoresOf(items) == {x[1] : x \in items}
LookaheadsOf(items) == {x[2] : x \in items}

(***************************************************************************)
(* FIRST(seq[from ..] la): the sequence is scanned while its symbols are   *)
(* nullable, and only a completely nullable rest lets the lookahead in.  A *)
(* symbol with no FIRST entry stands for itself.                           *)
(***************************************************************************)
FirstOf(fst, X) == IF X \in DOMAIN fst THEN fst[X] ELSE {X}
Nullable(fst, X) == Epsilon \in FirstOf(fst, X)

FirstOfSequence(fst, seq, from, la) ==
  {b \in UNION {FirstOf(fst, seq[k]) : k \in from .. Len(seq)} :
     /\ b # Epsilon
     /\ \E k \in from .. Len(seq) : /\ b \in FirstOf(fst, seq[k])
                                    /\ \A j \in from .. k - 1 : Nullable(fst, seq[j])}
  \cup {b \in {la} : \A k \in from .. Len(seq) : Nullable(fst, seq[k])}

(***************************************************************************)
(* One closure step from one item: the initial items of the productions of *)
(* the nonterminal after its dot (LR(0)), each with every lookahead that   *)
(* can follow that nonterminal in the item (LR(1)).                        *)
(***************************************************************************)
ClosureItems(g, item) ==
  IF IsComplete(item) \/ ~IsNonterminal(g, AfterDot(item)) THEN {}
  ELSE {InitialItem(prod) : prod \in ProductionsOf(g, AfterDot(item))}

FollowingPredicts(fst, item, la) ==
  IF IsComplete(item) THEN {} ELSE FirstOfSequence(fst, item.right, item.dot + 2, la)

\* The closure loops of the code run a work list until nothing is new.
Lr0Closure(g, kernel) ==
  LET left == {prod.left : prod \in AllProductions(g)}
      grow[items \in SUBSET [left : left, right : {prod.right : prod \in AllProductions(g)}, dot : Nat]] ==
        LET more == items \cup UNION {ClosureItems(g, item) : item \in items}
        IN  IF more = items THEN items ELSE grow[more]
  IN  grow[kernel]

Lr0Goto(g, items, X) == Lr0Closure(g, {Advance(item) : item \in {it \in items : DotBefore(it, X)}})

\* An LR(1) item as the pair of its core and its lookahead.
Lr1Closure(g, fst, kernel) ==
  LET cores == [left : {prod.left : prod \in AllProductions(g)},
                right : {prod.right : prod \in AllProductions(g)}, dot : Nat]
      lookaheads == LookaheadsOf(kernel) \cup UNION {Elements(prod.right) : prod \in AllProductions(g)}
      grow[items \in SUBSET (cores \X lookaheads)] ==
        LET more == items \cup
              UNION {ClosureItems(g, x[1]) \X FollowingPredicts(fst, x[1], x[2]) : x \in items}
        IN  IF more = items THEN items ELSE grow[more]
  IN  grow[kernel]

Lr1Goto(g, fst, items, X) ==
  Lr1Closure(g, fst, {<<Advance(x[1]), x[2]>> : x \in {y \in items : DotBefore(y[1], X)}})

(***************************************************************************)
(* Automata as records c: the fields of the grammar, and                   *)
(*   first  : the FIRST sets,                                              *)
(*   tokens : the terminals and the end marker,                            *)
(*   states : the number of states, numbered from 0,                       *)
(*   items  : for each state the sequence of its LR(0) items in text order,*)
(*   edges  : for each state the sequence of <<symbol, target>> pairs in   *)
(*            the order of the map nextnode.                               *)
(***************************************************************************)
States(c)     == 0 .. c.states - 1
ItemsOf(c, s) == Elements(c.items[s])
Slots(c)      == UNION {{s} \X ItemsOf(c, s) : s \in States(c)}
EdgeSymbol(c, s, e) == c.edges[s][e][1]
EdgeTarget(c, s, e) == c.edges[s][e][2]

(***************************************************************************)
(* The types that the algorithms take for granted: the productions in a    *)
(* sequence, made of sequences; FIRST sets of the grammar's own symbols.   *)
(***************************************************************************)
HasProducers(g) ==
  /\ g.producers \in Seq(Elements(g.producers))
  /\ \A prod \in Elements(g.producers) : prod.right \in Seq(Elements(prod.right))
HasFirst(g, fst) == HasProducers(g) /\ fst \in [Names(g) -> SUBSET (OwnSymbols(g) \cup {Epsilon})]

(***************************************************************************)
(* What buildLR0Automaton guarantees of the automaton it hands over: item  *)
(* lists closed under ClosureItems, and for every edge the advanced items  *)
(* present in the target.  Nothing is assumed of FIRST but its type.       *)
(***************************************************************************)
IsCore(c) ==
  /\ HasFirst(c, c.first)
  /\ c.states \in Nat \ {0}
  /\ IsFiniteSet(c.tokens) /\ EndMarker \in c.tokens
  /\ DOMAIN c.items = States(c) /\ DOMAIN c.edges = States(c)
  /\ StartItem(c) \in ItemsOf(c, 0)
  /\ \A s \in States(c) :
       /\ c.items[s] \in Seq(ItemsOf(c, s))
       /\ c.edges[s] \in Seq(Elements(c.edges[s]))
       /\ \A item \in ItemsOf(c, s) :
            /\ ClosureItems(c, item) \subseteq ItemsOf(c, s)
            /\ \A a \in c.tokens : FollowingPredicts(c.first, item, a) \subseteq c.tokens
       /\ \A e \in 1 .. Len(c.edges[s]) :
            /\ EdgeTarget(c, s, e) \in States(c)
            /\ \A item \in ItemsOf(c, s) :
                 DotBefore(item, EdgeSymbol(c, s, e)) =>
                   Advance(item) \in ItemsOf(c, EdgeTarget(c, s, e))
=============================================================================
