---------------------------- MODULE LalrConverter ----------------------------
(***************************************************************************)
(* LALRConverter::convert (lalr_converter.cpp): canonical LR(1) nodes are  *)
(* grouped by a key, the items of a group are united, and the edges are    *)
(* rewritten to the new numbers.                                           *)
(*                                                                         *)
(* A canonical automaton is a record: items, node number |-> set of pairs  *)
(* <<core item, lookahead>>, and edges, node number |-> set of             *)
(* <<symbol, target>>.  One step is one iteration of one of the three      *)
(* loops.                                                                  *)
(***************************************************************************)
EXTENDS Grammar

VARIABLES
  canonical,     \* the argument
  groups,        \* sequence: new node number + 1 |-> set of old nodes
  oldToNew,      \* old_to_new; -1 before the node is grouped
  merged,        \* new node number |-> its items
  mergedEdges,   \* new node number |-> partial function symbol |-> new node (nextnode)
  converting,    \* "idle", "group", "merge", "edges", "done"
  at             \* loop position

converterVars == <<canonical, groups, oldToNew, merged, mergedEdges, converting, at>>

OldNodes == DOMAIN canonical.items

\* Mutant of Key: the position of the dot is left out.
MutKey(items) == {<<x[1].left, x[1].right>> : x \in items}

\* coreStateKey: the sorted list of the items' core keys, one entry per item, so an item
\* with two lookaheads is listed twice.
Key(items) == [c \in CoresOf(items) |-> Cardinality({x \in items : x[1] = c})]

NewNodes == 0 .. Len(groups) - 1

Nothing == [n \in {} |-> {}]

\* Before the call.
ConverterInit ==
  /\ canonical = [items |-> Nothing, edges |-> Nothing]
  /\ groups = <<>> /\ oldToNew = Nothing /\ merged = Nothing /\ mergedEdges = Nothing
  /\ converting = "idle" /\ at = 0

\* The call with the automaton c.
ConvertAutomaton(c) ==
  /\ converting = "idle" /\ converting' = "group"
  /\ canonical' = c
  /\ oldToNew' = [n \in DOMAIN c.items |-> -1]
  /\ UNCHANGED <<groups, merged, mergedEdges, at>>

GroupOf(n) == {k \in DOMAIN groups :
                 \E m \in groups[k] : Key(canonical.items[m]) = Key(canonical.items[n])}

JoinGroup ==
  /\ converting = "group" /\ at \in OldNodes
  /\ \E k \in GroupOf(at) :
       /\ groups' = [groups EXCEPT ![k] = @ \cup {at}]
       /\ oldToNew' = [oldToNew EXCEPT ![at] = k - 1]
  /\ at' = at + 1
  /\ UNCHANGED <<canonical, merged, mergedEdges, converting>>

NewGroup ==
  /\ converting = "group" /\ at \in OldNodes /\ GroupOf(at) = {}
  /\ groups' = Append(groups, {at})
  /\ oldToNew' = [oldToNew EXCEPT ![at] = Len(groups)]
  /\ at' = at + 1
  /\ UNCHANGED <<canonical, merged, mergedEdges, converting>>

StartMerge ==
  /\ converting = "group" /\ at \notin OldNodes
  /\ converting' = "merge" /\ at' = 0
  /\ merged' = [n \in NewNodes |-> {}] /\ mergedEdges' = [n \in NewNodes |-> <<>>]
  /\ UNCHANGED <<canonical, groups, oldToNew>>

MergeGroup ==
  /\ converting = "merge" /\ at \in NewNodes
  /\ merged' = [merged EXCEPT ![at] = UNION {canonical.items[n] : n \in groups[at + 1]}]
  /\ at' = at + 1
  /\ UNCHANGED <<canonical, groups, oldToNew, mergedEdges, converting>>

StartEdges ==
  /\ converting = "merge" /\ at \notin NewNodes
  /\ converting' = "edges" /\ at' = 0
  /\ UNCHANGED <<canonical, groups, oldToNew, merged, mergedEdges>>

\* The edges of one old node, over whatever an earlier member of its group has written.
RewriteEdges ==
  /\ converting = "edges" /\ at \in OldNodes
  /\ LET from == oldToNew[at]
         here == canonical.edges[at]
         target(X) == oldToNew[(CHOOSE e \in here : e[1] = X)[2]]
     IN  mergedEdges' = [mergedEdges EXCEPT ![from] =
           [X \in DOMAIN @ \cup {e[1] : e \in here} |->
              IF \E e \in here : e[1] = X THEN target(X) ELSE @[X]]]
  /\ at' = at + 1
  /\ UNCHANGED <<canonical, groups, oldToNew, merged, converting>>

FinishEdges ==
  /\ converting = "edges" /\ at \notin OldNodes
  /\ converting' = "done"
  /\ UNCHANGED <<canonical, groups, oldToNew, merged, mergedEdges, at>>

(***************************************************************************)
(* What buildCanonicalPDA guarantees of the automaton it hands over: nodes *)
(* numbered from 0, edges between nodes, and nodes with the same cores     *)
(* have the same cores behind every symbol.                                *)
(***************************************************************************)
IsCanonical(c) ==
  /\ \A n \in DOMAIN c.items : n \in Nat /\ 0 .. n \subseteq DOMAIN c.items
  /\ DOMAIN c.edges = DOMAIN c.items
  /\ \A n \in DOMAIN c.items : \A e \in c.edges[n] : e[2] \in DOMAIN c.items
  /\ \A m, n \in DOMAIN c.items : CoresOf(c.items[m]) = CoresOf(c.items[n]) =>
       \A d \in c.edges[m], e \in c.edges[n] :
         d[1] = e[1] => CoresOf(c.items[d[2]]) = CoresOf(c.items[e[2]])

ConverterNext == JoinGroup \/ NewGroup \/ StartMerge \/ MergeGroup \/ StartEdges \/ RewriteEdges \/ FinishEdges
-----------------------------------------------------------------------------
\* The merged automaton can follow every transition of the canonical one, to a node with
\* the LR(0) core of the canonical target.
EdgesKeepCore ==
  converting = "done" => \A n \in OldNodes : \A e \in canonical.edges[n] :
    /\ e[1] \in DOMAIN mergedEdges[oldToNew[n]]
    /\ CoresOf(merged[mergedEdges[oldToNew[n]][e[1]]]) = CoresOf(canonical.items[e[2]])

\* States with identical LR(0) cores are merged (lalr_converter.h:23).
IdenticalCoresMerged ==
  converting = "done" => \A m, n \in OldNodes :
    CoresOf(canonical.items[m]) = CoresOf(canonical.items[n]) => oldToNew[m] = oldToNew[n]
=============================================================================
