----------------------------- MODULE FirstFollow -----------------------------
(***************************************************************************)
(* LR1Builder::computeFirstSets and computeFollowSets (lr1_pda.cpp): two   *)
(* fixpoint loops that pass over the productions until a pass changes      *)
(* nothing.  Both update the sets in place, so a pass reads a mixture of   *)
(* old and new sets, and only the flag `changed` of one whole quiet pass   *)
(* says that the equations hold.                                           *)
(*                                                                         *)
(* One step is one production (FIRST) or one position of a right-hand side *)
(* (FOLLOW).  The sets are kept for nonterminals; a terminal stands for    *)
(* itself (FirstOf in Grammar).                                            *)
(***************************************************************************)
EXTENDS Grammar

CONSTANT Grammars      \* the grammars, each with a start symbol it defines

VARIABLES
  input,   \* the grammar
  first,   \* first_sets, for the nonterminals
  follow,  \* follow_sets
  pc,      \* "first", "follow", "done"
  p, i,    \* the production and the position in its right-hand side
  changed

vars == <<input, first, follow, pc, p, i, changed>>

IsGrammar(g) ==
  /\ g.start \in g.nonterminals /\ AugmentedStart \notin g.nonterminals
  /\ g.producers \in Seq(Elements(g.producers))
  /\ \A prod \in Elements(g.producers) :
       prod.left \in g.nonterminals /\ prod.right \in Seq(Elements(prod.right))

ASSUME GrammarsAssumption == \A g \in Grammars : IsGrammar(g)

\* What a right-hand side contributes to FIRST of its left-hand side.
FirstGain(fst, prod) == FirstOfSequence(fst, prod.right, 1, Epsilon)

\* Mutant of FollowGain: a rest that vanishes does not let FOLLOW of the left-hand side in.
MutFollowGain(fst, flw, prod, k) == FirstOfSequence(fst, prod.right, k + 1, Epsilon) \ {Epsilon}

\* What the position k of a right-hand side contributes to FOLLOW of the symbol there:
\* FIRST of the rest, and FOLLOW of the left-hand side if the rest may vanish.
FollowGain(fst, flw, prod, k) ==
  LET rest == FirstOfSequence(fst, prod.right, k + 1, Epsilon)
  IN  (rest \ {Epsilon}) \cup (IF Epsilon \in rest THEN flw[prod.left] ELSE {})
FollowsHere(g, prod, k) == k \in DOMAIN prod.right /\ prod.right[k] \in g.nonterminals

Producer == input.producers[p]

Init ==
  /\ input \in Grammars
  /\ first = [A \in Names(input) |-> {}]
  /\ follow = [A \in input.nonterminals |-> IF A = input.start THEN {EndMarker} ELSE {}]
  /\ pc = "first" /\ p = 1 /\ i = 1 /\ changed = FALSE

FirstProduction ==
  /\ pc = "first" /\ p <= Len(input.producers)
  /\ first' = [first EXCEPT ![Producer.left] = @ \cup FirstGain(first, Producer)]
  /\ changed' = (changed \/ ~ FirstGain(first, Producer) \subseteq first[Producer.left])
  /\ p' = p + 1
  /\ UNCHANGED <<input, follow, pc, i>>

\* while (changed): a further pass.
RepeatFirst ==
  /\ pc = "first" /\ p > Len(input.producers) /\ changed
  /\ p' = 1 /\ changed' = FALSE
  /\ UNCHANGED <<input, first, follow, pc, i>>

StartFollow ==
  /\ pc = "first" /\ p > Len(input.producers) /\ ~changed
  /\ pc' = "follow" /\ p' = 1 /\ i' = 1
  /\ UNCHANGED <<input, first, follow, changed>>

FollowSymbol ==
  /\ pc = "follow" /\ p <= Len(input.producers) /\ i <= Len(Producer.right)
  /\ IF FollowsHere(input, Producer, i)
     THEN LET gain == FollowGain(first, follow, Producer, i)
          IN  /\ follow' = [follow EXCEPT ![Producer.right[i]] = @ \cup gain]
              /\ changed' = (changed \/ ~ gain \subseteq follow[Producer.right[i]])
     ELSE UNCHANGED <<follow, changed>>
  /\ i' = i + 1
  /\ UNCHANGED <<input, first, pc, p>>

NextProduction ==
  /\ pc = "follow" /\ p <= Len(input.producers) /\ i > Len(Producer.right)
  /\ p' = p + 1 /\ i' = 1
  /\ UNCHANGED <<input, first, follow, pc, changed>>

RepeatFollow ==
  /\ pc = "follow" /\ p > Len(input.producers) /\ changed
  /\ p' = 1 /\ i' = 1 /\ changed' = FALSE
  /\ UNCHANGED <<input, first, follow, pc>>

Finish ==
  /\ pc = "follow" /\ p > Len(input.producers) /\ ~changed
  /\ pc' = "done"
  /\ UNCHANGED <<input, first, follow, p, i, changed>>

Next ==
  \/ FirstProduction \/ RepeatFirst \/ StartFollow
  \/ FollowSymbol \/ NextProduction \/ RepeatFollow \/ Finish

Spec     == Init /\ [][Next]_vars
FairSpec == Spec /\ WF_vars(Next)   \* the C++ loops run until they return
-----------------------------------------------------------------------------
SymbolsIn(g) == UNION {Elements(prod.right) : prod \in Elements(g.producers)}

TypeOK ==
  /\ input \in Grammars
  /\ first \in [Names(input) -> SUBSET (SymbolsIn(input) \cup {Epsilon})]
  /\ follow \in [input.nonterminals -> SUBSET (SymbolsIn(input) \cup {EndMarker})]
  /\ pc \in {"first", "follow", "done"}
  /\ p \in Nat \ {0} /\ i \in Nat \ {0}
  /\ changed \in BOOLEAN

\* The equations of one production.
FirstHolds(g, fst, k) == FirstGain(fst, g.producers[k]) \subseteq fst[g.producers[k].left]
FollowHolds(g, fst, flw, k, j) ==
  FollowsHere(g, g.producers[k], j) =>
    FollowGain(fst, flw, g.producers[k], j) \subseteq flw[g.producers[k].right[j]]

\* Whoever reads the FIRST sets (FOLLOW, the closures, the lookahead propagation) finds
\* every equation satisfied.
FirstClosed == pc # "first" => \A k \in 1 .. Len(input.producers) : FirstHolds(input, first, k)

\* The same for the FOLLOW sets when the second loop has ended.
FollowClosed ==
  pc = "done" => \A k \in 1 .. Len(input.producers) :
                   \A j \in 1 .. Len(input.producers[k].right) : FollowHolds(input, first, follow, k, j)

\* Neither is inductive: what a quiet pass has seen so far still holds.
FirstPass ==
  pc = "first" /\ ~changed =>
    \A k \in 1 .. Len(input.producers) : k < p => FirstHolds(input, first, k)
FollowPass ==
  pc = "follow" /\ ~changed =>
    \A k \in 1 .. Len(input.producers) : \A j \in 1 .. Len(input.producers[k].right) :
      k < p \/ (k = p /\ j < i) => FollowHolds(input, first, follow, k, j)

IInv == TypeOK /\ FirstClosed /\ FollowClosed /\ FirstPass /\ FollowPass

Terminates == <>(pc = "done")
=============================================================================
