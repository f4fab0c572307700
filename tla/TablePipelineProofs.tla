-------------------------- MODULE TablePipelineProofs --------------------------
(***************************************************************************)
(* Proofs about the parts that make the tables of a grammar, each for      *)
(* every argument it can be called with: FIRST and FOLLOW, the merging of  *)
(* canonical states, and the rows of ACTION and GOTO; then about the       *)
(* construction of the automata, and about the whole way from a grammar to *)
(* its tables, on which each part is given what it needs by the one before.*)
(***************************************************************************)
EXTENDS TablePipeline, GrammarLemmas

-----------------------------------------------------------------------------
(***************************************************************************)
(* FIRST and FOLLOW, for every set of grammars: the sets satisfy every     *)
(* equation when they are read (FirstClosed, FollowClosed), and they are   *)
(* contained in every solution, hence least.                               *)
(***************************************************************************)
\* The productions of the grammar under construction.
LEMMA ProductionFacts ==
  ASSUME TypeOK, NEW k \in 1 .. Len(input.producers)
  PROVE  /\ input.producers[k] \in Elements(input.producers)
         /\ input.producers[k].left \in input.nonterminals
         /\ input.producers[k].left \in Names(input)
         /\ input.producers[k].right \in Seq(SymbolsIn(input))
  <1>1. IsGrammar(input)
    BY GrammarsAssumption DEF TypeOK
  <1>2. input.producers[k] \in Elements(input.producers)
    BY <1>1 DEF IsGrammar
  <1>3. input.producers[k].left \in input.nonterminals
        /\ input.producers[k].right \in Seq(Elements(input.producers[k].right))
    BY <1>1, <1>2 DEF IsGrammar
  <1>4. Elements(input.producers[k].right) \subseteq SymbolsIn(input)
    BY <1>2 DEF SymbolsIn
  <1>5. QED
    BY <1>2, <1>3, <1>4 DEF Names

LEMMA FirstGainType ==
  ASSUME TypeOK, NEW k \in 1 .. Len(input.producers)
  PROVE  FirstGain(first, input.producers[k]) \subseteq SymbolsIn(input) \cup {Epsilon}
  <1>1. first \in [Names(input) -> SUBSET (SymbolsIn(input) \cup {Epsilon})]
    BY DEF TypeOK
  <1>2. input.producers[k].right \in Seq(SymbolsIn(input))
    BY ProductionFacts
  <1>3. 1 \in Nat \ {0}
    OBVIOUS
  <1>4. FirstOfSequence(first, input.producers[k].right, 1, Epsilon) \subseteq SymbolsIn(input) \cup {Epsilon}
    BY <1>1, <1>2, <1>3, SequenceType
  <1>5. QED
    BY <1>4 DEF FirstGain

LEMMA FollowGainType ==
  ASSUME TypeOK, NEW k \in 1 .. Len(input.producers), NEW j \in Nat \ {0}
  PROVE  FollowGain(first, follow, input.producers[k], j) \subseteq SymbolsIn(input) \cup {EndMarker}
  <1>1. first \in [Names(input) -> SUBSET (SymbolsIn(input) \cup {Epsilon})]
    BY DEF TypeOK
  <1>2. input.producers[k].right \in Seq(SymbolsIn(input)) /\ input.producers[k].left \in input.nonterminals
    BY ProductionFacts
  <1>3. j + 1 \in Nat \ {0}
    OBVIOUS
  <1>4. FirstOfSequence(first, input.producers[k].right, j + 1, Epsilon) \subseteq SymbolsIn(input) \cup {Epsilon}
    BY <1>1, <1>2, <1>3, SequenceType
  <1>5. follow[input.producers[k].left] \subseteq SymbolsIn(input) \cup {EndMarker}
    BY <1>2 DEF TypeOK
  <1>6. QED
    BY <1>4, <1>5 DEF FollowGain

-----------------------------------------------------------------------------
LEMMA InitIInv == Init => IInv
  <1> SUFFICES ASSUME Init PROVE IInv
    OBVIOUS
  <1>1. first \in [Names(input) -> SUBSET (SymbolsIn(input) \cup {Epsilon})]
    BY DEF Init
  <1>2. follow \in [input.nonterminals -> SUBSET (SymbolsIn(input) \cup {EndMarker})]
    BY DEF Init
  <1>3. input \in Grammars /\ pc = "first" /\ p = 1 /\ i = 1
    BY DEF Init
  <1>4. changed \in BOOLEAN
    BY DEF Init
  <1>5. TypeOK
    BY <1>1, <1>2, <1>3, <1>4 DEF TypeOK
  <1>6. FirstPass
    BY <1>3 DEF FirstPass
  <1>7. QED
    BY <1>3, <1>5, <1>6 DEF IInv, FirstClosed, FollowClosed, FollowPass

LEMMA FirstProductionKeepsIInv == IInv /\ FirstProduction => IInv'
  <1> SUFFICES ASSUME IInv, FirstProduction PROVE IInv'
    OBVIOUS
  <1> USE DEF IInv
  <1>1. /\ pc = "first" /\ pc' = "first" /\ p' = p + 1 /\ UNCHANGED <<input, follow, i>>
        /\ p \in 1 .. Len(input.producers) /\ p \in Nat \ {0}
    <2>1. p \in Nat \ {0} /\ IsGrammar(input)
      BY GrammarsAssumption DEF TypeOK
    <2>2. Len(input.producers) \in Nat
      BY <2>1 DEF IsGrammar
    <2>3. QED
      BY <2>1, <2>2 DEF FirstProduction
  <1>2. Producer = input.producers[p] /\ Producer.left \in Names(input)
    BY <1>1, ProductionFacts DEF Producer
  <1>3. FirstGain(first, Producer) \subseteq SymbolsIn(input) \cup {Epsilon}
    BY <1>1, FirstGainType DEF Producer
  <1>4. first' \in [Names(input) -> SUBSET (SymbolsIn(input) \cup {Epsilon})]
    <2>1. first \in [Names(input) -> SUBSET (SymbolsIn(input) \cup {Epsilon})]
      BY DEF TypeOK
    <2>2. first[Producer.left] \cup FirstGain(first, Producer) \subseteq SymbolsIn(input) \cup {Epsilon}
      BY <1>2, <1>3, <2>1
    <2>3. first' = [first EXCEPT ![Producer.left] = first[Producer.left] \cup FirstGain(first, Producer)]
      BY DEF FirstProduction
    <2>4. QED
      BY <1>2, <2>1, <2>2, <2>3
  <1>5. changed' \in BOOLEAN
    BY DEF FirstProduction, TypeOK
  <1>6. TypeOK'
    BY <1>1, <1>4, <1>5 DEF TypeOK
  <1>7. FirstPass'
    <2> SUFFICES ASSUME ~changed', NEW k \in 1 .. Len(input.producers), k < p + 1
                 PROVE  FirstHolds(input, first', k)
      BY <1>1 DEF FirstPass
    <2>1. ~changed /\ FirstGain(first, Producer) \subseteq first[Producer.left]
      BY DEF FirstProduction
    <2>2. first' = first
      <3>1. first[Producer.left] \cup FirstGain(first, Producer) = first[Producer.left]
        BY <2>1
      <3>2. first' = [first EXCEPT ![Producer.left] = first[Producer.left] \cup FirstGain(first, Producer)]
        BY DEF FirstProduction
      <3>3. QED
        BY <3>1, <3>2 DEF TypeOK
    <2>3. CASE k < p
      BY <1>1, <2>1, <2>2, <2>3 DEF FirstPass
    <2>4. CASE k = p
      BY <2>1, <2>2, <2>4, <1>2 DEF FirstHolds
    <2>5. QED
      BY <1>1, <2>3, <2>4
  <1>8. QED
    BY <1>1, <1>6, <1>7 DEF FirstClosed, FollowClosed, FollowPass

LEMMA PassEndKeepsIInv == IInv /\ (RepeatFirst \/ StartFollow \/ RepeatFollow) => IInv'
  <1> SUFFICES ASSUME IInv, RepeatFirst \/ StartFollow \/ RepeatFollow PROVE IInv'
    OBVIOUS
  <1> USE DEF IInv
  <1>1. UNCHANGED <<input, first, follow>> /\ p' = 1 /\ ~changed'
    BY DEF RepeatFirst, StartFollow, RepeatFollow
  <1>2. i' \in Nat \ {0} /\ pc' \in {"first", "follow"}
    BY DEF RepeatFirst, StartFollow, RepeatFollow, TypeOK
  <1>3. changed' \in BOOLEAN
    BY DEF RepeatFirst, StartFollow, RepeatFollow, TypeOK
  <1>4. TypeOK'
    BY <1>1, <1>2, <1>3 DEF TypeOK
  <1>5. p \in Nat /\ Len(input.producers) \in Nat
    BY GrammarsAssumption DEF TypeOK, IsGrammar
  <1>6. FirstPass'
    BY <1>1 DEF FirstPass
  <1>7. FirstClosed'
    <2>1. CASE RepeatFirst
      BY <2>1 DEF RepeatFirst, FirstClosed
    <2>2. CASE RepeatFollow
      BY <2>2 DEF RepeatFollow, FirstClosed
    <2>3. CASE StartFollow
      <3>1. \A k \in 1 .. Len(input.producers) : FirstHolds(input, first, k)
        BY <1>5, <2>3 DEF StartFollow, FirstPass
      <3>2. QED
        BY <3>1, <1>1 DEF FirstClosed
    <2>4. QED
      BY <2>1, <2>2, <2>3
  <1>8. FollowPass'
    <2>1. i' = 1 \/ pc' # "follow"
      BY DEF RepeatFirst, StartFollow, RepeatFollow
    <2>2. \A k \in 1 .. Len(input.producers) : \A j \in 1 .. Len(input.producers[k].right) :
            ~(k < 1 \/ (k = 1 /\ j < 1))
      OBVIOUS
    <2>3. QED
      BY <2>1, <2>2, <1>1 DEF FollowPass
  <1>9. QED
    BY <1>2, <1>4, <1>6, <1>7, <1>8 DEF FollowClosed

LEMMA FollowSymbolKeepsIInv == IInv /\ FollowSymbol => IInv'
  <1> SUFFICES ASSUME IInv, FollowSymbol PROVE IInv'
    OBVIOUS
  <1> USE DEF IInv
  <1>1. /\ pc = "follow" /\ pc' = "follow" /\ i' = i + 1 /\ UNCHANGED <<input, first, p>>
        /\ p \in 1 .. Len(input.producers) /\ p \in Nat /\ i \in Nat \ {0} /\ i <= Len(Producer.right)
        /\ Producer = input.producers[p]
    <2>1. p \in Nat \ {0} /\ IsGrammar(input)
      BY GrammarsAssumption DEF TypeOK
    <2>2. Len(input.producers) \in Nat
      BY <2>1 DEF IsGrammar
    <2>3. QED
      BY <2>1, <2>2 DEF FollowSymbol, Producer, TypeOK
  <1> DEFINE gain == FollowGain(first, follow, Producer, i)
             X    == Producer.right[i]
             here == FollowsHere(input, Producer, i)
  <1>2. gain \subseteq SymbolsIn(input) \cup {EndMarker}
    BY <1>1, FollowGainType
  <1>3. here => X \in input.nonterminals
    BY DEF FollowsHere
  <1>4. here => follow' = [follow EXCEPT ![X] = follow[X] \cup gain]
    BY DEF FollowSymbol
  <1>5. ~here => follow' = follow
    BY DEF FollowSymbol
  <1>6. follow \in [input.nonterminals -> SUBSET (SymbolsIn(input) \cup {EndMarker})]
    BY DEF TypeOK
  <1>7. follow' \in [input.nonterminals -> SUBSET (SymbolsIn(input) \cup {EndMarker})]
    <2> HIDE DEF gain, X, here
    <2>1. QED
      BY <1>2, <1>3, <1>4, <1>5, <1>6
  <1>8. changed' \in BOOLEAN
    BY DEF FollowSymbol, TypeOK
  <1>9. TypeOK'
    BY <1>1, <1>7, <1>8 DEF TypeOK
  <1>10. FollowPass'
    <2> SUFFICES ASSUME ~changed', NEW k \in 1 .. Len(input.producers),
                        NEW j \in 1 .. Len(input.producers[k].right),
                        k < p \/ (k = p /\ j < i + 1)
                 PROVE  FollowHolds(input, first, follow', k, j)
      BY <1>1 DEF FollowPass
    <2>1. ~changed /\ (here => gain \subseteq follow[X])
      BY DEF FollowSymbol
    <2>2. follow' = follow
      <3>1. CASE here
        <4>1. follow[X] \cup gain = follow[X]
          BY <2>1, <3>1
        <4>2. QED
          BY <4>1, <3>1, <1>4, <1>6
      <3>2. QED
        BY <3>1, <1>5
    <2>3. CASE k < p \/ (k = p /\ j < i)
      BY <1>1, <2>1, <2>2, <2>3 DEF FollowPass
    <2>4. CASE k = p /\ j = i
      BY <2>1, <2>2, <2>4, <1>1 DEF FollowHolds
    <2>5. QED
      BY <1>1, <2>3, <2>4
  <1>11. FirstClosed'
    BY <1>1 DEF FirstClosed
  <1>12. QED
    BY <1>1, <1>9, <1>10, <1>11 DEF FollowClosed, FirstPass

LEMMA NextProductionKeepsIInv == IInv /\ NextProduction => IInv'
  <1> SUFFICES ASSUME IInv, NextProduction PROVE IInv'
    OBVIOUS
  <1> USE DEF IInv
  <1>1. /\ pc = "follow" /\ pc' = "follow" /\ p' = p + 1 /\ i' = 1 /\ p \in Nat \ {0} /\ i \in Nat
        /\ i > Len(input.producers[p].right)
        /\ UNCHANGED <<input, first, follow, changed>>
    BY DEF NextProduction, TypeOK, Producer
  <1>2. TypeOK'
    BY <1>1 DEF TypeOK
  <1>3. FollowPass'
    <2> SUFFICES ASSUME ~changed, NEW k \in 1 .. Len(input.producers),
                        NEW j \in 1 .. Len(input.producers[k].right),
                        k < p + 1 \/ (k = p + 1 /\ j < 1)
                 PROVE  FollowHolds(input, first, follow, k, j)
      BY <1>1 DEF FollowPass
    <2>1. Len(input.producers[k].right) \in Nat
      BY ProductionFacts
    <2>2. k < p \/ (k = p /\ j < i)
      BY <1>1, <2>1
    <2>3. QED
      BY <1>1, <2>2 DEF FollowPass
  <1>4. FirstClosed'
    BY <1>1 DEF FirstClosed
  <1>5. QED
    BY <1>1, <1>2, <1>3, <1>4 DEF FollowClosed, FirstPass

LEMMA FinishKeepsIInv == IInv /\ Finish => IInv'
  <1> SUFFICES ASSUME IInv, Finish PROVE IInv'
    OBVIOUS
  <1> USE DEF IInv
  <1>1. /\ pc = "follow" /\ pc' = "done" /\ ~changed /\ p \in Nat /\ p > Len(input.producers)
        /\ UNCHANGED <<input, first, follow, p, i, changed>>
    BY DEF Finish, TypeOK
  <1>2. TypeOK'
    BY <1>1 DEF TypeOK
  <1>3. Len(input.producers) \in Nat
    BY GrammarsAssumption DEF TypeOK, IsGrammar
  <1>4. FollowClosed'
    BY <1>1, <1>3 DEF FollowPass, FollowClosed
  <1>5. FirstClosed'
    BY <1>1 DEF FirstClosed
  <1>6. QED
    BY <1>1, <1>2, <1>4, <1>5 DEF FirstPass, FollowPass

LEMMA NextIInv == IInv /\ [Next]_vars => IInv'
  <1>1. IInv /\ UNCHANGED vars => IInv'
    BY DEF vars, IInv, TypeOK, FirstClosed, FollowClosed, FirstPass, FollowPass
  <1>2. QED
    BY <1>1, FirstProductionKeepsIInv, PassEndKeepsIInv, FollowSymbolKeepsIInv,
       NextProductionKeepsIInv, FinishKeepsIInv DEF Next

\* What a quiet pass of computeFirstSets or computeFollowSets has seen stays true until the
\* pass ends, and so the equations hold when the sets are used.
THEOREM Inductive == Spec => []IInv
  BY InitIInv, NextIInv, PTL DEF Spec

-----------------------------------------------------------------------------
\* A solution of the equations of g, with the end marker after the start symbol.
Solves(g, fst, flw) ==
  /\ fst \in [Names(g) -> SUBSET (SymbolsIn(g) \cup {Epsilon})]
  /\ flw \in [g.nonterminals -> SUBSET (SymbolsIn(g) \cup {EndMarker})]
  /\ EndMarker \in flw[g.start]
  /\ \A k \in 1 .. Len(g.producers) :
       /\ FirstHolds(g, fst, k)
       /\ \A j \in 1 .. Len(g.producers[k].right) : FollowHolds(g, fst, flw, k, j)
SetsBelow(F, L) ==
  /\ \A A \in Names(input) : first[A] \subseteq F[input][A]
  /\ \A A \in input.nonterminals : follow[A] \subseteq L[input][A]

LEMMA StartsBelow ==
  ASSUME NEW CONSTANT F, NEW CONSTANT L, \A g \in Grammars : Solves(g, F[g], L[g]), Init
  PROVE  SetsBelow(F, L)
BY DEF Init, SetsBelow, Solves

LEMMA StaysBelow ==
  ASSUME NEW CONSTANT F, NEW CONSTANT L, \A g \in Grammars : Solves(g, F[g], L[g]), TypeOK, SetsBelow(F, L), [Next]_vars
  PROVE  SetsBelow(F, L)'
<1>0. /\ Solves(input, F[input], L[input])
      /\ \A A \in Names(input) : first[A] \subseteq F[input][A]
      /\ \A A \in input.nonterminals : follow[A] \subseteq L[input][A]
  BY DEF TypeOK, SetsBelow
<1> DEFINE S == SymbolsIn(input) \cup {Epsilon}
<1>1. /\ input \in Grammars /\ first \in [Names(input) -> SUBSET S]
      /\ F[input] \in [Names(input) -> SUBSET S] /\ IsGrammar(input)
      /\ p \in Nat \ {0} /\ i \in Nat \ {0}
  BY <1>0, GrammarsAssumption DEF TypeOK, Solves
<1>2. \A seq, from, la :
        FirstOfSequence(first, seq, from, la) \subseteq FirstOfSequence(F[input], seq, from, la)
  BY <1>0, <1>1, SequenceGrows
<1>3. Len(input.producers) \in Nat
  BY <1>1 DEF IsGrammar
<1>4. CASE FirstProduction
  <2>1. p \in 1 .. Len(input.producers) /\ UNCHANGED <<input, follow>>
    BY <1>1, <1>3, <1>4 DEF FirstProduction
  <2>2. FirstGain(first, Producer) \subseteq F[input][Producer.left]
    BY <2>1, <1>0, <1>1, <1>2 DEF FirstHolds, FirstGain, Producer, Solves
  <2>3. first' = [first EXCEPT ![Producer.left] = first[Producer.left] \cup FirstGain(first, Producer)]
    BY <1>4 DEF FirstProduction
  <2>4. \A A \in Names(input) : first'[A] \subseteq F[input][A]
    BY <2>2, <2>3, <1>0, <1>1
  <2>5. QED
    BY <2>1, <2>4, <1>0 DEF SetsBelow
<1>5. CASE FollowSymbol
  <2>1. p \in 1 .. Len(input.producers) /\ UNCHANGED <<input, first>> /\ i <= Len(Producer.right)
    BY <1>1, <1>3, <1>5 DEF FollowSymbol
  <2>2. CASE ~FollowsHere(input, Producer, i)
    BY <2>1, <2>2, <1>0, <1>5 DEF FollowSymbol, SetsBelow
  <2>3. CASE FollowsHere(input, Producer, i)
    <3>1. Producer.left \in input.nonterminals /\ Producer.right \in Seq(SymbolsIn(input))
      BY <2>1, ProductionFacts DEF Producer
    <3>2. i \in 1 .. Len(input.producers[p].right)
      BY <2>1, <3>1, <1>1 DEF Producer
    <3>3. FollowGain(F[input], L[input], Producer, i) \subseteq L[input][Producer.right[i]]
      BY <2>1, <2>3, <3>2, <1>0, <1>1 DEF FollowHolds, Producer, Solves
    <3>4. FollowGain(first, follow, Producer, i) \subseteq FollowGain(F[input], L[input], Producer, i)
      BY <1>0, <1>2, <3>1 DEF FollowGain
    <3>5. follow' = [follow EXCEPT ![Producer.right[i]] =
                       follow[Producer.right[i]] \cup FollowGain(first, follow, Producer, i)]
      BY <2>3, <1>5 DEF FollowSymbol
    <3>6. \A A \in input.nonterminals : follow'[A] \subseteq L[input][A]
      BY <3>3, <3>4, <3>5, <1>0 DEF TypeOK
    <3>7. QED
      BY <2>1, <3>6, <1>0 DEF SetsBelow
  <2>4. QED
    BY <2>2, <2>3
<1>6. CASE RepeatFirst \/ StartFollow \/ NextProduction \/ RepeatFollow \/ Finish \/ UNCHANGED vars
  BY <1>0, <1>6 DEF RepeatFirst, StartFollow, NextProduction, RepeatFollow, Finish, vars, SetsBelow
<1>7. QED
  BY <1>4, <1>5, <1>6 DEF Next

\* Nothing is invented: any solution of the equations (with the end marker after the start
\* symbol) contains the sets at every moment, so the result is the least solution.
THEOREM LeastSolution ==
  ASSUME NEW CONSTANT F, NEW CONSTANT L, \A g \in Grammars : Solves(g, F[g], L[g])
  PROVE  Spec => []SetsBelow(F, L)
<1>1. Init => SetsBelow(F, L) BY StartsBelow
<1>2. TypeOK /\ SetsBelow(F, L) /\ [Next]_vars => SetsBelow(F, L)' BY StaysBelow
<1>3. IInv => TypeOK BY DEF IInv
<1> QED BY <1>1, <1>2, <1>3, Inductive, PTL DEF Spec

-----------------------------------------------------------------------------
(***************************************************************************)
(* Merging keeps every transition, for every canonical automaton.  The     *)
(* members of a group share their cores, so whichever of them writes an    *)
(* edge last, it leads to the cores the others meant.                      *)
(***************************************************************************)
\* convert is called with one of the automata.
ConvertSpec(automata) == ConverterInit /\ [][(\E c \in automata : ConvertAutomaton(c)) \/ ConverterNext]_converterVars

\* n is in the group its number stands for, and the groups hold nodes with equal keys.
IsGrouped(n) == oldToNew[n] \in NewNodes /\ n \in groups[oldToNew[n] + 1]
GroupsAlike ==
  /\ groups \in Seq(SUBSET OldNodes)
  /\ \A k \in DOMAIN groups : \A m, n \in groups[k] : Key(canonical.items[m]) = Key(canonical.items[n])
GroupedSoFar ==
  /\ DOMAIN oldToNew = OldNodes
  /\ \A n \in OldNodes : converting = "group" => (n < at => IsGrouped(n))
  /\ \A n \in OldNodes : converting # "group" => IsGrouped(n)
MergedSoFar ==
  \A k \in NewNodes : (converting = "merge" => k < at) => merged[k] = UNION {canonical.items[n] : n \in groups[k + 1]}
\* Every edge of a new node was written for an old one.
WrittenFor(s, X) ==
  \E m \in OldNodes : \E e \in canonical.edges[m] :
    oldToNew[m] = s /\ e[1] = X /\ mergedEdges[s][X] = oldToNew[e[2]]
EdgesSoFar ==
  /\ \A s \in NewNodes : \A X \in DOMAIN mergedEdges[s] : WrittenFor(s, X)
  /\ \A n \in OldNodes : (converting = "edges" => n < at) =>
       \A e \in canonical.edges[n] : e[1] \in DOMAIN mergedEdges[oldToNew[n]]

\* What the three loops know before each of their steps.
ConversionInv ==
  /\ converting \in {"idle", "group", "merge", "edges", "done"} /\ at \in Nat
  /\ converting = "idle" => groups = <<>> /\ at = 0
  /\ converting # "idle" => IsCanonical(canonical) /\ GroupsAlike /\ GroupedSoFar
  /\ converting \in {"merge", "edges", "done"} => DOMAIN merged = NewNodes /\ DOMAIN mergedEdges = NewNodes /\ MergedSoFar
  /\ converting = "merge" => \A k \in NewNodes : mergedEdges[k] = <<>>
  /\ converting \in {"edges", "done"} => EdgesSoFar

\* A key is a map from the cores it counts.
LEMMA KeysDecideCores ==
  ASSUME NEW a, NEW b, Key(a) = Key(b)
  PROVE  CoresOf(a) = CoresOf(b)
<1>1. DOMAIN Key(a) = CoresOf(a) /\ DOMAIN Key(b) = CoresOf(b) BY DEF Key
<1> QED BY <1>1

\* Past the last node there is none left.
LEMMA PastTheLast ==
  ASSUME IsCanonical(canonical), at \in Nat, at \notin OldNodes, NEW n \in OldNodes
  PROVE  n < at
<1>1. n \in Nat /\ 0 .. n \subseteq OldNodes BY DEF IsCanonical, OldNodes
<1> QED BY <1>1

\* The union of a group has the cores of each of its members.
LEMMA GroupCores ==
  ASSUME GroupsAlike, NEW k \in DOMAIN groups, NEW n \in groups[k]
  PROVE  CoresOf(UNION {canonical.items[m] : m \in groups[k]}) = CoresOf(canonical.items[n])
<1>1. ASSUME NEW m \in groups[k] PROVE CoresOf(canonical.items[m]) = CoresOf(canonical.items[n])
  BY KeysDecideCores DEF GroupsAlike
<1> DEFINE all == UNION {canonical.items[m] : m \in groups[k]}
<1>2. CoresOf(all) \subseteq CoresOf(canonical.items[n])
  <2> SUFFICES ASSUME NEW x \in all PROVE x[1] \in CoresOf(canonical.items[n]) BY DEF CoresOf
  <2>1. PICK m \in groups[k] : x \in canonical.items[m] OBVIOUS
  <2>2. x[1] \in CoresOf(canonical.items[m]) BY <2>1 DEF CoresOf
  <2> QED BY <1>1, <2>2
<1>3. CoresOf(canonical.items[n]) \subseteq CoresOf(all) BY DEF CoresOf
<1> QED BY <1>2, <1>3

\* At the end the edges written for one member of a group serve all of them.
LEMMA InvariantGivesEdges ==
  ASSUME ConversionInv
  PROVE  EdgesKeepCore
<1> SUFFICES ASSUME converting = "done", NEW n \in OldNodes, NEW e \in canonical.edges[n]
             PROVE  /\ e[1] \in DOMAIN mergedEdges[oldToNew[n]]
                    /\ CoresOf(merged[mergedEdges[oldToNew[n]][e[1]]]) = CoresOf(canonical.items[e[2]])
  BY DEF EdgesKeepCore
<1>1. IsCanonical(canonical) /\ GroupsAlike /\ MergedSoFar /\ EdgesSoFar BY DEF ConversionInv
<1>2. \A m \in OldNodes : IsGrouped(m) BY DEF ConversionInv, GroupedSoFar
<1>3. e[1] \in DOMAIN mergedEdges[oldToNew[n]] BY <1>1 DEF EdgesSoFar
<1>4. PICK m \in OldNodes : \E d \in canonical.edges[m] :
        oldToNew[m] = oldToNew[n] /\ d[1] = e[1] /\ mergedEdges[oldToNew[n]][e[1]] = oldToNew[d[2]]
  BY <1>1, <1>2, <1>3 DEF EdgesSoFar, WrittenFor, IsGrouped
<1>5. PICK d \in canonical.edges[m] :
        oldToNew[m] = oldToNew[n] /\ d[1] = e[1] /\ mergedEdges[oldToNew[n]][e[1]] = oldToNew[d[2]]
  BY <1>4
<1>6. d[2] \in OldNodes BY <1>1 DEF IsCanonical, OldNodes
<1>7. \A k \in NewNodes : k + 1 \in DOMAIN groups BY <1>1 DEF GroupsAlike, NewNodes
<1>8. CoresOf(canonical.items[m]) = CoresOf(canonical.items[n])
  <2>1. oldToNew[n] + 1 \in DOMAIN groups /\ n \in groups[oldToNew[n] + 1] /\ m \in groups[oldToNew[n] + 1]
    BY <1>2, <1>5, <1>7 DEF IsGrouped
  <2> QED BY <1>1, <2>1, KeysDecideCores DEF GroupsAlike
<1>9. CoresOf(canonical.items[d[2]]) = CoresOf(canonical.items[e[2]])
  BY <1>1, <1>5, <1>8 DEF IsCanonical, OldNodes
<1>10. CoresOf(merged[oldToNew[d[2]]]) = CoresOf(canonical.items[d[2]])
  <2> DEFINE k == oldToNew[d[2]]
  <2>1. k \in NewNodes /\ k + 1 \in DOMAIN groups /\ d[2] \in groups[k + 1] BY <1>2, <1>6, <1>7 DEF IsGrouped
  <2>2. merged[k] = UNION {canonical.items[j] : j \in groups[k + 1]} BY <1>1, <2>1 DEF MergedSoFar
  <2> QED BY <1>1, <2>1, <2>2, GroupCores
<1> QED BY <1>3, <1>5, <1>9, <1>10
-----------------------------------------------------------------------------
\* The call and every step of the loops keep the invariant.
LEMMA CallKeeps ==
  ASSUME ConversionInv, NEW c, IsCanonical(c), ConvertAutomaton(c)
  PROVE  ConversionInv'
<1>1. IsCanonical(canonical)' BY DEF ConvertAutomaton, IsCanonical
<1>2. groups' = <<>> /\ at' = 0 /\ converting' = "group" /\ canonical' = c /\ oldToNew' = [n \in DOMAIN c.items |-> -1]
  BY DEF ConvertAutomaton, ConversionInv
<1>3. GroupsAlike' BY <1>2 DEF GroupsAlike
<1>4. GroupedSoFar'
  <2>1. \A n \in OldNodes' : n \in Nat BY <1>1, <1>2 DEF IsCanonical, OldNodes
  <2>2. DOMAIN oldToNew' = OldNodes' BY <1>2 DEF OldNodes
  <2> QED BY <1>2, <2>1, <2>2 DEF GroupedSoFar
<1> QED BY <1>1, <1>2, <1>3, <1>4 DEF ConversionInv

LEMMA JoinGroupKeeps ==
  ASSUME ConversionInv, JoinGroup
  PROVE  ConversionInv'
<1>1. converting = "group" /\ converting' = "group" /\ at \in OldNodes /\ at' = at + 1 /\ UNCHANGED <<canonical, merged, mergedEdges>>
  BY DEF JoinGroup
<1>2. PICK k \in GroupOf(at) : /\ groups' = [groups EXCEPT ![k] = @ \cup {at}]
                               /\ oldToNew' = [oldToNew EXCEPT ![at] = k - 1]
  BY DEF JoinGroup
<1>3. IsCanonical(canonical) /\ GroupsAlike /\ GroupedSoFar BY <1>1 DEF ConversionInv
<1>4. at \in Nat /\ OldNodes' = OldNodes /\ IsCanonical(canonical)'
  BY <1>1, <1>3 DEF ConversionInv, OldNodes, IsCanonical
<1>5. /\ groups \in Seq(SUBSET OldNodes) /\ k \in DOMAIN groups /\ k \in 1 .. Len(groups)
      /\ groups' \in Seq(SUBSET OldNodes) /\ Len(groups') = Len(groups) /\ DOMAIN groups' = DOMAIN groups
  BY <1>1, <1>2, <1>3 DEF GroupOf, GroupsAlike
<1>6. GroupsAlike'
  <2>1. PICK o \in groups[k] : Key(canonical.items[o]) = Key(canonical.items[at]) BY <1>2 DEF GroupOf
  <2>2. \A m \in groups'[k] : Key(canonical.items[m]) = Key(canonical.items[at])
    BY <1>2, <1>3, <1>5, <2>1 DEF GroupsAlike
  <2>3. \A j \in DOMAIN groups : \A m, n \in groups'[j] : Key(canonical.items[m]) = Key(canonical.items[n])
    BY <1>2, <1>3, <1>5, <2>2 DEF GroupsAlike
  <2> QED BY <1>1, <1>4, <1>5, <2>3 DEF GroupsAlike
<1>7. GroupedSoFar'
  <2>1. \A n \in OldNodes : n < at + 1 => (oldToNew'[n] \in 0 .. Len(groups) - 1 /\ n \in groups'[oldToNew'[n] + 1])
    <3> SUFFICES ASSUME NEW n \in OldNodes, n < at + 1
                 PROVE  oldToNew'[n] \in 0 .. Len(groups) - 1 /\ n \in groups'[oldToNew'[n] + 1]
      OBVIOUS
    <3>1. n \in Nat /\ DOMAIN oldToNew = OldNodes BY <1>3 DEF IsCanonical, OldNodes, GroupedSoFar
    <3>2. CASE n = at BY <1>1, <1>2, <1>5, <3>1, <3>2
    <3>3. CASE n # at
      <4>1. n < at BY <1>4, <3>1, <3>3
      <4>2. oldToNew[n] \in 0 .. Len(groups) - 1 /\ n \in groups[oldToNew[n] + 1]
        BY <1>1, <1>3, <4>1 DEF GroupedSoFar, IsGrouped, NewNodes
      <4> QED BY <1>2, <1>5, <3>1, <3>3, <4>2
    <3> QED BY <3>2, <3>3
  <2>2. DOMAIN oldToNew' = OldNodes BY <1>2, <1>3 DEF GroupedSoFar
  <2> QED BY <1>1, <1>4, <1>5, <2>1, <2>2 DEF GroupedSoFar, IsGrouped, NewNodes
<1> QED BY <1>1, <1>4, <1>6, <1>7 DEF ConversionInv

LEMMA NewGroupKeeps ==
  ASSUME ConversionInv, NewGroup
  PROVE  ConversionInv'
<1>1. /\ converting = "group" /\ converting' = "group" /\ at \in OldNodes /\ at' = at + 1 /\ UNCHANGED <<canonical, merged, mergedEdges>>
      /\ groups' = Append(groups, {at}) /\ oldToNew' = [oldToNew EXCEPT ![at] = Len(groups)]
  BY DEF NewGroup
<1>2. IsCanonical(canonical) /\ GroupsAlike /\ GroupedSoFar BY <1>1 DEF ConversionInv
<1>3. at \in Nat /\ OldNodes' = OldNodes /\ IsCanonical(canonical)'
  BY <1>1, <1>2 DEF ConversionInv, OldNodes, IsCanonical
<1>4. /\ groups \in Seq(SUBSET OldNodes) /\ groups' \in Seq(SUBSET OldNodes) /\ Len(groups') = Len(groups) + 1
      /\ \A j \in DOMAIN groups' : groups'[j] = IF j \in DOMAIN groups THEN groups[j] ELSE {at}
      /\ DOMAIN groups = 1 .. Len(groups) /\ DOMAIN groups' = 1 .. Len(groups) + 1 /\ Len(groups) \in Nat
  BY <1>1, <1>2 DEF GroupsAlike
<1>5. GroupsAlike'
  <2>1. \A j \in DOMAIN groups' : \A m, n \in groups'[j] : Key(canonical.items[m]) = Key(canonical.items[n])
    BY <1>2, <1>4 DEF GroupsAlike
  <2> QED BY <1>1, <1>3, <1>4, <2>1 DEF GroupsAlike
<1>6. GroupedSoFar'
  <2>1. \A n \in OldNodes : n < at + 1 => (oldToNew'[n] \in 0 .. Len(groups) /\ n \in groups'[oldToNew'[n] + 1])
    <3> SUFFICES ASSUME NEW n \in OldNodes, n < at + 1
                 PROVE  oldToNew'[n] \in 0 .. Len(groups) /\ n \in groups'[oldToNew'[n] + 1]
      OBVIOUS
    <3>1. n \in Nat /\ DOMAIN oldToNew = OldNodes BY <1>2 DEF IsCanonical, OldNodes, GroupedSoFar
    <3>2. CASE n = at BY <1>1, <1>4, <3>1, <3>2
    <3>3. CASE n # at
      <4>1. n < at BY <1>3, <3>1, <3>3
      <4>2. oldToNew[n] \in 0 .. Len(groups) - 1 /\ n \in groups[oldToNew[n] + 1]
        BY <1>1, <1>2, <4>1 DEF GroupedSoFar, IsGrouped, NewNodes
      <4> QED BY <1>1, <1>4, <3>1, <3>3, <4>2
    <3> QED BY <3>2, <3>3
  <2>2. DOMAIN oldToNew' = OldNodes BY <1>1, <1>2 DEF GroupedSoFar
  <2> QED BY <1>1, <1>3, <1>4, <2>1, <2>2 DEF GroupedSoFar, IsGrouped, NewNodes
<1> QED BY <1>1, <1>3, <1>5, <1>6 DEF ConversionInv

LEMMA StartMergeKeeps ==
  ASSUME ConversionInv, StartMerge
  PROVE  ConversionInv'
<1>1. /\ converting = "group" /\ at \notin OldNodes /\ converting' = "merge" /\ at' = 0
      /\ merged' = [n \in NewNodes |-> {}] /\ mergedEdges' = [n \in NewNodes |-> <<>>]
      /\ UNCHANGED <<canonical, groups, oldToNew>>
  BY DEF StartMerge
<1>2. IsCanonical(canonical) /\ GroupsAlike /\ GroupedSoFar /\ at \in Nat BY <1>1 DEF ConversionInv
<1>3. OldNodes' = OldNodes /\ NewNodes' = NewNodes BY <1>1 DEF OldNodes, NewNodes
<1>4. GroupsAlike' /\ IsCanonical(canonical)' BY <1>1, <1>2, <1>3 DEF GroupsAlike, IsCanonical
<1>5. GroupedSoFar'
  <2>1. \A n \in OldNodes : IsGrouped(n) BY <1>1, <1>2, PastTheLast DEF GroupedSoFar
  <2> QED BY <1>1, <1>2, <1>3, <2>1 DEF GroupedSoFar, IsGrouped
<1>6. MergedSoFar' BY <1>1, <1>3 DEF MergedSoFar, NewNodes
<1> QED BY <1>1, <1>3, <1>4, <1>5, <1>6 DEF ConversionInv

LEMMA MergeGroupKeeps ==
  ASSUME ConversionInv, MergeGroup
  PROVE  ConversionInv'
<1>1. /\ converting = "merge" /\ converting' = "merge" /\ at \in NewNodes /\ at' = at + 1
      /\ merged' = [merged EXCEPT ![at] = UNION {canonical.items[n] : n \in groups[at + 1]}]
      /\ UNCHANGED <<canonical, groups, oldToNew, mergedEdges>>
  BY DEF MergeGroup
<1>2. /\ IsCanonical(canonical) /\ GroupsAlike /\ GroupedSoFar /\ at \in Nat /\ MergedSoFar
      /\ DOMAIN merged = NewNodes /\ DOMAIN mergedEdges = NewNodes /\ \A k \in NewNodes : mergedEdges[k] = <<>>
  BY <1>1 DEF ConversionInv
<1>3. OldNodes' = OldNodes /\ NewNodes' = NewNodes BY <1>1 DEF OldNodes, NewNodes
<1>4. GroupsAlike' /\ IsCanonical(canonical)' BY <1>1, <1>2, <1>3 DEF GroupsAlike, IsCanonical
<1>5. GroupedSoFar' BY <1>1, <1>2, <1>3 DEF GroupedSoFar, IsGrouped
<1>6. MergedSoFar'
  <2> SUFFICES ASSUME NEW k \in NewNodes, k < at + 1
               PROVE  merged'[k] = UNION {canonical.items[n] : n \in groups[k + 1]}
    BY <1>1, <1>3 DEF MergedSoFar
  <2>1. CASE k = at BY <1>1, <1>2, <2>1
  <2>2. CASE k # at
    <3>1. k < at BY <1>2, <2>2 DEF NewNodes
    <3> QED BY <1>1, <1>2, <2>2, <3>1 DEF MergedSoFar
  <2> QED BY <2>1, <2>2
<1>7. DOMAIN merged' = NewNodes BY <1>1, <1>2
<1> QED BY <1>1, <1>2, <1>3, <1>4, <1>5, <1>6, <1>7 DEF ConversionInv

LEMMA StartEdgesKeeps ==
  ASSUME ConversionInv, StartEdges
  PROVE  ConversionInv'
<1>1. /\ converting = "merge" /\ converting' = "edges" /\ at \notin NewNodes /\ at' = 0
      /\ UNCHANGED <<canonical, groups, oldToNew, merged, mergedEdges>>
  BY DEF StartEdges
<1>2. /\ IsCanonical(canonical) /\ GroupsAlike /\ GroupedSoFar /\ at \in Nat /\ MergedSoFar
      /\ DOMAIN merged = NewNodes /\ DOMAIN mergedEdges = NewNodes /\ \A k \in NewNodes : mergedEdges[k] = <<>>
  BY <1>1 DEF ConversionInv
<1>3. OldNodes' = OldNodes /\ NewNodes' = NewNodes BY <1>1 DEF OldNodes, NewNodes
<1>4. GroupsAlike' /\ IsCanonical(canonical)' BY <1>1, <1>2, <1>3 DEF GroupsAlike, IsCanonical
<1>5. GroupedSoFar' BY <1>1, <1>2, <1>3 DEF GroupedSoFar, IsGrouped
<1>6. MergedSoFar'
  <2>1. \A k \in NewNodes : k < at BY <1>1, <1>2 DEF NewNodes
  <2> QED BY <1>1, <1>2, <1>3, <2>1 DEF MergedSoFar
<1>7. EdgesSoFar'
  <2>1. \A n \in OldNodes : n \in Nat BY <1>2 DEF IsCanonical, OldNodes
  <2>2. \A s \in NewNodes : DOMAIN mergedEdges[s] = {} BY <1>2
  <2> QED BY <1>1, <1>3, <2>1, <2>2 DEF EdgesSoFar
<1> QED BY <1>1, <1>2, <1>3, <1>4, <1>5, <1>6, <1>7 DEF ConversionInv

LEMMA RewriteEdgesKeeps ==
  ASSUME ConversionInv, RewriteEdges
  PROVE  ConversionInv'
<1> DEFINE from == oldToNew[at]
           here == canonical.edges[at]
           target(X) == oldToNew[(CHOOSE e \in here : e[1] = X)[2]]
           row == [X \in DOMAIN mergedEdges[from] \cup {e[1] : e \in here} |->
                     IF \E e \in here : e[1] = X THEN target(X) ELSE mergedEdges[from][X]]
<1>1. /\ converting = "edges" /\ converting' = "edges" /\ at \in OldNodes /\ at' = at + 1
      /\ UNCHANGED <<canonical, groups, oldToNew, merged>>
  BY DEF RewriteEdges
<1>2. /\ IsCanonical(canonical) /\ GroupsAlike /\ GroupedSoFar /\ at \in Nat /\ MergedSoFar
      /\ DOMAIN merged = NewNodes /\ DOMAIN mergedEdges = NewNodes /\ EdgesSoFar
  BY <1>1 DEF ConversionInv
<1>3. OldNodes' = OldNodes /\ NewNodes' = NewNodes BY <1>1 DEF OldNodes, NewNodes
<1>4. GroupsAlike' /\ IsCanonical(canonical)' BY <1>1, <1>2, <1>3 DEF GroupsAlike, IsCanonical
<1>5. GroupedSoFar' BY <1>1, <1>2, <1>3 DEF GroupedSoFar, IsGrouped
<1>6. MergedSoFar' BY <1>1, <1>2, <1>3 DEF MergedSoFar
<1>7. \A n \in OldNodes : oldToNew[n] \in NewNodes BY <1>1, <1>2 DEF GroupedSoFar, IsGrouped
<1>8. mergedEdges' = [mergedEdges EXCEPT ![from] = row] BY <1>2, <1>7, <1>1 DEF RewriteEdges
<1>9. DOMAIN mergedEdges' = NewNodes /\ mergedEdges'[from] = row /\ \A s \in NewNodes \ {from} : mergedEdges'[s] = mergedEdges[s]
  BY <1>1, <1>2, <1>7, <1>8
<1>10. EdgesSoFar'
  <2>1. ASSUME NEW s \in NewNodes, NEW X \in DOMAIN mergedEdges'[s]
        PROVE  \E m \in OldNodes : \E e \in canonical.edges[m] :
                 oldToNew[m] = s /\ e[1] = X /\ mergedEdges'[s][X] = oldToNew[e[2]]
    <3>1. CASE s = from /\ \E e \in here : e[1] = X
      <4>1. PICK e \in here : e = CHOOSE d \in here : d[1] = X BY <3>1
      <4>2. e[1] = X BY <3>1, <4>1
      <4>3. X \in DOMAIN row BY <3>1, <1>9
      <4>4. mergedEdges'[s][X] = oldToNew[e[2]] BY <3>1, <4>1, <4>3, <1>9
      <4> QED BY <1>1, <3>1, <4>2, <4>4
    <3>2. CASE s = from /\ ~\E e \in here : e[1] = X
      <4>1. X \in DOMAIN mergedEdges[from] /\ mergedEdges'[s][X] = mergedEdges[s][X] BY <3>2, <1>9, <2>1
      <4> QED BY <1>2, <3>2, <4>1 DEF EdgesSoFar, WrittenFor
    <3>3. CASE s # from BY <1>2, <1>9, <3>3, <2>1 DEF EdgesSoFar, WrittenFor
    <3> QED BY <3>1, <3>2, <3>3
  <2>2. ASSUME NEW n \in OldNodes, n < at + 1, NEW e \in canonical.edges[n]
        PROVE  e[1] \in DOMAIN mergedEdges'[oldToNew[n]]
    <3>1. CASE n = at BY <1>9, <3>1
    <3>2. CASE n # at
      <4>1. n < at BY <1>2, <2>2, <3>2 DEF IsCanonical, OldNodes
      <4>2. e[1] \in DOMAIN mergedEdges[oldToNew[n]] BY <1>1, <1>2, <4>1 DEF EdgesSoFar
      <4>3. CASE oldToNew[n] = from BY <1>9, <4>2, <4>3
      <4>4. CASE oldToNew[n] # from BY <1>7, <1>9, <4>2, <4>4
      <4> QED BY <4>3, <4>4
    <3> QED BY <3>1, <3>2
  <2> QED BY <1>1, <1>3, <2>1, <2>2 DEF EdgesSoFar, WrittenFor
<1> QED BY <1>1, <1>2, <1>3, <1>4, <1>5, <1>6, <1>9, <1>10 DEF ConversionInv

LEMMA FinishEdgesKeeps ==
  ASSUME ConversionInv, FinishEdges
  PROVE  ConversionInv'
<1>1. converting = "edges" /\ at \notin OldNodes /\ converting' = "done" /\ UNCHANGED <<canonical, groups, oldToNew, merged, mergedEdges, at>>
  BY DEF FinishEdges
<1>2. /\ IsCanonical(canonical) /\ GroupsAlike /\ GroupedSoFar /\ at \in Nat /\ MergedSoFar
      /\ DOMAIN merged = NewNodes /\ DOMAIN mergedEdges = NewNodes /\ EdgesSoFar
  BY <1>1 DEF ConversionInv
<1>3. OldNodes' = OldNodes /\ NewNodes' = NewNodes BY <1>1 DEF OldNodes, NewNodes
<1>4. GroupsAlike' /\ IsCanonical(canonical)' BY <1>1, <1>2, <1>3 DEF GroupsAlike, IsCanonical
<1>5. GroupedSoFar' BY <1>1, <1>2, <1>3 DEF GroupedSoFar, IsGrouped
<1>6. MergedSoFar' BY <1>1, <1>2, <1>3 DEF MergedSoFar
<1>7. EdgesSoFar'
  <2>1. \A n \in OldNodes : n < at BY <1>1, <1>2, PastTheLast
  <2> QED BY <1>1, <1>2, <1>3, <2>1 DEF EdgesSoFar, WrittenFor
<1> QED BY <1>1, <1>2, <1>3, <1>4, <1>5, <1>6, <1>7 DEF ConversionInv

LEMMA StutterKeeps ==
  ASSUME ConversionInv, UNCHANGED converterVars
  PROVE  ConversionInv'
BY DEF converterVars, ConversionInv, IsCanonical, GroupsAlike, GroupedSoFar, IsGrouped, MergedSoFar, EdgesSoFar,
       WrittenFor, OldNodes, NewNodes

\* Whatever canonical automaton convert is called with, the merged one follows every
\* transition of it, to a node with the core of the canonical target.
THEOREM ConversionKeepsEdges ==
  ASSUME NEW automata, \A c \in automata : IsCanonical(c)
  PROVE  ConvertSpec(automata) => []EdgesKeepCore
<1>1. ConverterInit => ConversionInv BY DEF ConverterInit, ConversionInv
<1>2. ASSUME ConversionInv, [(\E c \in automata : ConvertAutomaton(c)) \/ ConverterNext]_converterVars PROVE ConversionInv'
  <2>1. CASE \E c \in automata : ConvertAutomaton(c) BY <1>2, <2>1, CallKeeps
  <2>2. CASE JoinGroup BY <1>2, <2>2, JoinGroupKeeps
  <2>3. CASE NewGroup BY <1>2, <2>3, NewGroupKeeps
  <2>4. CASE StartMerge BY <1>2, <2>4, StartMergeKeeps
  <2>5. CASE MergeGroup BY <1>2, <2>5, MergeGroupKeeps
  <2>6. CASE StartEdges BY <1>2, <2>6, StartEdgesKeeps
  <2>7. CASE RewriteEdges BY <1>2, <2>7, RewriteEdgesKeeps
  <2>8. CASE FinishEdges BY <1>2, <2>8, FinishEdgesKeeps
  <2>9. CASE UNCHANGED converterVars BY <1>2, <2>9, StutterKeeps
  <2> QED BY <1>2, <2>1, <2>2, <2>3, <2>4, <2>5, <2>6, <2>7, <2>8, <2>9 DEF ConverterNext
<1> QED BY <1>1, <1>2, InvariantGivesEdges, PTL DEF ConvertSpec

-----------------------------------------------------------------------------
(***************************************************************************)
(* The tables, for every grammar with its declarations and every automaton *)
(* the builder can read: whatever the order of the writes, a cell ends     *)
(* with the entry that all its claims decide.                              *)
(***************************************************************************)
\* The first place where something is found.
LEMMA FirstIndexIsLeast ==
  ASSUME NEW T \in SUBSET Nat, T # {}
  PROVE  FirstIndex(T) \in T /\ \A k \in T : FirstIndex(T) <= k
BY LeastOf DEF FirstIndex

\* Levels of symbols can be compared.
LEMMA LevelsAreNumbers ==
  ASSUME NEW g, NEW c, IsReadable(g, c), NEW X
  PROVE  PrecedenceOf(g, X).level \in Int
<1> DEFINE naming == {d \in DOMAIN g.declarations : X \in g.declarations[d].symbols}
<1>1. CASE naming = {} BY <1>1 DEF PrecedenceOf
<1>2. CASE naming # {}
  <2>1. naming \in SUBSET Nat BY DEF IsReadable
  <2>2. FirstIndex(naming) \in naming BY <1>2, <2>1, FirstIndexIsLeast
  <2>3. g.declarations[FirstIndex(naming)] \in Elements(g.declarations) BY <2>2 DEF Elements
  <2> QED BY <1>2, <2>3 DEF PrecedenceOf, IsReadable
<1> QED BY <1>1, <1>2

\* What a claim looks like.
IsShift(c)  == c = ShiftTo(c.to)
IsReduce(c) == c = ReduceBy(c.to) /\ c.to \in Int

\* A shift against a reduction: one of the two or the error, and which of them does not
\* depend on where the shift leads.
LEMMA Verdict ==
  ASSUME NEW g, NEW c, IsReadable(g, c), NEW s, IsShift(s), NEW t, IsShift(t), NEW r, IsReduce(r), NEW a
  PROVE  /\ ByPrecedence(g, s, r, a) \in {s, r, ErrorEntry}
         /\ ByPrecedence(g, s, r, a) = s <=> ByPrecedence(g, t, r, a) = t
         /\ ByPrecedence(g, s, r, a) = r <=> ByPrecedence(g, t, r, a) = r
         /\ ByPrecedence(g, s, r, a) = ErrorEntry <=> ByPrecedence(g, t, r, a) = ErrorEntry
<1> DEFINE token == PrecedenceOf(g, a)
           prod  == PrecedenceOf(g, ProductionPrecedenceSymbol(g, r.to))
<1>1. token.level \in Int /\ prod.level \in Int BY LevelsAreNumbers
<1>2. s # r /\ t # r /\ s # ErrorEntry /\ t # ErrorEntry /\ r # ErrorEntry
  BY DEF IsShift, IsReduce, ShiftTo, ReduceBy, ErrorEntry
<1> HIDE DEF token, prod
<1>3. \A u : Prefer(token, prod, u, r) =
         IF ~(token.level >= 0 /\ prod.level >= 0) \/ token.level > prod.level THEN u
         ELSE IF token.level < prod.level \/ token.associativity = "left" THEN r
         ELSE IF token.associativity = "right" THEN u ELSE ErrorEntry
  BY <1>1 DEF Prefer
<1> QED BY <1>2, <1>3 DEF ByPrecedence, token, prod

-----------------------------------------------------------------------------
(***************************************************************************)
(* One write into a cell.                                                  *)
(***************************************************************************)
IsRow(row) ==
  /\ row = [action |-> row.action, goto |-> row.goto, conflicts |-> row.conflicts]
  /\ row.action = [a \in DOMAIN row.action |-> row.action[a]]

\* What a write leaves: its own cell of ACTION changed and nothing else.
Wrote(g, row, b, c, after) ==
  /\ IsRow(after) /\ after.goto = row.goto
  /\ DOMAIN after.action = DOMAIN row.action \cup {b}
  /\ \A a \in DOMAIN row.action : a # b => after.action[a] = row.action[a]
  /\ b \notin DOMAIN row.action \/ c.kind = "acc" => after.action[b] = c
  /\ b \in DOMAIN row.action /\ c.kind # "acc" =>
       after.action[b] = IF row.action[b] = c THEN c ELSE ResolveConflict(g, row.action[b], c, b)
  /\ \A a : a \in after.conflicts <=>
       a \in row.conflicts \/ (a = b /\ b \in DOMAIN row.action /\ c.kind # "acc" /\ row.action[b] # c)

LEMMA WriteChangesOneCell ==
  ASSUME NEW g, NEW row, IsRow(row), NEW b, NEW c
  PROVE  Wrote(g, row, b, c, Write(g, row, b, c))
<1> DEFINE after == Write(g, row, b, c)
<1>1. CASE b \notin DOMAIN row.action \/ c.kind = "acc"
  BY <1>1 DEF Write, IsRow, Wrote
<1>2. CASE b \in DOMAIN row.action /\ c.kind # "acc" /\ row.action[b] = c
  BY <1>2 DEF Write, IsRow, Wrote
<1>3. CASE b \in DOMAIN row.action /\ c.kind # "acc" /\ row.action[b] # c
  <2>1. after = [row EXCEPT !.action[b] = ResolveConflict(g, row.action[b], c, b),
                            !.conflicts = row.conflicts \cup {b}]
    BY <1>3 DEF Write
  <2> DEFINE v == ResolveConflict(g, row.action[b], c, b)
  <2> HIDE DEF v
  <2>2. after.action = [row.action EXCEPT ![b] = v] /\ after.goto = row.goto
        /\ after = [action |-> after.action, goto |-> row.goto, conflicts |-> after.conflicts]
        /\ after.conflicts = row.conflicts \cup {b}
    BY <2>1 DEF v, IsRow
  <2> QED BY <1>3, <2>2 DEF v, IsRow, Wrote
<1> QED BY <1>1, <1>2, <1>3

\* A further shift.  There is no reduction yet.
LEMMA ShiftDecides ==
  ASSUME NEW g, NEW action, NEW after, NEW a, NEW shifts, NEW s, IsShift(s), \A t \in shifts : IsShift(t),
         Decided(g, action, shifts, {}, {}, a), a \in DOMAIN after,
         a \notin DOMAIN action => after[a] = s,
         a \in DOMAIN action => after[a] = IF action[a] = s THEN s ELSE ResolveConflict(g, action[a], s, a)
  PROVE  Decided(g, after, shifts \cup {s}, {}, {}, a)
<1>1. Verdicts(g, shifts, {}, a) = {} /\ Verdicts(g, shifts \cup {s}, {}, a) = {} BY DEF Verdicts
<1>2. after[a] \in shifts \cup {s}
  <2>1. CASE a \notin DOMAIN action BY <2>1
  <2>2. CASE a \in DOMAIN action
    <3>1. action[a] \in shifts BY <1>1, <2>2 DEF Decided
    <3>2. ResolveConflict(g, action[a], s, a) = action[a]
      BY <3>1 DEF ResolveConflict, IsShift, ShiftTo
    <3> QED BY <2>2, <3>1, <3>2
  <2> QED BY <2>1, <2>2
<1> QED BY <1>1, <1>2 DEF Decided

\* Accept.
LEMMA AcceptDecides ==
  ASSUME NEW g, NEW after, NEW a, NEW shifts, NEW reduces, a \in DOMAIN after, after[a] = AcceptIt
  PROVE  Decided(g, after, shifts, reduces, {AcceptIt}, a)
BY DEF Decided

\* A further reduction, which meets whatever the claims so far have left in the cell.
LEMMA ReduceDecides ==
  ASSUME NEW g, NEW c, IsReadable(g, c), NEW action, NEW after, NEW a,
         NEW shifts, \A t \in shifts : IsShift(t), NEW reduces, \A q \in reduces : IsReduce(q),
         NEW accepts \in {{}, {AcceptIt}}, NEW r, IsReduce(r),
         Decided(g, action, shifts, reduces, accepts, a), a \in DOMAIN after,
         a \notin DOMAIN action => after[a] = r,
         a \in DOMAIN action => after[a] = IF action[a] = r THEN r ELSE ResolveConflict(g, action[a], r, a)
  PROVE  Decided(g, after, shifts, reduces \cup {r}, accepts, a)
<1> DEFINE old == Verdicts(g, shifts, reduces, a)
           new == Verdicts(g, shifts, reduces \cup {r}, a)
           all == reduces \cup {r}
<1>1. new = old \cup {ByPrecedence(g, s, r, a) : s \in shifts} BY DEF Verdicts
<1>2. \A v \in old : v \in shifts \/ v \in reduces \/ v = ErrorEntry
  <2> SUFFICES ASSUME NEW v \in old PROVE v \in shifts \/ v \in reduces \/ v = ErrorEntry OBVIOUS
  <2>1. PICK s \in shifts, q \in reduces : v = ByPrecedence(g, s, q, a) BY DEF Verdicts
  <2>2. v \in {s, q, ErrorEntry} BY <2>1, Verdict
  <2> QED BY <2>2
<1>3. reduces # {} /\ shifts # {} => old # {} BY DEF Verdicts
<1>4. \A s \in shifts : \A t \in shifts :
        /\ ByPrecedence(g, s, r, a) \in {s, r, ErrorEntry}
        /\ ByPrecedence(g, s, r, a) = s <=> ByPrecedence(g, t, r, a) = t
  BY Verdict
<1>5. /\ \A s \in shifts : s.kind = "s" /\ s # r /\ s # ErrorEntry /\ s \notin reduces
      /\ \A q \in all : q.kind = "r" /\ q # ErrorEntry /\ q.to \in Int
      /\ r.kind = "r" /\ r.to \in Int /\ r # ErrorEntry /\ r # AcceptIt
  BY DEF IsShift, IsReduce, ShiftTo, ReduceBy, ErrorEntry, AcceptIt
<1>6. \A q \in reduces : q # r => ResolveConflict(g, q, r, a) = IF q.to <= r.to THEN q ELSE r
  BY <1>5 DEF ResolveConflict
<1>7. ResolveConflict(g, ErrorEntry, r, a) = ErrorEntry /\ ResolveConflict(g, AcceptIt, r, a) = AcceptIt
  BY DEF ResolveConflict, ErrorEntry, AcceptIt
<1>8. \A s \in shifts : ResolveConflict(g, s, r, a) = ByPrecedence(g, s, r, a)
  BY <1>5 DEF ResolveConflict
<1>9. \A q : q \in Lowest(reduces) /\ q.to <= r.to => q \in Lowest(all)
  BY <1>5 DEF Lowest
<1>10. \A q : q \in Lowest(reduces) /\ ~ q.to <= r.to => r \in Lowest(all)
  BY <1>5 DEF Lowest
<1>11. reduces = {} => r \in Lowest(all)
  BY <1>5 DEF Lowest
<1> HIDE DEF old, new, all
<1>12. CASE accepts = {AcceptIt}
  <2>1. a \in DOMAIN action /\ action[a] = AcceptIt BY <1>12 DEF Decided
  <2> QED BY <1>5, <1>7, <1>12, <2>1 DEF Decided
<1>13. CASE accepts = {} /\ shifts = {}
  <2>1. Verdicts(g, shifts, reduces \cup {r}, a) = {} BY <1>13 DEF Verdicts
  <2>2. after[a] \in Lowest(all)
    <3>1. CASE reduces = {}
      BY <1>11, <1>13, <3>1 DEF Decided
    <3>2. CASE reduces # {}
      <4>1. a \in DOMAIN action /\ action[a] \in Lowest(reduces) BY <1>13, <3>2 DEF Decided
      <4>2. action[a] \in reduces BY <4>1 DEF Lowest
      <4>3. after[a] = IF action[a] = r \/ ~ action[a].to <= r.to THEN r ELSE action[a]
        BY <1>6, <4>1, <4>2
      <4>4. r.to <= r.to BY <1>5
      <4> QED BY <1>9, <1>10, <4>1, <4>3, <4>4
    <3> QED BY <3>1, <3>2
  <2> QED BY <1>13, <2>1, <2>2 DEF Decided, all
<1>14. CASE accepts = {} /\ shifts # {} /\ old \subseteq shifts
  <2>1. a \in DOMAIN action /\ action[a] \in shifts
    BY <1>14 DEF Decided, old
  <2> DEFINE v == ByPrecedence(g, action[a], r, a)
  <2>2. after[a] = v BY <1>5, <1>8, <2>1
  <2>3. v \in new BY <1>1, <2>1
  <2>4. v \in {action[a], r, ErrorEntry} BY <1>4, <2>1
  <2>5. v = action[a] => new \subseteq shifts BY <1>1, <1>4, <1>14, <2>1
  <2>6. new \subseteq all => old = {} BY <1>1, <1>2, <1>5, <1>14 DEF all
  <2>7. v = r /\ new \subseteq all => v \in Lowest(all) BY <1>3, <1>11, <1>14, <2>6
  <2> HIDE DEF v
  <2>8. /\ new \subseteq shifts => v \in shifts
        /\ new \subseteq all => v \in Lowest(all)
        /\ new = {ErrorEntry} => v = ErrorEntry
        /\ ~ new \subseteq shifts => v \in all \cup (new \cap {ErrorEntry})
    BY <1>5, <2>1, <2>3, <2>4, <2>5, <2>7 DEF all
  <2> QED BY <1>14, <2>2, <2>8 DEF Decided, new, all
<1>15. CASE accepts = {} /\ shifts # {} /\ ~ old \subseteq shifts
  <2>1. a \in DOMAIN action /\ action[a] \in reduces \cup (old \cap {ErrorEntry})
    BY <1>15 DEF Decided, old
  <2>2. old # {} /\ ~ new \subseteq shifts BY <1>1, <1>15
  <2>3. CASE action[a] = ErrorEntry /\ action[a] \in old
    <3>1. after[a] = ErrorEntry BY <1>5, <1>7, <2>1, <2>3
    <3>2. ErrorEntry \in new /\ ~ new \subseteq all BY <1>1, <1>5, <2>3
    <3> QED BY <1>15, <2>2, <3>1, <3>2 DEF Decided, new, all
  <2>4. CASE action[a] \in reduces
    <3>1. after[a] = IF action[a] = r \/ ~ action[a].to <= r.to THEN r ELSE action[a]
      BY <1>6, <2>1, <2>4
    <3>2. after[a] \in all BY <2>4, <3>1 DEF all
    <3>3. new # {ErrorEntry}
      <4>1. new = {ErrorEntry} => old = {ErrorEntry} BY <1>1, <2>2
      <4>2. old = {ErrorEntry} => action[a] = ErrorEntry BY <1>15 DEF Decided, old
      <4>3. action[a] # ErrorEntry BY <1>5, <2>4 DEF all
      <4> QED BY <4>1, <4>2, <4>3
    <3>4. ASSUME new \subseteq all PROVE after[a] \in Lowest(all)
      <4>1. \A v \in old : v \in reduces
        <5> SUFFICES ASSUME NEW v \in old PROVE v \in reduces OBVIOUS
        <5>1. PICK s \in shifts, q \in reduces : v = ByPrecedence(g, s, q, a) BY DEF old, Verdicts
        <5>2. v \in {s, q, ErrorEntry} BY <5>1, Verdict
        <5>3. v \in all BY <1>1, <3>4
        <5> QED BY <1>5, <5>2, <5>3
      <4>2. action[a] \in Lowest(reduces) BY <1>15, <2>2, <4>1 DEF Decided, old
      <4>3. r.to <= r.to BY <1>5
      <4> QED BY <1>9, <1>10, <3>1, <4>2, <4>3
    <3> QED BY <1>15, <2>2, <3>2, <3>3, <3>4 DEF Decided, new, all
  <2> QED BY <2>1, <2>3, <2>4
<1> QED BY <1>12, <1>13, <1>14, <1>15

\* The same, with what is known of the claims and of the cell named.
AreClaims(shifts, reduces, accepts) ==
  /\ \A t \in shifts : IsShift(t)
  /\ \A q \in reduces : IsReduce(q)
  /\ accepts \in {{}, {AcceptIt}}
Gets(g, action, after, r, a) ==
  /\ a \in DOMAIN after
  /\ a \notin DOMAIN action => after[a] = r
  /\ a \in DOMAIN action => after[a] = IF action[a] = r THEN r ELSE ResolveConflict(g, action[a], r, a)
LEMMA ReductionDecides ==
  ASSUME NEW g, NEW c, IsReadable(g, c), NEW action, NEW after, NEW a, NEW r, IsReduce(r),
         NEW shifts, NEW reduces, NEW accepts, AreClaims(shifts, reduces, accepts),
         Decided(g, action, shifts, reduces, accepts, a), Gets(g, action, after, r, a)
  PROVE  Decided(g, after, shifts, reduces \cup {r}, accepts, a)
<1>1. /\ \A t \in shifts : IsShift(t)
      /\ \A q \in reduces : IsReduce(q)
      /\ accepts \in {{}, {AcceptIt}}
  BY DEF AreClaims
<1>2. /\ a \in DOMAIN after
      /\ a \notin DOMAIN action => after[a] = r
      /\ a \in DOMAIN action => after[a] = IF action[a] = r THEN r ELSE ResolveConflict(g, action[a], r, a)
  BY DEF Gets
<1> QED BY <1>1, <1>2, ReduceDecides

-----------------------------------------------------------------------------
(***************************************************************************)
(* One iteration of a loop: the claims that an edge or an item adds, and   *)
(* the row that its write makes.                                           *)
(***************************************************************************)
\* The row holds what the edges and items say, no more and no less, and so does its report.
RowDecided(g, row, edges, items) ==
  /\ Routed(g, row.goto, edges)
  /\ \A a : Decided(g, row.action, Shifts(g, edges, a), Reductions(g, items, a), Accepts(items, a), a)
RowReported(g, row, edges, items) ==
  \A a : Reported(row.conflicts, Shifts(g, edges, a), Reductions(g, items, a), Accepts(items, a), a)
RowExact(g, row, edges, items) == RowDecided(g, row, edges, items) /\ RowReported(g, row, edges, items)

\* Claims are shifts, reductions and accept.
LEMMA ClaimsAreClaims ==
  ASSUME NEW g, NEW c, IsReadable(g, c), NEW edges, NEW items, NEW a
  PROVE  /\ \A t \in Shifts(g, edges, a) : IsShift(t)
         /\ \A q \in Reductions(g, items, a) : IsReduce(q)
         /\ Accepts(items, a) \in {{}, {AcceptIt}}
<1>1. DOMAIN g.producers \subseteq Int BY DEF IsReadable
<1> QED BY <1>1 DEF Shifts, Reductions, Accepts, IsShift, IsReduce, ShiftTo, ReduceBy

\* The edges come before the items.
LEMMA NoItemNoClaim ==
  ASSUME NEW g, NEW a
  PROVE  Reductions(g, {}, a) = {} /\ Accepts({}, a) = {}
BY DEF Reductions, Accepts

\* What a cell is decided to be depends on its own entry only.
LEMMA OtherCells ==
  ASSUME NEW g, NEW action, NEW after, NEW a, a \in DOMAIN action <=> a \in DOMAIN after,
         a \in DOMAIN action => after[a] = action[a],
         NEW shifts, NEW reduces, NEW accepts, Decided(g, action, shifts, reduces, accepts, a)
  PROVE  Decided(g, after, shifts, reduces, accepts, a)
<1>1. CASE a \in DOMAIN action BY <1>1 DEF Decided
<1>2. CASE a \notin DOMAIN action
  <2>1. shifts = {} /\ reduces = {} /\ accepts = {} BY <1>2 DEF Decided
  <2>2. Verdicts(g, shifts, reduces, a) = {} BY <2>1 DEF Verdicts
  <2> QED BY <1>2, <2>1, <2>2 DEF Decided
<1> QED BY <1>1, <1>2

\* An edge.
LEMMA EdgeDecides ==
  ASSUME NEW g, NEW c, IsReadable(g, c), NEW row, IsRow(row), NEW edges, RowDecided(g, row, edges, {}), NEW e
  PROVE  IsRow(AfterEdge(g, row, e)) /\ RowDecided(g, AfterEdge(g, row, e), edges \cup {e}, {})
<1> DEFINE after == AfterEdge(g, row, e)
           more == edges \cup {e}
           shift == ShiftTo(e[2])
<1>1. CASE IsTerminalSymbol(g, e[1])
  <2>1. \A a : Shifts(g, more, a) = Shifts(g, edges, a) \cup (IF a = e[1] THEN {ShiftTo(e[2])} ELSE {})
    BY <1>1 DEF Shifts
  <2>2. after = Write(g, row, e[1], ShiftTo(e[2])) BY <1>1 DEF AfterEdge
  <2>3. Routed(g, row.goto, more) BY <1>1 DEF Routed, RowDecided
  <2> HIDE DEF after, more
  <2>4. shift.kind # "acc" /\ IsShift(shift) BY DEF shift, ShiftTo, IsShift
  <2> HIDE DEF shift
  <2>5. /\ IsRow(after) /\ after.goto = row.goto
        /\ DOMAIN after.action = DOMAIN row.action \cup {e[1]}
        /\ \A a \in DOMAIN row.action : a # e[1] => after.action[a] = row.action[a]
        /\ e[1] \notin DOMAIN row.action => after.action[e[1]] = shift
        /\ e[1] \in DOMAIN row.action =>
             after.action[e[1]] = IF row.action[e[1]] = shift THEN shift
                                  ELSE ResolveConflict(g, row.action[e[1]], shift, e[1])
    <3>1. after = Write(g, row, e[1], shift) BY <2>2 DEF shift
    <3>2. Wrote(g, row, e[1], shift, after) BY <3>1, WriteChangesOneCell
    <3> QED BY <2>4, <3>2 DEF Wrote
  <2>6. ASSUME NEW a
        PROVE  Decided(g, after.action, Shifts(g, more, a), Reductions(g, {}, a), Accepts({}, a), a)
    <3>1. Decided(g, row.action, Shifts(g, edges, a), {}, {}, a) BY NoItemNoClaim DEF RowDecided
    <3>2. \A t \in Shifts(g, edges, a) : IsShift(t) BY ClaimsAreClaims
    <3>3. CASE a = e[1]
      <4>1. Shifts(g, more, a) = Shifts(g, edges, a) \cup {shift} BY <2>1, <3>3 DEF shift
      <4>2. Decided(g, after.action, Shifts(g, edges, a) \cup {shift}, {}, {}, a)
        BY <2>5, <2>4, <3>1, <3>2, <3>3, ShiftDecides
      <4> QED BY <4>1, <4>2, NoItemNoClaim
    <3>4. CASE a # e[1]
      <4>1. Shifts(g, more, a) = Shifts(g, edges, a) BY <2>1, <3>4
      <4>2. Decided(g, after.action, Shifts(g, edges, a), {}, {}, a) BY <2>5, <3>1, <3>4, OtherCells
      <4> QED BY <4>1, <4>2, NoItemNoClaim
    <3> QED BY <3>3, <3>4
  <2> QED BY <2>3, <2>5, <2>6 DEF RowDecided, after, more
<1>2. CASE ~IsTerminalSymbol(g, e[1])
  <2> DEFINE goto == [A \in DOMAIN row.goto \cup {e[1]} |-> IF A = e[1] THEN e[2] ELSE row.goto[A]]
  <2>1. \A a : Shifts(g, more, a) = Shifts(g, edges, a) BY <1>2 DEF Shifts
  <2>2. after = [row EXCEPT !.goto = goto] BY <1>2 DEF AfterEdge
  <2>3. Routed(g, row.goto, edges) BY DEF RowDecided
  <2>4. Routed(g, goto, more)
    <3>1. DOMAIN goto = {d[1] : d \in {f \in more : ~IsTerminalSymbol(g, f[1])}} BY <1>2, <2>3 DEF Routed
    <3>2. \A A \in DOMAIN goto : \E d \in more : d[1] = A /\ goto[A] = d[2] BY <2>3 DEF Routed
    <3> QED BY <3>1, <3>2 DEF Routed
  <2> HIDE DEF goto
  <2>5. after = [action |-> row.action, goto |-> goto, conflicts |-> row.conflicts] BY <2>2 DEF IsRow
  <2>6. after.action = row.action /\ after.goto = goto /\ IsRow(after) BY <2>5 DEF IsRow
  <2> HIDE DEF after, more
  <2> QED BY <2>1, <2>4, <2>6 DEF RowDecided, after, more
<1> QED BY <1>1, <1>2

\* The claim c comes to a cell where the claims so far are reported: the entry is one of them,
\* so that c meets another one just if it differs from it.
LEMMA SingleClaim ==
  ASSUME NEW g, NEW action, NEW a, NEW shifts, NEW reduces, NEW accepts, AreClaims(shifts, reduces, accepts),
         Decided(g, action, shifts, reduces, accepts, a),
         NEW d, shifts \cup reduces \cup accepts = {d}
  PROVE  a \in DOMAIN action /\ action[a] = d
<1>1. a \in DOMAIN action BY DEF Decided
<1>2. shifts = {} \/ reduces = {}
  <2>1. ASSUME d \in shifts, d \in reduces PROVE FALSE
    <3>1. IsShift(d) /\ IsReduce(d) BY <2>1 DEF AreClaims
    <3> QED BY <3>1 DEF IsShift, IsReduce, ShiftTo, ReduceBy
  <2> QED BY <2>1
<1>3. Verdicts(g, shifts, reduces, a) = {} BY <1>2 DEF Verdicts
<1>4. CASE accepts # {} BY <1>4 DEF Decided
<1>5. CASE accepts = {} /\ shifts # {} BY <1>3, <1>5 DEF Decided
<1>6. CASE accepts = {} /\ shifts = {}
  <2>1. reduces # {} BY <1>6
  <2>2. action[a] \in Lowest(reduces) BY <1>6, <2>1 DEF Decided
  <2>3. Lowest(reduces) \subseteq reduces BY DEF Lowest
  <2>4. reduces \subseteq {d} OBVIOUS
  <2> QED BY <1>1, <2>2, <2>3, <2>4
<1> QED BY <1>1, <1>4, <1>5, <1>6

LEMMA ClaimReports ==
  ASSUME NEW g, NEW action, NEW a, NEW shifts, NEW reduces, NEW accepts, AreClaims(shifts, reduces, accepts),
         Decided(g, action, shifts, reduces, accepts, a),
         NEW conflicts, Reported(conflicts, shifts, reduces, accepts, a),
         NEW c, NEW moreShifts, NEW moreReduces, moreShifts \cup moreReduces = shifts \cup reduces \cup {c},
         NEW more, a \in more <=> a \in conflicts \/ (a \in DOMAIN action /\ action[a] # c)
  PROVE  Reported(more, moreShifts, moreReduces, accepts, a)
<1> DEFINE claims == shifts \cup reduces \cup accepts
           all == moreShifts \cup moreReduces \cup accepts
           Contested(set) == \E x, y \in set : x # y
<1>1. all = claims \cup {c} BY DEF all, claims
<1>2. (a \in conflicts => Contested(claims)) /\ (Contested(claims) /\ accepts = {} => a \in conflicts)
  BY DEF Reported
<1>3. a \in DOMAIN action <=> claims # {} BY DEF Decided
<1>4. \A d : claims = {d} => action[a] = d BY SingleClaim
<1>5. claims = {} \/ (\E d : claims = {d}) \/ Contested(claims)
  <2> SUFFICES ASSUME claims # {}, ~ Contested(claims) PROVE \E d : claims = {d} OBVIOUS
  <2>1. PICK d : d \in claims OBVIOUS
  <2>2. claims = {d} BY <2>1
  <2> QED BY <2>2
<1> HIDE DEF claims, all
<1>6. a \in more => Contested(all)
  <2> SUFFICES ASSUME a \in more PROVE Contested(all) OBVIOUS
  <2>1. CASE Contested(claims) BY <1>1, <2>1
  <2>2. CASE ~ Contested(claims)
    <3>1. a \in DOMAIN action /\ action[a] # c BY <1>2, <2>2
    <3>2. PICK d : claims = {d} BY <1>3, <1>5, <2>2, <3>1
    <3>3. d # c BY <1>4, <3>1, <3>2
    <3> QED BY <1>1, <3>2, <3>3
  <2> QED BY <2>1, <2>2
<1>7. Contested(all) /\ accepts = {} => a \in more
  <2> SUFFICES ASSUME Contested(all), accepts = {} PROVE a \in more OBVIOUS
  <2>1. CASE Contested(claims) BY <1>2, <2>1
  <2>2. CASE ~ Contested(claims)
    <3>1. claims # {} BY <1>1
    <3>2. PICK d : claims = {d} BY <1>5, <2>2, <3>1
    <3>3. d # c BY <1>1, <3>2
    <3> QED BY <1>3, <1>4, <3>2, <3>3
  <2> QED BY <2>1, <2>2
<1> QED BY <1>6, <1>7 DEF Reported, all

LEMMA EdgeReports ==
  ASSUME NEW g, NEW c, IsReadable(g, c), NEW row, IsRow(row), NEW edges, RowExact(g, row, edges, {}), NEW e
  PROVE  RowReported(g, AfterEdge(g, row, e), edges \cup {e}, {})
<1> DEFINE after == AfterEdge(g, row, e)
           more == edges \cup {e}
<1> SUFFICES ASSUME NEW a PROVE Reported(after.conflicts, Shifts(g, more, a), {}, {}, a)
  BY NoItemNoClaim DEF RowReported
<1>1. Decided(g, row.action, Shifts(g, edges, a), {}, {}, a) /\ Reported(row.conflicts, Shifts(g, edges, a), {}, {}, a)
  BY NoItemNoClaim DEF RowExact, RowDecided, RowReported
<1>2. CASE IsTerminalSymbol(g, e[1])
  <2> DEFINE shift == ShiftTo(e[2])
  <2>1. Shifts(g, more, a) = Shifts(g, edges, a) \cup (IF a = e[1] THEN {shift} ELSE {})
    BY <1>2 DEF Shifts
  <2>2. Wrote(g, row, e[1], shift, after) BY <1>2, WriteChangesOneCell DEF AfterEdge
  <2>3. shift.kind # "acc" BY DEF ShiftTo
  <2> HIDE DEF after, more, shift
  <2>4. CASE a = e[1]
    <3>1. AreClaims(Shifts(g, edges, a), {}, {}) BY ClaimsAreClaims DEF AreClaims
    <3>2. a \in after.conflicts <=> a \in row.conflicts \/ (a \in DOMAIN row.action /\ row.action[a] # shift)
      BY <2>2, <2>3, <2>4 DEF Wrote
    <3> DEFINE earlier == Shifts(g, edges, a)
               later   == Shifts(g, more, a)
               none    == {}
    <3>3. later \cup none = earlier \cup none \cup {shift} BY <2>1, <2>4
    <3> HIDE DEF earlier, later, none
    <3>4. /\ AreClaims(earlier, none, none) /\ Decided(g, row.action, earlier, none, none, a)
          /\ Reported(row.conflicts, earlier, none, none, a)
      BY <1>1, <3>1 DEF earlier, none
    <3>5. Reported(after.conflicts, later, none, none, a) BY <3>2, <3>3, <3>4, ClaimReports
    <3> QED BY <3>5 DEF later, none
  <2>5. CASE a # e[1]
    <3>1. a \in after.conflicts <=> a \in row.conflicts BY <2>2, <2>5 DEF Wrote
    <3> QED BY <1>1, <2>1, <2>5, <3>1 DEF Reported
  <2> QED BY <2>4, <2>5
<1>3. CASE ~IsTerminalSymbol(g, e[1])
  <2>1. Shifts(g, more, a) = Shifts(g, edges, a) BY <1>3 DEF Shifts
  <2>2. after.conflicts = row.conflicts BY <1>3 DEF AfterEdge, IsRow
  <2> QED BY <1>1, <2>1, <2>2
<1> QED BY <1>2, <1>3

LEMMA EdgeStep ==
  ASSUME NEW g, NEW c, IsReadable(g, c), NEW row, IsRow(row), NEW edges, RowExact(g, row, edges, {}), NEW e
  PROVE  IsRow(AfterEdge(g, row, e)) /\ RowExact(g, AfterEdge(g, row, e), edges \cup {e}, {})
BY EdgeDecides, EdgeReports DEF RowExact

\* The reductions that an item adds.
LEMMA ReductionOf ==
  ASSUME NEW g, NEW c, IsReadable(g, c), NEW items, NEW x, NEW a
  PROVE  LET k == ProductionIndex(g, x[1])
             new == IsComplete(x[1]) /\ x[2] = a /\ k > 0
         IN  Reductions(g, items \cup {x}, a) = Reductions(g, items, a) \cup (IF new THEN {ReduceBy(k)} ELSE {})
<1> DEFINE same == {k \in DOMAIN g.producers : Produces(g.producers[k], x[1])}
           First(j) == \A l \in 1 .. j - 1 : ~Produces(g.producers[l], g.producers[j])
           k == ProductionIndex(g, x[1])
           Claims(y) == {j \in DOMAIN g.producers :
                           First(j) /\ IsComplete(y[1]) /\ y[2] = a /\ Produces(g.producers[j], y[1])}
<1>1. DOMAIN g.producers = 1 .. Len(g.producers) /\ Len(g.producers) \in Nat BY DEF IsReadable
<1>2. \A j, l \in DOMAIN g.producers :
        Produces(g.producers[j], x[1]) => (Produces(g.producers[l], g.producers[j]) <=> Produces(g.producers[l], x[1]))
  BY DEF Produces
<1>3. same = {} => k = 0 BY DEF ProductionIndex
<1>4. same # {} => k \in same /\ k > 0 /\ \A j \in same : k <= j
  <2> SUFFICES ASSUME same # {} PROVE k \in same /\ k > 0 /\ \A j \in same : k <= j OBVIOUS
  <2>1. k = FirstIndex(same) BY DEF ProductionIndex
  <2>2. same \in SUBSET Nat BY <1>1
  <2>3. FirstIndex(same) \in same /\ \A j \in same : FirstIndex(same) <= j BY <2>2, FirstIndexIsLeast
  <2>4. \A j \in same : j > 0 BY <1>1
  <2> QED BY <2>1, <2>3, <2>4
<1> HIDE DEF k
<1>5. \A j \in DOMAIN g.producers : First(j) /\ Produces(g.producers[j], x[1]) <=> same # {} /\ j = k
  <2> TAKE j \in DOMAIN g.producers
  <2>1. ASSUME First(j), Produces(g.producers[j], x[1]) PROVE same # {} /\ j = k
    <3>1. j \in same BY <2>1
    <3>2. k \in same /\ k <= j BY <1>4, <3>1
    <3>3. Produces(g.producers[k], g.producers[j]) BY <1>2, <2>1, <3>2
    <3>4. ~ k \in 1 .. j - 1 BY <2>1, <3>3
    <3> QED BY <1>1, <3>1, <3>2, <3>4
  <2>2. ASSUME same # {}, j = k PROVE First(j) /\ Produces(g.producers[j], x[1])
    <3>1. \A l \in 1 .. j - 1 : l \in DOMAIN g.producers /\ ~ j <= l BY <1>1
    <3>2. \A l \in 1 .. j - 1 : l \notin same BY <1>4, <2>2, <3>1
    <3> QED BY <1>2, <1>4, <2>2, <3>1, <3>2
  <2> QED BY <2>1, <2>2
<1>6. Claims(x) = IF IsComplete(x[1]) /\ x[2] = a /\ k > 0 THEN {k} ELSE {}
  <2>1. \A j \in Claims(x) : same # {} /\ j = k BY <1>5
  <2>2. IsComplete(x[1]) /\ x[2] = a /\ same # {} => k \in Claims(x)
    <3>1. same # {} => k \in DOMAIN g.producers BY <1>4
    <3> QED BY <1>5, <3>1
  <2>3. k > 0 <=> same # {} BY <1>3, <1>4
  <2> QED BY <2>1, <2>2, <2>3
<1>7. Reductions(g, items \cup {x}, a) = Reductions(g, items, a) \cup {ReduceBy(j) : j \in Claims(x)}
  BY DEF Reductions
<1> QED BY <1>6, <1>7 DEF k

\* An item of the augmented production belongs to no production of the grammar.
LEMMA NoProductionOfTheStart ==
  ASSUME NEW g, NEW c, IsReadable(g, c), NEW item, item.left = AugmentedStart
  PROVE  ProductionIndex(g, item) = 0
<1>1. \A k \in DOMAIN g.producers : g.producers[k].left # AugmentedStart BY DEF IsReadable, Elements
<1> QED BY <1>1 DEF ProductionIndex, Produces

\* An item.
LEMMA ItemDecides ==
  ASSUME NEW g, NEW c, IsReadable(g, c), NEW row, IsRow(row), NEW edges, NEW items,
         RowDecided(g, row, edges, items), NEW x
  PROVE  IsRow(AfterItem(g, row, x)) /\ RowDecided(g, AfterItem(g, row, x), edges, items \cup {x})
<1> DEFINE after == AfterItem(g, row, x)
           more == items \cup {x}
           k == ProductionIndex(g, x[1])
           complete == IsComplete(x[1])
           accepting == IsAccept(x)
           exact(a) == Decided(g, after.action, Shifts(g, edges, a), Reductions(g, more, a), Accepts(more, a), a)
<1>1. \A a : /\ complete /\ x[2] = a /\ k > 0 => Reductions(g, more, a) = Reductions(g, items, a) \cup {ReduceBy(k)}
             /\ ~(complete /\ x[2] = a /\ k > 0) => Reductions(g, more, a) = Reductions(g, items, a)
  <2> TAKE a
  <2>1. Reductions(g, more, a) =
          Reductions(g, items, a) \cup (IF complete /\ x[2] = a /\ k > 0 THEN {ReduceBy(k)} ELSE {})
    BY ReductionOf
  <2> QED BY <2>1
<1>2. \A a : /\ complete /\ accepting /\ x[2] = a => Accepts(more, a) = Accepts(items, a) \cup {AcceptIt}
             /\ ~(complete /\ accepting /\ x[2] = a) => Accepts(more, a) = Accepts(items, a)
  BY DEF Accepts
<1>3. accepting => k = 0 /\ x[2] = EndMarker BY NoProductionOfTheStart DEF IsAccept
<1>4. /\ complete /\ accepting => after = Write(g, row, EndMarker, AcceptIt)
      /\ complete /\ ~accepting /\ k > 0 => after = Write(g, row, x[2], ReduceBy(k))
      /\ ~complete \/ (~accepting /\ ~ k > 0) => after = row
  BY DEF AfterItem
<1>5. k \in Int
  <2>1. DOMAIN g.producers \in SUBSET Nat BY DEF IsReadable
  <2>2. {j \in DOMAIN g.producers : Produces(g.producers[j], x[1])} \in SUBSET Nat BY <2>1
  <2> QED BY <2>2, FirstIndexIsLeast DEF ProductionIndex
<1>6. \A a : /\ Decided(g, row.action, Shifts(g, edges, a), Reductions(g, items, a), Accepts(items, a), a)
             /\ \A t \in Shifts(g, edges, a) : IsShift(t)
             /\ \A q \in Reductions(g, items, a) : IsReduce(q)
             /\ Accepts(items, a) \in {{}, {AcceptIt}}
  BY ClaimsAreClaims DEF RowDecided
<1>7. Routed(g, row.goto, edges) BY DEF RowDecided
<1> HIDE DEF after, more, k, complete, accepting
<1>8. CASE complete /\ accepting
  <2>1. Wrote(g, row, EndMarker, AcceptIt, after) BY <1>4, <1>8, WriteChangesOneCell
  <2>2. AcceptIt.kind = "acc" BY DEF AcceptIt
  <2>3. ASSUME NEW a PROVE exact(a)
    <3>1. Reductions(g, more, a) = Reductions(g, items, a) BY <1>1, <1>3, <1>8
    <3>2. CASE a = EndMarker
      <4>1. a \in DOMAIN after.action /\ after.action[a] = AcceptIt BY <2>1, <2>2, <3>2 DEF Wrote
      <4>2. Accepts(more, a) = {AcceptIt} BY <1>2, <1>3, <1>6, <1>8, <3>2
      <4> QED BY <4>1, <4>2, AcceptDecides
    <3>3. CASE a # EndMarker
      <4>1. Accepts(more, a) = Accepts(items, a) BY <1>2, <1>3, <1>8, <3>3
      <4>2. /\ a \in DOMAIN row.action <=> a \in DOMAIN after.action
            /\ a \in DOMAIN row.action => after.action[a] = row.action[a]
        BY <2>1, <3>3 DEF Wrote
      <4> QED BY <1>6, <3>1, <4>1, <4>2, OtherCells
    <3> QED BY <3>2, <3>3
  <2> QED BY <1>7, <2>1, <2>3 DEF RowDecided, Wrote, after, more
<1>9. CASE complete /\ ~accepting /\ k > 0
  <2> DEFINE r == ReduceBy(k)
  <2>1. Wrote(g, row, x[2], r, after) BY <1>4, <1>9, WriteChangesOneCell
  <2>2. r.kind # "acc" /\ IsReduce(r) BY <1>5 DEF IsReduce, ReduceBy
  <2>3. ASSUME NEW a PROVE exact(a)
    <3>1. Accepts(more, a) = Accepts(items, a) BY <1>2, <1>9
    <3>2. CASE a = x[2]
      <4>1. Reductions(g, more, a) = Reductions(g, items, a) \cup {r} BY <1>1, <1>9, <3>2
      <4> HIDE DEF r
      <4>2. Gets(g, row.action, after.action, r, a) BY <2>1, <2>2, <3>2 DEF Wrote, Gets
      <4>3. AreClaims(Shifts(g, edges, a), Reductions(g, items, a), Accepts(items, a)) BY <1>6 DEF AreClaims
      <4>4. Decided(g, row.action, Shifts(g, edges, a), Reductions(g, items, a), Accepts(items, a), a) BY <1>6
      <4> DEFINE later == after.action
                 earlier == row.action
      <4> HIDE DEF later, earlier
      <4>5. Decided(g, later, Shifts(g, edges, a), Reductions(g, items, a) \cup {r}, Accepts(items, a), a)
        <5>1. Gets(g, earlier, later, r, a) BY <4>2 DEF later, earlier
        <5>2. Decided(g, earlier, Shifts(g, edges, a), Reductions(g, items, a), Accepts(items, a), a) BY <4>4 DEF earlier
        <5> QED BY <2>2, <4>3, <5>1, <5>2, ReductionDecides
      <4> QED BY <3>1, <4>1, <4>5 DEF later
    <3>3. CASE a # x[2]
      <4>1. Reductions(g, more, a) = Reductions(g, items, a) BY <1>1, <3>3
      <4>2. /\ a \in DOMAIN row.action <=> a \in DOMAIN after.action
            /\ a \in DOMAIN row.action => after.action[a] = row.action[a]
        BY <2>1, <3>3 DEF Wrote
      <4> QED BY <1>6, <3>1, <4>1, <4>2, OtherCells
    <3> QED BY <3>2, <3>3
  <2> QED BY <1>7, <2>1, <2>3 DEF RowDecided, Wrote, after, more
<1>10. CASE ~complete \/ (~accepting /\ ~ k > 0)
  <2>1. after = row BY <1>4, <1>10
  <2>2. \A a : Reductions(g, more, a) = Reductions(g, items, a) /\ Accepts(more, a) = Accepts(items, a)
    BY <1>1, <1>2, <1>10
  <2> QED BY <2>1, <2>2 DEF RowDecided, after, more
<1> QED BY <1>8, <1>9, <1>10

LEMMA ItemReports ==
  ASSUME NEW g, NEW c, IsReadable(g, c), NEW row, IsRow(row), NEW edges, NEW items,
         RowExact(g, row, edges, items), NEW x
  PROVE  RowReported(g, AfterItem(g, row, x), edges, items \cup {x})
<1> DEFINE after == AfterItem(g, row, x)
           more == items \cup {x}
           k == ProductionIndex(g, x[1])
           complete == IsComplete(x[1])
           accepting == IsAccept(x)
<1> SUFFICES ASSUME NEW a
             PROVE  Reported(after.conflicts, Shifts(g, edges, a), Reductions(g, more, a), Accepts(more, a), a)
  BY DEF RowReported
<1>1. Reductions(g, more, a) =
        Reductions(g, items, a) \cup (IF complete /\ x[2] = a /\ k > 0 THEN {ReduceBy(k)} ELSE {})
  BY ReductionOf
<1>2. /\ complete /\ accepting /\ x[2] = a => Accepts(more, a) = Accepts(items, a) \cup {AcceptIt}
      /\ ~(complete /\ accepting /\ x[2] = a) => Accepts(more, a) = Accepts(items, a)
  BY DEF Accepts
<1>3. accepting => k = 0 /\ x[2] = EndMarker BY NoProductionOfTheStart DEF IsAccept
<1>4. /\ complete /\ accepting => after = Write(g, row, EndMarker, AcceptIt)
      /\ complete /\ ~accepting /\ k > 0 => after = Write(g, row, x[2], ReduceBy(k))
      /\ ~complete \/ (~accepting /\ ~ k > 0) => after = row
  BY DEF AfterItem
<1>5. /\ Decided(g, row.action, Shifts(g, edges, a), Reductions(g, items, a), Accepts(items, a), a)
      /\ Reported(row.conflicts, Shifts(g, edges, a), Reductions(g, items, a), Accepts(items, a), a)
  BY DEF RowExact, RowDecided, RowReported
<1>6. AreClaims(Shifts(g, edges, a), Reductions(g, items, a), Accepts(items, a))
  BY ClaimsAreClaims DEF AreClaims
<1> HIDE DEF after, more, k, complete, accepting
<1>7. CASE complete /\ accepting
  <2>1. Wrote(g, row, EndMarker, AcceptIt, after) BY <1>4, <1>7, WriteChangesOneCell
  <2>2. a \in after.conflicts <=> a \in row.conflicts BY <2>1 DEF Wrote, AcceptIt
  <2>3. Reductions(g, more, a) = Reductions(g, items, a) BY <1>1, <1>3, <1>7
  <2>4. Accepts(more, a) = Accepts(items, a) \/ Accepts(more, a) = Accepts(items, a) \cup {AcceptIt} BY <1>2
  <2> QED BY <1>5, <2>2, <2>3, <2>4 DEF Reported
<1>8. CASE complete /\ ~accepting /\ k > 0
  <2> DEFINE r == ReduceBy(k)
  <2>1. Wrote(g, row, x[2], r, after) BY <1>4, <1>8, WriteChangesOneCell
  <2>2. r.kind # "acc" BY DEF ReduceBy
  <2>3. Accepts(more, a) = Accepts(items, a) BY <1>2, <1>8
  <2>4. Reductions(g, more, a) = Reductions(g, items, a) \cup (IF x[2] = a THEN {r} ELSE {}) BY <1>1, <1>8
  <2> HIDE DEF r
  <2>5. CASE a = x[2]
    <3>1. a \in after.conflicts <=> a \in row.conflicts \/ (a \in DOMAIN row.action /\ row.action[a] # r)
      BY <2>1, <2>2, <2>5 DEF Wrote
    <3>2. Shifts(g, edges, a) \cup Reductions(g, more, a) = Shifts(g, edges, a) \cup Reductions(g, items, a) \cup {r}
      BY <2>4, <2>5
    <3>3. Reported(after.conflicts, Shifts(g, edges, a), Reductions(g, more, a), Accepts(items, a), a)
      BY <1>5, <1>6, <3>1, <3>2, ClaimReports
    <3> QED BY <2>3, <3>3
  <2>6. CASE a # x[2]
    <3>1. a \in after.conflicts <=> a \in row.conflicts BY <2>1, <2>6 DEF Wrote
    <3>2. Reductions(g, more, a) = Reductions(g, items, a) BY <2>4, <2>6
    <3> QED BY <1>5, <2>3, <3>1, <3>2 DEF Reported
  <2> QED BY <2>5, <2>6
<1>9. CASE ~complete \/ (~accepting /\ ~ k > 0)
  <2>1. after = row BY <1>4, <1>9
  <2>2. Reductions(g, more, a) = Reductions(g, items, a) /\ Accepts(more, a) = Accepts(items, a)
    BY <1>1, <1>2, <1>9
  <2> QED BY <1>5, <2>1, <2>2
<1> QED BY <1>7, <1>8, <1>9

LEMMA ItemStep ==
  ASSUME NEW g, NEW c, IsReadable(g, c), NEW row, IsRow(row), NEW edges, NEW items,
         RowExact(g, row, edges, items), NEW x
  PROVE  IsRow(AfterItem(g, row, x)) /\ RowExact(g, AfterItem(g, row, x), edges, items \cup {x})
BY ItemDecides, ItemReports DEF RowExact

-----------------------------------------------------------------------------
(***************************************************************************)
(* The loops.  A state above the one at hand has no claims yet, a state    *)
(* below has all of them, and the state at hand those of the edges and     *)
(* items that were read.                                                   *)
(***************************************************************************)
EdgeSeen(s, k) == filling = "done" \/ s < state \/ (s = state /\ (filling = "items" \/ k < turn))
ItemSeen(s, k) == filling = "done" \/ s < state \/ (s = state /\ filling = "items" /\ k < turn)
SeenEdges(s) == {automaton.edges[s][k] : k \in {j \in DOMAIN automaton.edges[s] : EdgeSeen(s, j)}}
SeenItems(s) == {automaton.items[s][k] : k \in {j \in DOMAIN automaton.items[s] : ItemSeen(s, j)}}

FilledSoFar ==
  /\ filling \in {"idle", "edges", "items", "done"}
  /\ filling = "idle" => state = 0 /\ turn = 1
  /\ filling # "idle" =>
       /\ IsReadable(grammar, automaton)
       /\ turn \in Nat \ {0} /\ state \in States(automaton)
       /\ table = [s \in States(automaton) |-> table[s]]
       /\ \A s \in States(automaton) :
            IsRow(table[s]) /\ RowExact(grammar, table[s], SeenEdges(s), SeenItems(s))

\* buildLR1Table is called with one of the pairs of a grammar and an automaton.
FillSpec(arguments) == TableInit /\ [][(\E x \in arguments : BuildTable(x[1], x[2])) \/ TableNext]_tableVars

\* A step that reads an edge or an item of the state at hand changes its row only.
LEMMA RowStep ==
  ASSUME FilledSoFar, filling \in {"edges", "items"}, NEW row, table' = [table EXCEPT ![state] = row],
         UNCHANGED <<grammar, automaton, state, filling>>, turn' = turn + 1,
         IsRow(row), RowExact(grammar, row, SeenEdges(state)', SeenItems(state)')
  PROVE  FilledSoFar'
<1>1. /\ IsReadable(grammar, automaton) /\ turn \in Nat \ {0} /\ state \in States(automaton)
      /\ table = [s \in States(automaton) |-> table[s]]
      /\ \A s \in States(automaton) : IsRow(table[s]) /\ RowExact(grammar, table[s], SeenEdges(s), SeenItems(s))
  BY DEF FilledSoFar
<1>2. States(automaton) \subseteq Int BY <1>1 DEF States, IsReadable
<1>3. ASSUME NEW s \in States(automaton), s # state
      PROVE  SeenEdges(s)' = SeenEdges(s) /\ SeenItems(s)' = SeenItems(s) /\ table'[s] = table[s]
  BY <1>1, <1>2, <1>3 DEF SeenEdges, SeenItems, EdgeSeen, ItemSeen
<1>4. table'[state] = row /\ table' = [s \in States(automaton) |-> table'[s]] BY <1>1
<1>5. \A s \in States(automaton) : IsRow(table'[s]) /\ RowExact(grammar, table'[s], SeenEdges(s)', SeenItems(s)')
  BY <1>1, <1>3, <1>4
<1> QED BY <1>1, <1>4, <1>5 DEF FilledSoFar

\* The sequences at hand.
LEMMA Here ==
  ASSUME IsReadable(grammar, automaton), state \in States(automaton)
  PROVE  /\ DOMAIN EdgesHere = 1 .. Len(EdgesHere) /\ Len(EdgesHere) \in Nat
         /\ DOMAIN ItemsHere = 1 .. Len(ItemsHere) /\ Len(ItemsHere) \in Nat
<1>1. /\ EdgesHere \in Seq(Elements(EdgesHere))
      /\ ItemsHere \in Seq(ItemsOf(automaton, state))
  BY DEF IsReadable, EdgesHere, ItemsHere
<1> QED BY <1>1

LEMMA FillKeeps ==
  ASSUME FilledSoFar, NEW arguments, \A x \in arguments : IsReadable(x[1], x[2]),
         [(\E x \in arguments : BuildTable(x[1], x[2])) \/ TableNext]_tableVars
  PROVE  FilledSoFar'
<1>1. ASSUME NEW x \in arguments, BuildTable(x[1], x[2]) PROVE FilledSoFar'
  <2>1. /\ filling' = "edges" /\ automaton' = x[2] /\ grammar' = x[1] /\ IsReadable(x[1], x[2])
        /\ state' = 0 /\ turn' = 1 /\ table' = [s \in States(x[2]) |-> EmptyRow]
    BY <1>1 DEF BuildTable, FilledSoFar
  <2>2. 0 \in States(x[2]) /\ States(x[2]) \subseteq Nat BY <2>1 DEF States, IsReadable
  <2>3. x[2].edges = x[2].edges /\ \A s \in States(x[2]) : x[2].edges[s] \in Seq(Elements(x[2].edges[s]))
    BY <2>1 DEF IsReadable
  <2>4. \A s \in States(x[2]) : SeenEdges(s)' = {} /\ SeenItems(s)' = {}
    BY <2>1, <2>2, <2>3 DEF SeenEdges, SeenItems, EdgeSeen, ItemSeen
  <2>5. IsRow(EmptyRow) BY DEF IsRow, EmptyRow
  <2>6. RowExact(x[1], EmptyRow, {}, {})
    <3>1. Routed(x[1], EmptyRow.goto, {}) BY DEF Routed, EmptyRow
    <3>2. \A a : Shifts(x[1], {}, a) = {} /\ Verdicts(x[1], {}, {}, a) = {} BY DEF Shifts, Verdicts
    <3>3. \A a : a \notin DOMAIN EmptyRow.action BY DEF EmptyRow
    <3>4. RowDecided(x[1], EmptyRow, {}, {}) BY <3>1, <3>2, <3>3, NoItemNoClaim DEF RowDecided, Decided
    <3>5. RowReported(x[1], EmptyRow, {}, {})
      BY <3>2, NoItemNoClaim DEF RowReported, Reported, EmptyRow
    <3> QED BY <3>4, <3>5 DEF RowExact
  <2>7. \A s \in States(x[2]) : table'[s] = EmptyRow BY <2>1
  <2> QED BY <2>1, <2>2, <2>4, <2>5, <2>6, <2>7 DEF FilledSoFar
<1>2. CASE ReadEdge
  <2>1. /\ filling = "edges" /\ filling' = filling /\ turn <= Len(EdgesHere) /\ turn' = turn + 1
        /\ table' = [table EXCEPT ![state] = AfterEdge(grammar, table[state], EdgesHere[turn])]
        /\ UNCHANGED <<grammar, automaton, state>>
    BY <1>2 DEF ReadEdge, FilledSoFar
  <2>2. /\ IsReadable(grammar, automaton) /\ state \in States(automaton) /\ turn \in Nat \ {0}
        /\ IsRow(table[state]) /\ RowExact(grammar, table[state], SeenEdges(state), SeenItems(state))
    BY <2>1 DEF FilledSoFar
  <2>3. state \in Nat /\ EdgesHere \in Seq(Elements(EdgesHere)) BY <2>2 DEF States, IsReadable, EdgesHere
  <2>4. turn \in DOMAIN EdgesHere BY <2>1, <2>2, <2>3
  <2>5. SeenItems(state) = {} /\ SeenItems(state)' = {} BY <2>1, <2>3 DEF SeenItems, ItemSeen
  <2>6. SeenEdges(state)' = SeenEdges(state) \cup {EdgesHere[turn]}
    <3>1. \A k \in DOMAIN EdgesHere : EdgeSeen(state, k)' <=> EdgeSeen(state, k) \/ k = turn
      BY <2>1, <2>2, <2>3 DEF EdgeSeen
    <3> QED BY <2>1, <2>4, <3>1 DEF SeenEdges, EdgesHere
  <2> DEFINE row == AfterEdge(grammar, table[state], EdgesHere[turn])
  <2>7. IsRow(row) /\ RowExact(grammar, row, SeenEdges(state) \cup {EdgesHere[turn]}, {})
    BY <2>2, <2>5, EdgeStep
  <2> HIDE DEF row
  <2> QED BY <2>1, <2>5, <2>6, <2>7, RowStep DEF row
<1>3. CASE TurnToItems
  <2>1. /\ filling = "edges" /\ filling' = "items" /\ ~ turn <= Len(EdgesHere) /\ turn' = 1
        /\ UNCHANGED <<grammar, automaton, table, state>>
    BY <1>3 DEF TurnToItems, FilledSoFar, IsReadable, EdgesHere
  <2>2. /\ IsReadable(grammar, automaton) /\ state \in States(automaton) /\ turn \in Nat \ {0}
        /\ table = [s \in States(automaton) |-> table[s]]
        /\ \A s \in States(automaton) : IsRow(table[s]) /\ RowExact(grammar, table[s], SeenEdges(s), SeenItems(s))
    BY <2>1 DEF FilledSoFar
  <2>3. /\ States(automaton) \subseteq Int /\ DOMAIN EdgesHere = 1 .. Len(EdgesHere) /\ Len(EdgesHere) \in Nat
        /\ DOMAIN ItemsHere \subseteq Nat \ {0}
    BY <2>2, Here DEF States, IsReadable
  <2>4. \A s \in States(automaton) : SeenEdges(s)' = SeenEdges(s) /\ SeenItems(s)' = SeenItems(s)
    BY <2>1, <2>2, <2>3 DEF SeenEdges, SeenItems, EdgeSeen, ItemSeen, EdgesHere, ItemsHere
  <2> QED BY <2>1, <2>2, <2>4 DEF FilledSoFar
<1>4. CASE ReadItem
  <2>1. /\ filling = "items" /\ filling' = filling /\ turn <= Len(ItemsHere) /\ turn' = turn + 1
        /\ table' = [table EXCEPT ![state] = AfterItem(grammar, table[state], ItemsHere[turn])]
        /\ UNCHANGED <<grammar, automaton, state>>
    BY <1>4 DEF ReadItem, FilledSoFar
  <2>2. /\ IsReadable(grammar, automaton) /\ state \in States(automaton) /\ turn \in Nat \ {0}
        /\ IsRow(table[state]) /\ RowExact(grammar, table[state], SeenEdges(state), SeenItems(state))
    BY <2>1 DEF FilledSoFar
  <2>3. state \in Nat BY <2>2 DEF States, IsReadable
  <2>4. turn \in DOMAIN ItemsHere BY <2>1, <2>2, Here
  <2>5. SeenEdges(state)' = SeenEdges(state) BY <2>1, <2>3 DEF SeenEdges, EdgeSeen
  <2>6. SeenItems(state)' = SeenItems(state) \cup {ItemsHere[turn]}
    <3>1. \A k \in DOMAIN ItemsHere : ItemSeen(state, k)' <=> ItemSeen(state, k) \/ k = turn
      BY <2>1, <2>2, <2>3 DEF ItemSeen
    <3> QED BY <2>1, <2>4, <3>1 DEF SeenItems, ItemsHere
  <2> DEFINE row == AfterItem(grammar, table[state], ItemsHere[turn])
  <2>7. IsRow(row) /\ RowExact(grammar, row, SeenEdges(state), SeenItems(state) \cup {ItemsHere[turn]})
    BY <2>2, ItemStep
  <2> HIDE DEF row
  <2> QED BY <2>1, <2>5, <2>6, <2>7, RowStep DEF row
<1>5. CASE NextRow
  <2>1. /\ filling = "items" /\ filling' = "edges" /\ ~ turn <= Len(ItemsHere) /\ turn' = 1
        /\ state' = state + 1 /\ state + 1 < automaton.states /\ UNCHANGED <<grammar, automaton, table>>
    BY <1>5 DEF NextRow, FilledSoFar, IsReadable, ItemsHere
  <2>2. /\ IsReadable(grammar, automaton) /\ state \in States(automaton) /\ turn \in Nat \ {0}
        /\ table = [s \in States(automaton) |-> table[s]]
        /\ \A s \in States(automaton) : IsRow(table[s]) /\ RowExact(grammar, table[s], SeenEdges(s), SeenItems(s))
    BY <2>1 DEF FilledSoFar
  <2>3. /\ States(automaton) = 0 .. automaton.states - 1 /\ automaton.states \in Nat
        /\ DOMAIN ItemsHere = 1 .. Len(ItemsHere) /\ Len(ItemsHere) \in Nat
        /\ \A s \in States(automaton) : DOMAIN automaton.edges[s] \subseteq Nat \ {0}
    BY <2>2 DEF States, IsReadable, ItemsHere
  <2>4. state + 1 \in States(automaton) BY <2>1, <2>2, <2>3
  <2>5. \A s \in States(automaton) : SeenEdges(s)' = SeenEdges(s) /\ SeenItems(s)' = SeenItems(s)
    BY <2>1, <2>2, <2>3 DEF SeenEdges, SeenItems, EdgeSeen, ItemSeen, ItemsHere
  <2> QED BY <2>1, <2>2, <2>4, <2>5 DEF FilledSoFar
<1>6. CASE FinishTable
  <2>1. /\ filling = "items" /\ filling' = "done" /\ ~ turn <= Len(ItemsHere)
        /\ ~ state + 1 < automaton.states /\ UNCHANGED <<grammar, automaton, table, state, turn>>
    BY <1>6 DEF FinishTable, FilledSoFar, IsReadable, ItemsHere, States
  <2>2. /\ IsReadable(grammar, automaton) /\ state \in States(automaton) /\ turn \in Nat \ {0}
        /\ table = [s \in States(automaton) |-> table[s]]
        /\ \A s \in States(automaton) : IsRow(table[s]) /\ RowExact(grammar, table[s], SeenEdges(s), SeenItems(s))
    BY <2>1 DEF FilledSoFar
  <2>3. /\ States(automaton) = 0 .. automaton.states - 1 /\ automaton.states \in Nat
        /\ DOMAIN ItemsHere = 1 .. Len(ItemsHere) /\ Len(ItemsHere) \in Nat
    BY <2>2 DEF States, IsReadable, ItemsHere
  <2>4. \A s \in States(automaton) : s < state \/ s = state BY <2>1, <2>2, <2>3
  <2>5. \A s \in States(automaton) : SeenEdges(s)' = SeenEdges(s) /\ SeenItems(s)' = SeenItems(s)
    BY <2>1, <2>2, <2>3, <2>4 DEF SeenEdges, SeenItems, EdgeSeen, ItemSeen, ItemsHere
  <2> QED BY <2>1, <2>2, <2>5 DEF FilledSoFar
<1>7. CASE UNCHANGED tableVars
  <2>1. UNCHANGED <<grammar, automaton, table, state, turn, filling>> BY <1>7 DEF tableVars
  <2>2. \A s : SeenEdges(s)' = SeenEdges(s) /\ SeenItems(s)' = SeenItems(s)
    BY <2>1 DEF SeenEdges, SeenItems, EdgeSeen, ItemSeen
  <2> QED BY <2>1, <2>2 DEF FilledSoFar
<1> QED BY <1>1, <1>2, <1>3, <1>4, <1>5, <1>6, <1>7 DEF TableNext

LEMMA FilledIsExact ==
  ASSUME FilledSoFar PROVE CellsExact
<1> SUFFICES ASSUME filling = "done", NEW s \in States(automaton)
             PROVE  RowExact(grammar, table[s], Elements(automaton.edges[s]), ItemsOf(automaton, s))
  BY DEF CellsExact, RowExact, RowDecided, RowReported
<1>1. SeenEdges(s) = Elements(automaton.edges[s]) /\ SeenItems(s) = ItemsOf(automaton, s)
  BY DEF SeenEdges, SeenItems, EdgeSeen, ItemSeen, Elements, ItemsOf
<1> QED BY <1>1 DEF FilledSoFar

\* Whatever the grammar, its declarations and the automaton: every cell of the finished
\* tables holds what its claims and the declarations decide, and not what the order of the
\* writes happens to leave (buildLR1Table, parse_table.cpp 662-732).
THEOREM EveryCellIsExact ==
  ASSUME NEW arguments, \A x \in arguments : IsReadable(x[1], x[2])
  PROVE  FillSpec(arguments) => []CellsExact
<1>1. TableInit => FilledSoFar BY DEF TableInit, FilledSoFar
<1>2. FilledSoFar /\ [(\E x \in arguments : BuildTable(x[1], x[2])) \/ TableNext]_tableVars => FilledSoFar'
  BY FillKeeps
<1>3. FilledSoFar => CellsExact BY FilledIsExact
<1> QED BY <1>1, <1>2, <1>3, PTL DEF FillSpec

-----------------------------------------------------------------------------
(***************************************************************************)
(* The symbols of a set in text order.                                     *)
(***************************************************************************)
Symbols == Elements(TextOrder)

LEMMA SymbolsAreStrings ==
  /\ Len(TextOrder) \in Nat /\ DOMAIN TextOrder = 1 .. Len(TextOrder)
  /\ \A k \in 1 .. Len(TextOrder) : TextOrder[k] \in Symbols
  /\ Symbols \subseteq STRING /\ IsFiniteSet(Symbols)
<1>1. /\ Len(TextOrder) \in Nat /\ DOMAIN TextOrder = 1 .. Len(TextOrder)
      /\ \A k \in 1 .. Len(TextOrder) : TextOrder[k] \in STRING
  BY TextOrderAssumption
<1>2. \A k \in 1 .. Len(TextOrder) : TextOrder[k] \in Symbols BY <1>1 DEF Symbols, Elements
<1>3. Symbols \subseteq STRING BY <1>1 DEF Symbols, Elements
<1>4. IsFiniteSet(Symbols)
  <2>1. TextOrder \in [1 .. Len(TextOrder) -> Symbols] BY <1>2, TextOrderAssumption
  <2>2. \A X \in Symbols : \E k \in 1 .. Len(TextOrder) : TextOrder[k] = X BY <1>1 DEF Symbols, Elements
  <2>3. ExistsSurjection(1 .. Len(TextOrder), Symbols)
    BY <2>1, <2>2 DEF ExistsSurjection, Surjection
  <2> QED BY <1>1, <2>3, FS_NatSurjection
<1> QED BY <1>1, <1>2, <1>3, <1>4

LEMMA ElementsOfAppend ==
  ASSUME NEW S, NEW s \in Seq(S), NEW x \in S
  PROVE  Append(s, x) \in Seq(S) /\ Elements(Append(s, x)) = Elements(s) \cup {x}
<1> DEFINE t == Append(s, x)
<1>1. /\ t \in Seq(S) /\ Len(s) \in Nat
      /\ DOMAIN s = 1 .. Len(s) /\ DOMAIN t = (1 .. Len(s)) \cup {Len(s) + 1}
      /\ t[Len(s) + 1] = x /\ \A k \in 1 .. Len(s) : t[k] = s[k]
  OBVIOUS
<1> HIDE DEF t
<1>2. Elements(t) = Elements(s) \cup {x} BY <1>1 DEF Elements
<1> QED BY <1>1, <1>2 DEF t

\* The loop over the symbols, up to the n-th.
ListStep(h, k, set) ==
  IF k = 0 THEN <<>>
  ELSE IF TextOrder[k] \in set THEN Append(h[k - 1], TextOrder[k]) ELSE h[k - 1]
Lists(h, n, set) == h = [k \in 0 .. n |-> ListStep(h, k, set)]

LEMMA ListExists ==
  ASSUME NEW set
  PROVE  \E h : Lists(h, Len(TextOrder), set)
<1> DEFINE T == {n \in 0 .. Len(TextOrder) : ~ \E h : Lists(h, n, set)}
<1>1. T = {}
  <2> SUFFICES ASSUME T # {} PROVE FALSE OBVIOUS
  <2>1. T \in SUBSET Nat BY SymbolsAreStrings
  <2>2. PICK m \in T : \A k \in T : m <= k BY <2>1, LeastOf
  <2> SUFFICES \E h : Lists(h, m, set) BY <2>2
  <2>3. m \in Nat /\ m <= Len(TextOrder) BY SymbolsAreStrings, <2>2
  <2>4. CASE m = 0
    <3> DEFINE h == [k \in 0 .. 0 |-> <<>>]
    <3>1. h = [k \in 0 .. m |-> ListStep(h, k, set)] BY <2>4 DEF ListStep
    <3> QED BY <3>1 DEF Lists
  <2>5. CASE m # 0
    <3>1. m - 1 \in 0 .. Len(TextOrder) /\ m - 1 \notin T BY SymbolsAreStrings, <2>2, <2>3, <2>5
    <3>2. PICK f : Lists(f, m - 1, set) BY <3>1
    <3> DEFINE h == [k \in 0 .. m |-> IF k = m THEN ListStep(f, m, set) ELSE f[k]]
    <3>3. \A k \in 0 .. m - 1 : f[k] = ListStep(f, k, set) BY <3>2 DEF Lists
    <3>4. \A k \in 0 .. m : k = m \/ (k \in 0 .. m - 1 /\ k # m) BY <2>3
    <3>5. \A k \in 0 .. m : k # 0 => h[k - 1] = f[k - 1] BY <2>3
    <3>6. \A k \in 0 .. m : ListStep(h, k, set) = ListStep(f, k, set) BY <3>5 DEF ListStep
    <3>7. \A k \in 0 .. m : h[k] = ListStep(h, k, set) BY <3>3, <3>4, <3>6
    <3>8. h = [k \in 0 .. m |-> h[k]] OBVIOUS
    <3> HIDE DEF h
    <3>9. h = [k \in 0 .. m |-> ListStep(h, k, set)] BY <3>7, <3>8
    <3> QED BY <3>9 DEF Lists
  <2> QED BY <2>4, <2>5
<1> QED BY <1>1, SymbolsAreStrings

\* std::set lists what is in it, and nothing else.
LEMMA OrderLists ==
  ASSUME NEW set
  PROVE  /\ InTextOrder(set) \in Seq(Symbols)
         /\ Elements(InTextOrder(set)) = set \cap Symbols
<1> DEFINE listed == CHOOSE h : h = [k \in 0 .. Len(TextOrder) |-> ListStep(h, k, set)]
           n == Len(TextOrder)
           Good(k) == /\ listed[k] \in Seq(Symbols)
                      /\ Elements(listed[k]) = {X \in set : \E j \in 1 .. k : TextOrder[j] = X}
           Bad == {k \in 0 .. n : ~Good(k)}
<1>1. InTextOrder(set) = listed[n] BY DEF InTextOrder, ListStep
<1>2. listed = [k \in 0 .. n |-> ListStep(listed, k, set)] BY ListExists DEF Lists
<1> HIDE DEF listed
<1>3. n \in Nat /\ \A k \in 1 .. n : TextOrder[k] \in Symbols BY SymbolsAreStrings
<1>4. Bad = {}
  <2> SUFFICES ASSUME Bad # {} PROVE FALSE OBVIOUS
  <2>1. Bad \in SUBSET Nat BY <1>3
  <2>2. PICK m \in Bad : \A k \in Bad : m <= k BY <2>1, LeastOf
  <2> SUFFICES Good(m) BY <2>2
  <2>3. m \in 0 .. n /\ listed[m] = ListStep(listed, m, set) BY <1>2, <2>2
  <2>4. CASE m = 0
    <3>1. listed[m] = <<>> BY <2>3, <2>4 DEF ListStep
    <3>2. Elements(listed[m]) = {} BY <3>1 DEF Elements
    <3>3. {X \in set : \E j \in 1 .. m : TextOrder[j] = X} = {} BY <2>4
    <3> QED BY <3>1, <3>2, <3>3
  <2>5. CASE m # 0
    <3>1. m \in 1 .. n /\ m - 1 \in 0 .. n /\ m - 1 \notin Bad /\ m \in Nat
      <4>1. m \in 1 .. n /\ m - 1 \in 0 .. n /\ m \in Nat BY <1>3, <2>3, <2>5
      <4>2. m - 1 \notin Bad
        <5> HIDE DEF Bad
        <5> QED BY <2>2, <4>1
      <4> QED BY <4>1, <4>2
    <3>2. Good(m - 1) BY <3>1
    <3> DEFINE s == listed[m - 1]
               X0 == TextOrder[m]
    <3>3. s \in Seq(Symbols) /\ Elements(s) = {X \in set : \E j \in 1 .. m - 1 : TextOrder[j] = X} BY <3>2
    <3>4. X0 \in Symbols BY <1>3, <3>1
    <3>5. listed[m] = IF X0 \in set THEN Append(s, X0) ELSE s BY <2>3, <2>5 DEF ListStep
    <3>6. \A X : (\E j \in 1 .. m : TextOrder[j] = X) <=> (X = X0 \/ \E j \in 1 .. m - 1 : TextOrder[j] = X)
      <4>1. 1 .. m = (1 .. m - 1) \cup {m} BY <3>1
      <4> QED BY <4>1
    <3> HIDE DEF s, X0
    <3>7. CASE X0 \in set
      <4>1. Append(s, X0) \in Seq(Symbols) BY <3>3, <3>4
      <4>2. Elements(Append(s, X0)) = Elements(s) \cup {X0} BY <3>3, <3>4, ElementsOfAppend
      <4>3. {X \in set : \E j \in 1 .. m : TextOrder[j] = X} =
              {X \in set : \E j \in 1 .. m - 1 : TextOrder[j] = X} \cup {X0}
        BY <3>6, <3>7
      <4> QED BY <3>3, <3>5, <3>7, <4>1, <4>2, <4>3
    <3>8. CASE X0 \notin set
      <4>1. {X \in set : \E j \in 1 .. m : TextOrder[j] = X} =
              {X \in set : \E j \in 1 .. m - 1 : TextOrder[j] = X}
        BY <3>6, <3>8
      <4> QED BY <3>3, <3>5, <3>8, <4>1
    <3> QED BY <3>7, <3>8
  <2> QED BY <2>4, <2>5
<1>5. Good(n) BY <1>3, <1>4
<1>6. {X \in set : \E j \in 1 .. n : TextOrder[j] = X} = set \cap Symbols
  BY SymbolsAreStrings DEF Symbols, Elements
<1> QED BY <1>1, <1>5, <1>6

-----------------------------------------------------------------------------
(***************************************************************************)
(* The closures that the construction of an automaton computes, and its    *)
(* gotos.                                                                  *)
(***************************************************************************)
\* What the construction of an automaton is called with.
IsBuild(b) == HasFirst(b, b.first) /\ OwnSymbols(b) \subseteq Symbols /\ b.canonical \in BOOLEAN

\* The items of an automaton.
ItemsIn(b) == IF b.canonical THEN PairItems(b) ELSE CoreItems(b) \X {NoLookahead}

LEMMA ClosureOfEnds ==
  ASSUME NEW b, IsBuild(b), NEW kernel \in SUBSET ItemsIn(b)
  PROVE  kernel \subseteq ClosureOf(b, kernel) /\ ClosureOf(b, kernel) \subseteq ItemsIn(b)
<1>1. CASE b.canonical
  <2>1. kernel \in SUBSET PairItems(b) /\ ClosureOf(b, kernel) = Lr1Closure(b, b.first, kernel)
    BY <1>1 DEF ItemsIn, ClosureOf
  <2> QED BY <1>1, <2>1, Lr1ClosureEnds DEF ItemsIn, IsBuild, HasFirst
<1>2. CASE ~b.canonical
  <2>1. CoresOf(kernel) \in SUBSET CoreItems(b) /\ kernel \subseteq CoresOf(kernel) \X {NoLookahead}
    BY <1>2 DEF ItemsIn, CoresOf
  <2>2. CoresOf(kernel) \subseteq Lr0Closure(b, CoresOf(kernel)) /\ Lr0Closure(b, CoresOf(kernel)) \subseteq CoreItems(b)
    BY <2>1, Lr0ClosureEnds DEF IsBuild, HasFirst
  <2>3. ClosureOf(b, kernel) = Lr0Closure(b, CoresOf(kernel)) \X {NoLookahead} BY <1>2 DEF ClosureOf
  <2> QED BY <1>2, <2>1, <2>2, <2>3 DEF ItemsIn
<1> QED BY <1>1, <1>2

LEMMA MovedItems ==
  ASSUME NEW b, IsBuild(b), NEW items \in SUBSET ItemsIn(b), NEW X
  PROVE  Moved(items, X) \in SUBSET ItemsIn(b)
<1> SUFFICES ASSUME NEW x \in items, DotBefore(x[1], X) PROVE <<Advance(x[1]), x[2]>> \in ItemsIn(b)
  BY DEF Moved
<1>1. x[1] \in CoreItems(b) /\ x \in ItemsIn(b) /\ x = <<x[1], x[2]>> BY DEF ItemsIn, PairItems
<1>2. Advance(x[1]) \in CoreItems(b) BY <1>1, AdvancedItem DEF IsBuild, HasFirst
<1> QED BY <1>1, <1>2 DEF ItemsIn, PairItems

LEMMA GotoEnds ==
  ASSUME NEW b, IsBuild(b), NEW items \in SUBSET ItemsIn(b), NEW X
  PROVE  /\ GotoOf(b, items, X) \in SUBSET ItemsIn(b)
         /\ Moved(items, X) \subseteq GotoOf(b, items, X)
<1>1. GotoOf(b, items, X) = ClosureOf(b, Moved(items, X)) BY DEF GotoOf, Moved
<1> QED BY <1>1, MovedItems, ClosureOfEnds

LEMMA StartEnds ==
  ASSUME NEW b, IsBuild(b)
  PROVE  StartItems(b) \in SUBSET ItemsIn(b) /\ StartItem(b) \in CoresOf(StartItems(b))
<1> DEFINE la == IF b.canonical THEN EndMarker ELSE NoLookahead
<1>1. StartItem(b) \in CoreItems(b) BY StartIsAnItem DEF IsBuild, HasFirst
<1>2. {<<StartItem(b), la>>} \in SUBSET ItemsIn(b) BY <1>1 DEF ItemsIn, PairItems
<1>3. StartItems(b) = ClosureOf(b, {<<StartItem(b), la>>}) BY DEF StartItems
<1>4. StartItems(b) \in SUBSET ItemsIn(b) /\ <<StartItem(b), la>> \in StartItems(b)
  BY <1>2, <1>3, ClosureOfEnds
<1> QED BY <1>4 DEF CoresOf

LEMMA SymbolsAreListed ==
  ASSUME NEW b, IsBuild(b), NEW items \in SUBSET ItemsIn(b)
  PROVE  SymbolsAfterDots(CoresOf(items)) \subseteq Symbols
<1> SUFFICES ASSUME NEW item \in CoresOf(items), ~IsComplete(item) PROVE AfterDot(item) \in Symbols
  BY DEF SymbolsAfterDots
<1>1. item \in CoreItems(b) BY DEF ItemsIn, PairItems, CoresOf
<1>2. item.right \in Seq(OwnSymbols(b)) /\ item.dot \in 0 .. Len(item.right) BY <1>1, CoreItemsShape DEF IsBuild, HasFirst
<1>3. item.dot + 1 \in 1 .. Len(item.right) BY <1>2 DEF IsComplete
<1>4. AfterDot(item) \in OwnSymbols(b) BY <1>2, <1>3 DEF AfterDot
<1> QED BY <1>4 DEF IsBuild

\* Nodes with the same cores have the same cores behind every symbol: whether something can
\* follow a nonterminal does not depend on the lookahead.
LEMMA ClosureCores ==
  ASSUME NEW b, IsBuild(b), NEW K \in SUBSET PairItems(b), NEW L \in SUBSET PairItems(b),
         CoresOf(K) \subseteq CoresOf(L)
  PROVE  CoresOf(Lr1Closure(b, b.first, K)) \subseteq CoresOf(Lr1Closure(b, b.first, L))
<1> DEFINE C == Lr1Closure(b, b.first, L)
           Z == {x \in Pairs(b, K) : x[1] \in CoresOf(C)}
           new(x) == ClosureItems(b, x[1]) \X FollowingPredicts(b.first, x[1], x[2])
<1>1. L \subseteq C /\ C \subseteq PairItems(b) /\ \A y \in C : new(y) \subseteq C BY Lr1ClosureEnds DEF IsBuild, HasFirst
<1>2. K \subseteq Z
  <2> SUFFICES ASSUME NEW x \in K PROVE x \in Z OBVIOUS
  <2>1. x[1] \in CoreItems(b) /\ x = <<x[1], x[2]>> BY DEF PairItems
  <2>2. x[1] \in AnyItems(b) BY <2>1, CoreItemsShape DEF IsBuild, HasFirst
  <2>3. x \in Pairs(b, K) BY <2>1, <2>2 DEF Pairs, LookaheadsOf
  <2>4. x[1] \in CoresOf(L) BY DEF CoresOf
  <2>5. x[1] \in CoresOf(C) BY <1>1, <2>4 DEF CoresOf
  <2> QED BY <2>3, <2>5
<1>3. \A x \in Z : new(x) \subseteq Z
  <2> SUFFICES ASSUME NEW x \in Z, NEW z \in new(x) PROVE z \in Z OBVIOUS
  <2>1. x \in Pairs(b, K) /\ x[1] \in CoresOf(C) /\ x[1] \in AnyItems(b) BY DEF Pairs
  <2>2. PICK y \in C : y[1] = x[1] BY <2>1 DEF CoresOf
  <2>3. z[1] \in ClosureItems(b, x[1]) /\ z[2] \in FollowingPredicts(b.first, x[1], x[2]) /\ z = <<z[1], z[2]>> OBVIOUS
  <2>4. FollowingPredicts(b.first, y[1], y[2]) # {} BY <2>2, <2>3, FollowedAnyway
  <2>5. PICK a \in FollowingPredicts(b.first, y[1], y[2]) : TRUE BY <2>4
  <2>6. <<z[1], a>> \in C
    <3>1. <<z[1], a>> \in new(y) BY <2>2, <2>3, <2>5
    <3> QED BY <1>1, <3>1
  <2>7. z[1] \in CoresOf(C) BY <2>6 DEF CoresOf
  <2>8. z[1] \in AnyItems(b) BY <2>3, AddedItems, CoreItemsShape DEF IsBuild, HasFirst
  <2>9. z[2] \in LookaheadsOf(K) \cup OwnSymbols(b)
    <3>1. x[2] \in LookaheadsOf(K) \cup OwnSymbols(b) BY <2>1 DEF Pairs
    <3>2. FollowingPredicts(b.first, x[1], x[2]) \subseteq OwnSymbols(b) \cup {x[2]} BY <2>1, AddedPredicts DEF IsBuild, HasFirst
    <3> QED BY <2>3, <3>1, <3>2
  <2> QED BY <2>3, <2>7, <2>8, <2>9 DEF Pairs
<1>4. Z \in SUBSET Pairs(b, K) OBVIOUS
<1> HIDE DEF Z
<1>5. Lr1Closure(b, b.first, K) \subseteq Z BY <1>2, <1>3, <1>4, Lr1ClosureEnds DEF IsBuild, HasFirst
<1> QED BY <1>5 DEF CoresOf, Z

LEMMA GotoCores ==
  ASSUME NEW b, IsBuild(b), NEW m \in SUBSET ItemsIn(b), NEW n \in SUBSET ItemsIn(b),
         CoresOf(m) = CoresOf(n), NEW X
  PROVE  CoresOf(GotoOf(b, m, X)) = CoresOf(GotoOf(b, n, X))
<1> DEFINE K == Moved(m, X)
           L == Moved(n, X)
<1>1. CoresOf(K) = CoresOf(L)
  <2>1. CoresOf(K) = {Advance(item) : item \in {it \in CoresOf(m) : DotBefore(it, X)}} BY MovedCores
  <2>2. CoresOf(L) = {Advance(item) : item \in {it \in CoresOf(n) : DotBefore(it, X)}} BY MovedCores
  <2> QED BY <2>1, <2>2
<1>2. K \in SUBSET ItemsIn(b) /\ L \in SUBSET ItemsIn(b) BY MovedItems
<1>3. GotoOf(b, m, X) = ClosureOf(b, K) /\ GotoOf(b, n, X) = ClosureOf(b, L) BY DEF GotoOf, Moved
<1> HIDE DEF K, L
<1>4. CASE b.canonical
  <2>1. /\ GotoOf(b, m, X) = Lr1Closure(b, b.first, K) /\ GotoOf(b, n, X) = Lr1Closure(b, b.first, L)
        /\ K \in SUBSET PairItems(b) /\ L \in SUBSET PairItems(b)
    BY <1>2, <1>3, <1>4 DEF ClosureOf, ItemsIn
  <2>2. CoresOf(GotoOf(b, m, X)) \subseteq CoresOf(GotoOf(b, n, X)) BY <1>1, <2>1, ClosureCores
  <2>3. CoresOf(GotoOf(b, n, X)) \subseteq CoresOf(GotoOf(b, m, X)) BY <1>1, <2>1, ClosureCores
  <2> QED BY <2>2, <2>3
<1>5. CASE ~b.canonical BY <1>1, <1>3, <1>5 DEF ClosureOf
<1> QED BY <1>4, <1>5

-----------------------------------------------------------------------------
(***************************************************************************)
(* The construction of the automata: what the loop over the queue knows    *)
(* before each of its steps.                                               *)
(***************************************************************************)
After(items) == SymbolsAfterDots(CoresOf(items))
\* Nodes are numbered from 0 in the order they were found, and no two are alike.
NodesFit ==
  /\ \E k \in Nat : Numbers = 0 .. k
  /\ nodes[0] = StartItems(build)
  /\ \A n \in Numbers : nodes[n] \in SUBSET ItemsIn(build)
  /\ \A m, n \in Numbers : nodes[m] = nodes[n] => m = n
\* Every edge recorded is one of its node, and leads to the goto set.
EdgesFit ==
  /\ DOMAIN nodeEdges = Numbers
  /\ \A n \in Numbers :
       /\ nodeEdges[n] \in Seq(Symbols \X Numbers)
       /\ \A e \in Elements(nodeEdges[n]) :
            e[1] \in After(nodes[n]) /\ nodes[e[2]] = GotoOf(build, nodes[n], e[1])
\* A node that has left the queue and is not being expanded has all its edges.
Expanded ==
  /\ work \in Seq(Numbers)
  /\ \A n \in Numbers : n \notin Elements(work) /\ (n = current => building # "expand") =>
       After(nodes[n]) \subseteq {e[1] : e \in Elements(nodeEdges[n])}
\* The one being expanded lacks no edge but those that wait.
Expanding ==
  /\ current \in Numbers /\ waiting \in Seq(Symbols)
  /\ Elements(waiting) \subseteq After(nodes[current])
  /\ After(nodes[current]) \subseteq {e[1] : e \in Elements(nodeEdges[current])} \cup Elements(waiting)
BuilderInv ==
  /\ building \in {"idle", "pop", "expand", "done"}
  /\ building = "idle" => nodes = <<>> /\ work = <<>>
  /\ building # "idle" => IsBuild(build) /\ NodesFit /\ EdgesFit /\ Expanded
  /\ building = "expand" => Expanding
  /\ building = "done" => work = <<>>

LEMMA ElementsOfQueue ==
  ASSUME NEW S, NEW s \in Seq(S), s # <<>>
  PROVE  Head(s) \in S /\ Tail(s) \in Seq(S) /\ Elements(s) = {Head(s)} \cup Elements(Tail(s))
<1> DEFINE t == Tail(s)
<1>1. /\ Head(s) = s[1] /\ t \in Seq(S) /\ Len(s) \in Nat \ {0} /\ Head(s) \in S
      /\ DOMAIN s = 1 .. Len(s) /\ DOMAIN t = 1 .. (Len(s) - 1)
      /\ \A k \in 1 .. (Len(s) - 1) : t[k] = s[k + 1]
  OBVIOUS
<1> HIDE DEF t
<1>2. \A k \in 1 .. Len(s) : k = 1 \/ (k - 1 \in 1 .. (Len(s) - 1) /\ s[k] = t[k - 1])
  <2> SUFFICES ASSUME NEW k \in 1 .. Len(s), k # 1 PROVE k - 1 \in 1 .. (Len(s) - 1) /\ s[k] = t[k - 1] OBVIOUS
  <2>1. k - 1 \in 1 .. (Len(s) - 1) /\ (k - 1) + 1 = k BY <1>1
  <2> QED BY <1>1, <2>1
<1>3. Elements(s) \subseteq {Head(s)} \cup Elements(t) BY <1>1, <1>2 DEF Elements
<1>4. Elements(t) \subseteq Elements(s)
  <2>1. \A k \in 1 .. (Len(s) - 1) : k + 1 \in 1 .. Len(s) BY <1>1
  <2> QED BY <1>1, <2>1 DEF Elements
<1>5. Head(s) \in Elements(s)
  <2>1. 1 \in 1 .. Len(s) BY <1>1
  <2> QED BY <1>1, <2>1 DEF Elements
<1> QED BY <1>1, <1>3, <1>4, <1>5 DEF t

LEMMA EmptySequence == Elements(<<>>) = {}
BY DEF Elements

\* Each step of the loop keeps the invariant.
LEMMA BuildAutomatonKeeps ==
  ASSUME BuilderInv, NEW b, IsBuild(b), BuildAutomaton(b)
  PROVE  BuilderInv'
<1>1. /\ building' = "pop" /\ build' = b /\ work' = <<0>>
      /\ nodes' = [n \in {0} |-> StartItems(b)] /\ nodeEdges' = [n \in {0} |-> <<>>]
  BY DEF BuildAutomaton
<1>2. 0 .. 0 = {0} /\ DOMAIN nodes' = {0} /\ nodes'[0] = StartItems(b) /\ nodeEdges'[0] = <<>> BY <1>1
<1>3. StartItems(b) \in SUBSET ItemsIn(b) BY StartEnds
<1>4. NodesFit'
  <2>1. \E k \in Nat : DOMAIN nodes' = 0 .. k BY <1>2
  <2> QED BY <1>1, <1>2, <1>3, <2>1 DEF NodesFit, Numbers
<1>5. EdgesFit' BY <1>1, <1>2, EmptySequence DEF EdgesFit, Numbers
<1>6. Expanded'
  <2>1. Elements(<<0>>) = {0} BY DEF Elements
  <2> QED BY <1>1, <1>2, <2>1 DEF Expanded, Numbers
<1> QED BY <1>1, <1>4, <1>5, <1>6 DEF BuilderInv

LEMMA PopKeeps ==
  ASSUME BuilderInv, Pop
  PROVE  BuilderInv'
<1>1. /\ building = "pop" /\ building' = "expand" /\ work # <<>> /\ current' = Head(work) /\ work' = Tail(work)
      /\ waiting' = SymbolsInOrder(nodes[Head(work)]) /\ UNCHANGED <<build, nodes, nodeEdges>>
  BY DEF Pop
<1>2. IsBuild(build) /\ NodesFit /\ EdgesFit /\ Expanded BY <1>1 DEF BuilderInv
<1>3. NodesFit' /\ EdgesFit' BY <1>1, <1>2 DEF NodesFit, EdgesFit, Numbers
<1>4. work \in Seq(Numbers) BY <1>2 DEF Expanded
<1>5. /\ Head(work) \in Numbers /\ Tail(work) \in Seq(Numbers)
      /\ Elements(work) = {Head(work)} \cup Elements(Tail(work))
  BY <1>1, <1>4, ElementsOfQueue
<1>6. Expanded' BY <1>1, <1>2, <1>5 DEF Expanded, Numbers
<1>7. Expanding'
  <2> DEFINE q == Head(work)
  <2>1. nodes[q] \in SUBSET ItemsIn(build) BY <1>2, <1>5 DEF NodesFit
  <2>2. After(nodes[q]) \subseteq Symbols BY <1>2, <2>1, SymbolsAreListed DEF After
  <2>3. waiting' \in Seq(Symbols) /\ Elements(waiting') = After(nodes[q])
    BY <1>1, <2>2, OrderLists DEF SymbolsInOrder, After
  <2> QED BY <1>1, <1>5, <2>3 DEF Expanding, Numbers
<1> QED BY <1>1, <1>2, <1>3, <1>6, <1>7 DEF BuilderInv

LEMMA FinishNodeKeeps ==
  ASSUME BuilderInv, FinishNode
  PROVE  BuilderInv'
<1>1. /\ building = "expand" /\ building' = "pop" /\ waiting = <<>>
      /\ UNCHANGED <<build, nodes, nodeEdges, work, current, waiting>>
  BY DEF FinishNode
<1>2. IsBuild(build) /\ NodesFit /\ EdgesFit /\ Expanded /\ Expanding BY <1>1 DEF BuilderInv
<1>3. NodesFit' /\ EdgesFit' BY <1>1, <1>2 DEF NodesFit, EdgesFit, Numbers
<1>4. After(nodes[current]) \subseteq {e[1] : e \in Elements(nodeEdges[current])}
  BY <1>1, <1>2, EmptySequence DEF Expanding
<1>5. Expanded' BY <1>1, <1>2, <1>4 DEF Expanded, Numbers
<1> QED BY <1>1, <1>2, <1>3, <1>5 DEF BuilderInv

LEMMA FinishBuildKeeps ==
  ASSUME BuilderInv, FinishBuild
  PROVE  BuilderInv'
<1>1. /\ building = "pop" /\ building' = "done" /\ work = <<>>
      /\ UNCHANGED <<build, nodes, nodeEdges, work, current, waiting>>
  BY DEF FinishBuild
<1>2. IsBuild(build) /\ NodesFit /\ EdgesFit /\ Expanded BY <1>1 DEF BuilderInv
<1>3. NodesFit' /\ EdgesFit' /\ Expanded' BY <1>1, <1>2 DEF NodesFit, EdgesFit, Expanded, Numbers
<1> QED BY <1>1, <1>2, <1>3 DEF BuilderInv

LEMMA BuilderStutters ==
  ASSUME BuilderInv, UNCHANGED builderVars
  PROVE  BuilderInv'
BY DEF builderVars, BuilderInv, NodesFit, EdgesFit, Expanded, Expanding, Numbers

\* The edges g are those of f, and one more from node c: for X, to n.
OneEdgeMore(g, f, N, c, X, n) ==
  /\ DOMAIN g = N
  /\ \A m \in N : m # c => g[m] = f[m]
  /\ g[c] \in Seq(Symbols \X N)
  /\ Elements(g[c]) = Elements(f[c]) \cup {<<X, n>>}

LEMMA RecordedEdge ==
  ASSUME NEW N, NEW f, DOMAIN f = N, current \in N, f[current] \in Seq(Symbols \X N),
         Head(waiting) \in Symbols, NEW n \in N
  PROVE  OneEdgeMore(RecordEdge(f, n), f, N, current, Head(waiting), n)
<1> DEFINE e0 == <<Head(waiting), n>>
           old == f[current]
           new == IF e0 \in Elements(old) THEN old ELSE Append(old, e0)
<1>1. RecordEdge(f, n) = [f EXCEPT ![current] = new] BY DEF RecordEdge
<1>2. e0 \in Symbols \X N /\ old \in Seq(Symbols \X N) OBVIOUS
<1> HIDE DEF e0, old
<1>3. new \in Seq(Symbols \X N) /\ Elements(new) = Elements(old) \cup {e0}
  <2>1. CASE e0 \in Elements(old) BY <1>2, <2>1
  <2>2. CASE e0 \notin Elements(old) BY <1>2, <2>2, ElementsOfAppend
  <2> QED BY <2>1, <2>2
<1> HIDE DEF new
<1>4. OneEdgeMore([f EXCEPT ![current] = new], f, N, current, Head(waiting), n)
  BY <1>3 DEF e0, old, OneEdgeMore
<1> QED BY <1>1, <1>4

\* What the expanded node lacks when one of its waiting symbols has got its edge.
LEMMA OneSymbolLess ==
  ASSUME NEW E, NEW X, NEW n, NEW W, NEW A, A \subseteq {e[1] : e \in E} \cup ({X} \cup W)
  PROVE  A \subseteq {e[1] : e \in E \cup {<<X, n>>}} \cup W
<1> SUFFICES ASSUME NEW a \in A, a \notin W PROVE a \in {e[1] : e \in E \cup {<<X, n>>}} OBVIOUS
<1>1. CASE a = X
  <2>1. <<X, n>> \in E \cup {<<X, n>>} /\ <<X, n>>[1] = a BY <1>1
  <2> QED BY <2>1
<1>2. CASE a # X
  <2>1. PICK e \in E : a = e[1] BY <1>2
  <2> QED BY <2>1
<1> QED BY <1>1, <1>2

\* What both ways of recording the edge for the next symbol start from.
LEMMA NextSymbol ==
  ASSUME BuilderInv, Expand
  PROVE  /\ building = "expand" /\ building' = "expand" /\ waiting # <<>> /\ waiting' = Tail(waiting)
         /\ UNCHANGED <<build, current>>
         /\ IsBuild(build) /\ NodesFit /\ EdgesFit /\ Expanded /\ Expanding
         /\ Head(waiting) \in Symbols /\ Head(waiting) \in After(nodes[current])
         /\ waiting' \in Seq(Symbols) /\ Elements(waiting) = {Head(waiting)} \cup Elements(waiting')
         /\ GotoOf(build, nodes[current], Head(waiting)) \in SUBSET ItemsIn(build)
<1>1. /\ building = "expand" /\ building' = "expand" /\ waiting # <<>> /\ waiting' = Tail(waiting)
      /\ UNCHANGED <<build, current>>
  BY DEF Expand
<1>2. IsBuild(build) /\ NodesFit /\ EdgesFit /\ Expanded /\ Expanding BY <1>1 DEF BuilderInv
<1>3. waiting \in Seq(Symbols) /\ current \in Numbers /\ Elements(waiting) \subseteq After(nodes[current])
  BY <1>2 DEF Expanding
<1>4. /\ Head(waiting) \in Symbols /\ Tail(waiting) \in Seq(Symbols)
      /\ Elements(waiting) = {Head(waiting)} \cup Elements(Tail(waiting))
  BY <1>1, <1>3, ElementsOfQueue
<1>5. nodes[current] \in SUBSET ItemsIn(build) BY <1>2, <1>3 DEF NodesFit
<1>6. GotoOf(build, nodes[current], Head(waiting)) \in SUBSET ItemsIn(build) BY <1>2, <1>5, GotoEnds
<1> QED BY <1>1, <1>2, <1>3, <1>4, <1>6

LEMMA ExpandKnownKeeps ==
  ASSUME BuilderInv, Expand, ExpandKnown(GotoOf(build, nodes[current], Head(waiting)))
  PROVE  BuilderInv'
<1> DEFINE X == Head(waiting)
           target == GotoOf(build, nodes[current], X)
<1>1. PICK q \in Known(target) : nodeEdges' = RecordEdge(nodeEdges, q) BY DEF ExpandKnown
<1>2. UNCHANGED <<nodes, work>> /\ q \in Numbers /\ nodes[q] = target BY <1>1 DEF ExpandKnown, Known
<1>3. /\ building = "expand" /\ building' = "expand" /\ UNCHANGED <<build, current>>
      /\ IsBuild(build) /\ NodesFit /\ EdgesFit /\ Expanded /\ Expanding
      /\ X \in Symbols /\ X \in After(nodes[current])
      /\ waiting' \in Seq(Symbols) /\ Elements(waiting) = {X} \cup Elements(waiting')
  BY NextSymbol
<1>4. /\ current \in Numbers /\ DOMAIN nodeEdges = Numbers
      /\ \A n \in Numbers : nodeEdges[n] \in Seq(Symbols \X Numbers)
  BY <1>3 DEF EdgesFit, Expanding
<1>5. /\ DOMAIN nodeEdges' = Numbers
      /\ \A m \in Numbers : m # current => nodeEdges'[m] = nodeEdges[m]
      /\ nodeEdges'[current] \in Seq(Symbols \X Numbers)
      /\ Elements(nodeEdges'[current]) = Elements(nodeEdges[current]) \cup {<<X, q>>}
  <2>1. OneEdgeMore(RecordEdge(nodeEdges, q), nodeEdges, Numbers, current, X, q)
    BY <1>2, <1>3, <1>4, RecordedEdge
  <2> HIDE DEF X
  <2> QED BY <1>1, <2>1 DEF OneEdgeMore
<1> HIDE DEF X, target
<1>6. NodesFit' BY <1>2, <1>3 DEF NodesFit, Numbers
<1>7. EdgesFit'
  <2> SUFFICES ASSUME NEW n \in Numbers
               PROVE  /\ nodeEdges'[n] \in Seq(Symbols \X Numbers)
                      /\ \A e \in Elements(nodeEdges'[n]) :
                           e[1] \in After(nodes[n]) /\ nodes[e[2]] = GotoOf(build, nodes[n], e[1])
    BY <1>2, <1>3, <1>5 DEF EdgesFit, Numbers
  <2>1. \A e \in Elements(nodeEdges[n]) :
          e[1] \in After(nodes[n]) /\ nodes[e[2]] = GotoOf(build, nodes[n], e[1])
    BY <1>3 DEF EdgesFit
  <2>2. CASE n # current BY <1>4, <1>5, <2>1, <2>2
  <2>3. CASE n = current BY <1>2, <1>3, <1>5, <2>1, <2>3 DEF X, target
  <2> QED BY <2>2, <2>3
<1>8. Expanded' BY <1>2, <1>3, <1>5 DEF Expanded, Numbers
<1>9. Expanding'
  <2>1. After(nodes[current]) \subseteq {e[1] : e \in Elements(nodeEdges[current])} \cup ({X} \cup Elements(waiting'))
    BY <1>3 DEF Expanding
  <2>2. After(nodes[current]) \subseteq {e[1] : e \in Elements(nodeEdges'[current])} \cup Elements(waiting')
    BY <1>5, <2>1, OneSymbolLess
  <2>3. Elements(waiting') \subseteq After(nodes[current]) BY <1>3 DEF Expanding
  <2> QED BY <1>2, <1>3, <1>4, <2>2, <2>3 DEF Expanding, Numbers
<1> QED BY <1>3, <1>6, <1>7, <1>8, <1>9 DEF BuilderInv

LEMMA ExpandNewKeeps ==
  ASSUME BuilderInv, Expand, ExpandNew(GotoOf(build, nodes[current], Head(waiting)))
  PROVE  BuilderInv'
<1> DEFINE X == Head(waiting)
           target == GotoOf(build, nodes[current], X)
           q == Fresh
           f == [n \in Numbers \cup {q} |-> IF n = q THEN <<>> ELSE nodeEdges[n]]
           N == Numbers \cup {q}
<1>1. /\ Known(target) = {} /\ work' = Append(work, q) /\ nodeEdges' = RecordEdge(f, q)
      /\ nodes' = [n \in N |-> IF n = q THEN target ELSE nodes[n]]
  BY DEF ExpandNew
<1>2. /\ building = "expand" /\ building' = "expand" /\ UNCHANGED <<build, current>>
      /\ IsBuild(build) /\ NodesFit /\ EdgesFit /\ Expanded /\ Expanding
      /\ X \in Symbols /\ X \in After(nodes[current])
      /\ waiting' \in Seq(Symbols) /\ Elements(waiting) = {X} \cup Elements(waiting')
      /\ target \in SUBSET ItemsIn(build)
  BY NextSymbol
<1>3. PICK k \in Nat : Numbers = 0 .. k BY <1>2 DEF NodesFit
<1>4. q = k + 1 /\ q \notin Numbers /\ N = 0 .. (k + 1) /\ 0 \in Numbers /\ 0 # q
  <2>1. Cardinality(0 .. k) = k + 1 BY FS_Interval
  <2> QED BY <1>3, <2>1 DEF Fresh
<1>5. \A n \in Numbers : nodes[n] # target BY <1>1 DEF Known
<1>6. /\ current \in Numbers /\ DOMAIN nodeEdges = Numbers
      /\ \A n \in Numbers : nodeEdges[n] \in Seq(Symbols \X Numbers)
  BY <1>2 DEF EdgesFit, Expanding
<1>7. DOMAIN f = N /\ f[q] = <<>> /\ \A n \in Numbers : f[n] = nodeEdges[n] BY <1>4
<1> HIDE DEF X, target, q, f, N
<1>8. /\ Numbers' = N /\ nodes'[q] = target /\ \A n \in Numbers : nodes'[n] = nodes[n]
      /\ \A n \in N : n = q \/ n \in Numbers
  BY <1>1, <1>4 DEF Numbers, N
<1>9. \A n \in Numbers : nodeEdges[n] \in Seq(Symbols \X N)
  <2>1. Numbers \subseteq N BY DEF N
  <2> SUFFICES ASSUME NEW n \in Numbers PROVE nodeEdges[n] \in Seq(Symbols \X N) OBVIOUS
  <2>2. nodeEdges[n] \in Seq(Symbols \X Numbers) BY <1>6
  <2>3. Symbols \X Numbers \subseteq Symbols \X N BY <2>1
  <2> QED BY <2>2, <2>3
<1>10. current \in N /\ q \in N /\ current # q BY <1>4, <1>6 DEF N
<1>11. /\ DOMAIN nodeEdges' = N
       /\ \A m \in N : m # current => nodeEdges'[m] = f[m]
       /\ nodeEdges'[current] \in Seq(Symbols \X N)
       /\ Elements(nodeEdges'[current]) = Elements(nodeEdges[current]) \cup {<<X, q>>}
  <2>1. f[current] \in Seq(Symbols \X N) /\ f[current] = nodeEdges[current] BY <1>6, <1>7, <1>9
  <2>2. Head(waiting) \in Symbols /\ X = Head(waiting) BY <1>2 DEF X
  <2>3. OneEdgeMore(RecordEdge(f, q), f, N, current, X, q)
    BY <1>7, <1>10, <2>1, <2>2, RecordedEdge
  <2> QED BY <1>1, <2>1, <2>3 DEF OneEdgeMore
<1>12. NodesFit'
  <2>1. \E j \in Nat : Numbers' = 0 .. j
    <3>1. k + 1 \in Nat OBVIOUS
    <3> QED BY <1>4, <1>8, <3>1
  <2>2. nodes'[0] = StartItems(build') BY <1>2, <1>4, <1>8 DEF NodesFit
  <2>3. \A n \in N : nodes'[n] \in SUBSET ItemsIn(build') BY <1>2, <1>8 DEF NodesFit
  <2>4. \A m, n \in N : nodes'[m] = nodes'[n] => m = n BY <1>2, <1>5, <1>8 DEF NodesFit
  <2> QED BY <1>8, <2>1, <2>2, <2>3, <2>4 DEF NodesFit, Numbers
<1>13. ASSUME NEW n \in Numbers, NEW e \in Elements(nodeEdges[n])
       PROVE  e[1] \in After(nodes'[n]) /\ nodes'[e[2]] = GotoOf(build, nodes'[n], e[1])
  <2>1. e[1] \in After(nodes[n]) /\ nodes[e[2]] = GotoOf(build, nodes[n], e[1]) BY <1>2 DEF EdgesFit
  <2>2. e[2] \in Numbers
    <3>1. nodeEdges[n] \in Seq(Symbols \X Numbers) BY <1>6
    <3>2. e \in Symbols \X Numbers BY <3>1 DEF Elements
    <3> QED BY <3>2
  <2> QED BY <1>8, <2>1, <2>2
<1>14. EdgesFit'
  <2> SUFFICES ASSUME NEW n \in N
               PROVE  /\ nodeEdges'[n] \in Seq(Symbols \X N)
                      /\ \A e \in Elements(nodeEdges'[n]) :
                           e[1] \in After(nodes'[n]) /\ nodes'[e[2]] = GotoOf(build, nodes'[n], e[1])
    BY <1>2, <1>8, <1>11 DEF EdgesFit, Numbers
  <2>1. CASE n = q
    <3>1. nodeEdges'[n] = <<>> BY <1>7, <1>10, <1>11, <2>1
    <3> QED BY <3>1, EmptySequence
  <2>2. CASE n = current
    <3>1. \A e \in Elements(nodeEdges[current]) :
            e[1] \in After(nodes'[n]) /\ nodes'[e[2]] = GotoOf(build, nodes'[n], e[1])
      BY <1>6, <1>13, <2>2
    <3>2. X \in After(nodes'[n]) /\ nodes'[q] = GotoOf(build, nodes'[n], X)
      BY <1>2, <1>6, <1>8, <2>2 DEF target
    <3> QED BY <1>11, <2>2, <3>1, <3>2
  <2>3. CASE n # q /\ n # current
    <3>1. n \in Numbers /\ nodeEdges'[n] = nodeEdges[n] BY <1>7, <1>8, <1>11, <2>3
    <3> QED BY <1>9, <1>13, <3>1
  <2> QED BY <2>1, <2>2, <2>3
<1>15. work' \in Seq(N) /\ Elements(work') = Elements(work) \cup {q}
  <2>1. work \in Seq(Numbers) BY <1>2 DEF Expanded
  <2>2. work \in Seq(N) BY <2>1 DEF N
  <2> QED BY <1>1, <1>10, <2>2, ElementsOfAppend
<1>16. Expanded'
  <2> SUFFICES ASSUME NEW n \in N, n \notin Elements(work'), n # current
               PROVE  After(nodes'[n]) \subseteq {e[1] : e \in Elements(nodeEdges'[n])}
    BY <1>2, <1>8, <1>15 DEF Expanded, Numbers
  <2>1. n \in Numbers /\ n \notin Elements(work) /\ nodeEdges'[n] = nodeEdges[n] /\ nodes'[n] = nodes[n]
    BY <1>7, <1>8, <1>11, <1>15
  <2> QED BY <1>2, <2>1 DEF Expanded
<1>17. Expanding'
  <2>1. After(nodes[current]) \subseteq {e[1] : e \in Elements(nodeEdges[current])} \cup ({X} \cup Elements(waiting'))
    BY <1>2 DEF Expanding
  <2>2. After(nodes[current]) \subseteq {e[1] : e \in Elements(nodeEdges'[current])} \cup Elements(waiting')
    BY <1>11, <2>1, OneSymbolLess
  <2>3. Elements(waiting') \subseteq After(nodes[current]) BY <1>2 DEF Expanding
  <2>4. nodes'[current] = nodes[current] /\ current' = current /\ current' \in Numbers' BY <1>2, <1>6, <1>8, <1>10
  <2> QED BY <1>2, <2>2, <2>3, <2>4 DEF Expanding
<1> QED BY <1>2, <1>12, <1>14, <1>16, <1>17 DEF BuilderInv

LEMMA BuilderKeeps ==
  ASSUME BuilderInv, BuilderNext
  PROVE  BuilderInv'
<1>1. CASE Expand
  <2>1. ExpandKnown(GotoOf(build, nodes[current], Head(waiting))) \/ ExpandNew(GotoOf(build, nodes[current], Head(waiting)))
    BY <1>1 DEF Expand
  <2> QED BY <1>1, <2>1, ExpandKnownKeeps, ExpandNewKeeps
<1> QED BY <1>1, PopKeeps, FinishNodeKeeps, FinishBuildKeeps DEF BuilderNext

LEMMA NothingForgotten ==
  ASSUME BuilderInv
  PROVE  NoNodeForgotten
<1>1. CASE building = "idle"
  <2>1. Numbers = {} BY <1>1 DEF BuilderInv, Numbers
  <2> QED BY <2>1 DEF NoNodeForgotten
<1>2. CASE building # "idle"
  <2> SUFFICES ASSUME NEW n \in Numbers, n \notin Elements(work), n = current => building # "expand"
               PROVE  /\ {e[1] : e \in EdgesFrom(n)} = SymbolsAfterDots(CoresOf(nodes[n]))
                      /\ \A e \in EdgesFrom(n) : nodes[e[2]] = GotoOf(build, nodes[n], e[1])
    BY DEF NoNodeForgotten
  <2>1. EdgesFit /\ Expanded BY <1>2 DEF BuilderInv
  <2>2. After(nodes[n]) \subseteq {e[1] : e \in EdgesFrom(n)} BY <2>1 DEF Expanded, EdgesFrom
  <2>3. \A e \in EdgesFrom(n) : e[1] \in After(nodes[n]) /\ nodes[e[2]] = GotoOf(build, nodes[n], e[1])
    BY <2>1 DEF EdgesFit, EdgesFrom
  <2> QED BY <2>2, <2>3 DEF After
<1> QED BY <1>1, <1>2

\* The automaton that is handed over satisfies what the converter takes for granted.
LEMMA HandsOverCanonical ==
  ASSUME BuilderInv, building = "done"
  PROVE  IsCanonical([items |-> nodes, edges |-> [n \in DOMAIN nodes |-> Elements(nodeEdges[n])]])
<1> DEFINE c == [items |-> nodes, edges |-> [n \in DOMAIN nodes |-> Elements(nodeEdges[n])]]
<1>1. IsBuild(build) /\ NodesFit /\ EdgesFit BY DEF BuilderInv
<1>2. PICK k \in Nat : Numbers = 0 .. k BY <1>1 DEF NodesFit
<1>3. \A n \in Numbers : n \in Nat /\ 0 .. n \subseteq Numbers BY <1>2
<1>4. c.items = nodes /\ DOMAIN c.items = Numbers /\ DOMAIN c.edges = Numbers
      /\ \A n \in Numbers : c.edges[n] = Elements(nodeEdges[n])
  BY DEF Numbers
<1>5. \A n \in Numbers : \A e \in Elements(nodeEdges[n]) :
        e[2] \in Numbers /\ nodes[e[2]] = GotoOf(build, nodes[n], e[1])
  <2> SUFFICES ASSUME NEW n \in Numbers, NEW e \in Elements(nodeEdges[n])
               PROVE  e[2] \in Numbers /\ nodes[e[2]] = GotoOf(build, nodes[n], e[1])
    OBVIOUS
  <2>1. nodeEdges[n] \in Seq(Symbols \X Numbers) BY <1>1 DEF EdgesFit
  <2>2. e \in Symbols \X Numbers BY <2>1 DEF Elements
  <2> QED BY <1>1, <2>2 DEF EdgesFit
<1>6. ASSUME NEW m \in Numbers, NEW n \in Numbers, CoresOf(nodes[m]) = CoresOf(nodes[n]),
             NEW d \in Elements(nodeEdges[m]), NEW e \in Elements(nodeEdges[n]), d[1] = e[1]
      PROVE  CoresOf(nodes[d[2]]) = CoresOf(nodes[e[2]])
  <2>1. nodes[m] \in SUBSET ItemsIn(build) /\ nodes[n] \in SUBSET ItemsIn(build) BY <1>1 DEF NodesFit
  <2>2. CoresOf(GotoOf(build, nodes[m], d[1])) = CoresOf(GotoOf(build, nodes[n], d[1]))
    BY <1>1, <1>6, <2>1, GotoCores
  <2> QED BY <1>5, <1>6, <2>2
<1> HIDE DEF c
<1>7. IsCanonical(c) BY <1>3, <1>4, <1>5, <1>6 DEF IsCanonical
<1> QED BY <1>7 DEF c

-----------------------------------------------------------------------------
(***************************************************************************)
(* Lists of the members of a finite set, as the table builder reads items. *)
(***************************************************************************)
EnumerateStep(h, rest) ==
  IF rest = {} THEN <<>> ELSE LET x == CHOOSE y \in rest : TRUE IN <<x>> \o h[rest \ {x}]
\* The subsets of S with at most n members.
UpTo(S, n) == {T \in SUBSET S : Cardinality(T) <= n}
Enumerates(h, S, n) == h = [rest \in UpTo(S, n) |-> EnumerateStep(h, rest)]

LEMMA OneSmaller ==
  ASSUME NEW S, IsFiniteSet(S), NEW n \in Nat, NEW T \in UpTo(S, n), T # {}
  PROVE  LET x == CHOOSE y \in T : TRUE
         IN  x \in T /\ n - 1 \in Nat /\ T \ {x} \in UpTo(S, n - 1) /\ Cardinality(T \ {x}) = Cardinality(T) - 1
<1> DEFINE x == CHOOSE y \in T : TRUE
<1>1. x \in T OBVIOUS
<1> HIDE DEF x
<1>2. T \in SUBSET S /\ Cardinality(T) <= n BY DEF UpTo
<1>3. IsFiniteSet(T) /\ T \ {x} \in SUBSET S BY <1>2, FS_Subset
<1>4. Cardinality(T) \in Nat /\ Cardinality(T \ {x}) = Cardinality(T) - 1 /\ Cardinality(T \ {x}) \in Nat
  BY <1>1, <1>3, FS_RemoveElement, FS_CardinalityType
<1>5. n - 1 \in Nat /\ Cardinality(T \ {x}) <= n - 1 BY <1>2, <1>4
<1>6. T \ {x} \in UpTo(S, n - 1) BY <1>3, <1>5 DEF UpTo
<1> QED BY <1>1, <1>4, <1>5, <1>6 DEF x

LEMMA EnumerationExists ==
  ASSUME NEW S, IsFiniteSet(S), NEW n \in Nat
  PROVE  \E h : Enumerates(h, S, n)
<1> DEFINE Bad == {k \in Nat : ~ \E h : Enumerates(h, S, k)}
<1>1. Bad = {}
  <2> SUFFICES ASSUME Bad # {} PROVE FALSE OBVIOUS
  <2>1. Bad \in SUBSET Nat OBVIOUS
  <2>2. PICK m \in Bad : \A k \in Bad : m <= k BY <2>1, LeastOf
  <2> SUFFICES \E h : Enumerates(h, S, m) BY <2>2
  <2>3. m \in Nat BY <2>2
  <2>4. CASE m = 0
    <3> DEFINE h == [rest \in UpTo(S, 0) |-> <<>>]
    <3>1. \A T \in UpTo(S, 0) : T = {}
      <4> SUFFICES ASSUME NEW T \in UpTo(S, 0), T # {} PROVE FALSE OBVIOUS
      <4>1. 0 - 1 \in Nat BY OneSmaller
      <4> QED BY <4>1
    <3>2. \A T \in UpTo(S, 0) : EnumerateStep(h, T) = <<>> BY <3>1 DEF EnumerateStep
    <3> HIDE DEF h
    <3>3. h = [rest \in UpTo(S, 0) |-> <<>>] BY DEF h
    <3>4. h = [rest \in UpTo(S, 0) |-> EnumerateStep(h, rest)] BY <3>2, <3>3
    <3> QED BY <2>4, <3>4 DEF Enumerates
  <2>5. CASE m # 0
    <3>1. m - 1 \in Nat /\ m - 1 \notin Bad
      <4>1. m - 1 \in Nat BY <2>3, <2>5
      <4>2. m - 1 \notin Bad
        <5> HIDE DEF Bad
        <5> QED BY <2>2, <2>3, <4>1
      <4> QED BY <4>1, <4>2
    <3>2. PICK f : Enumerates(f, S, m - 1) BY <3>1
    <3> DEFINE A == UpTo(S, m - 1)
               h == [rest \in UpTo(S, m) |-> IF rest \in A THEN f[rest] ELSE EnumerateStep(f, rest)]
    <3>3. A \subseteq UpTo(S, m)
      <4>1. \A T \in SUBSET S : Cardinality(T) \in Nat BY FS_Subset, FS_CardinalityType
      <4> QED BY <2>3, <4>1 DEF UpTo
    <3>4. \A T \in A : f[T] = EnumerateStep(f, T) BY <3>2 DEF Enumerates
    <3>5. ASSUME NEW T \in UpTo(S, m) PROVE EnumerateStep(h, T) = EnumerateStep(f, T)
      <4>1. CASE T = {} BY <4>1 DEF EnumerateStep
      <4>2. CASE T # {}
        <5> DEFINE x == CHOOSE y \in T : TRUE
        <5>1. T \ {x} \in A BY <2>3, <4>2, OneSmaller
        <5>2. h[T \ {x}] = f[T \ {x}] BY <3>3, <5>1
        <5> HIDE DEF h
        <5> QED BY <4>2, <5>2 DEF EnumerateStep
      <4> QED BY <4>1, <4>2
    <3>6. \A T \in UpTo(S, m) : h[T] = EnumerateStep(f, T) BY <3>4
    <3>7. h = [rest \in UpTo(S, m) |-> h[rest]] OBVIOUS
    <3> HIDE DEF h
    <3>8. h = [rest \in UpTo(S, m) |-> EnumerateStep(h, rest)] BY <3>5, <3>6, <3>7
    <3> QED BY <3>8 DEF Enumerates
  <2> QED BY <2>4, <2>5
<1> QED BY <1>1

\* A sequence with one more element in front.
LEMMA ElementsOfFront ==
  ASSUME NEW S, NEW s \in Seq(S), NEW x \in S
  PROVE  <<x>> \o s \in Seq(S) /\ Elements(<<x>> \o s) = {x} \cup Elements(s)
<1> DEFINE t == <<x>> \o s
<1>1. /\ t \in Seq(S) /\ Len(s) \in Nat /\ Len(t) = Len(s) + 1
      /\ DOMAIN s = 1 .. Len(s) /\ DOMAIN t = 1 .. Len(s) + 1
      /\ t[1] = x /\ \A k \in 1 .. Len(s) : t[k + 1] = s[k]
  OBVIOUS
<1> HIDE DEF t
<1>2. Elements(t) \subseteq {x} \cup Elements(s)
  <2> SUFFICES ASSUME NEW k \in 1 .. Len(s) + 1 PROVE t[k] \in {x} \cup Elements(s) BY <1>1 DEF Elements
  <2>1. k = 1 \/ (k - 1 \in 1 .. Len(s) /\ (k - 1) + 1 = k) BY <1>1
  <2> QED BY <1>1, <2>1 DEF Elements
<1>3. Elements(s) \subseteq Elements(t)
  <2>1. \A k \in 1 .. Len(s) : k + 1 \in 1 .. Len(s) + 1 BY <1>1
  <2> QED BY <1>1, <2>1 DEF Elements
<1>4. x \in Elements(t)
  <2>1. 1 \in 1 .. Len(s) + 1 BY <1>1
  <2> QED BY <1>1, <2>1 DEF Elements
<1> QED BY <1>1, <1>2, <1>3, <1>4 DEF t

LEMMA EnumerateLists ==
  ASSUME NEW S, IsFiniteSet(S)
  PROVE  Enumerate(S) \in Seq(S) /\ Elements(Enumerate(S)) = S
<1> DEFINE n == Cardinality(S)
           list == CHOOSE h : h = [rest \in SUBSET S |-> EnumerateStep(h, rest)]
           Good(T) == list[T] \in Seq(T) /\ Elements(list[T]) = T
           Bad == {Cardinality(T) : T \in {U \in SUBSET S : ~Good(U)}}
<1>1. Enumerate(S) = list[S] BY DEF Enumerate, EnumerateStep
<1>2. n \in Nat /\ UpTo(S, n) = SUBSET S
  <2>1. \A T \in SUBSET S : Cardinality(T) <= n BY FS_Subset
  <2> QED BY <2>1, FS_CardinalityType DEF UpTo
<1>3. list = [rest \in SUBSET S |-> EnumerateStep(list, rest)] BY <1>2, EnumerationExists DEF Enumerates
<1> HIDE DEF list
<1>4. Bad = {}
  <2> SUFFICES ASSUME Bad # {} PROVE FALSE OBVIOUS
  <2>1. \A T \in SUBSET S : IsFiniteSet(T) /\ Cardinality(T) \in Nat BY FS_Subset, FS_CardinalityType
  <2>2. Bad \in SUBSET Nat
    <3> HIDE DEF Good
    <3> QED BY <2>1
  <2>3. PICK m \in Bad : \A k \in Bad : m <= k BY <2>2, LeastOf
  <2>4. PICK T \in SUBSET S : ~Good(T) /\ m = Cardinality(T) BY <2>3
  <2> SUFFICES Good(T) BY <2>4
  <2>5. list[T] = EnumerateStep(list, T) BY <1>3
  <2>6. CASE T = {}
    <3>1. list[T] = <<>> BY <2>5, <2>6 DEF EnumerateStep
    <3> QED BY <2>6, <3>1, EmptySequence
  <2>7. CASE T # {}
    <3> DEFINE x == CHOOSE y \in T : TRUE
               U == T \ {x}
    <3>1. T \in UpTo(S, n) BY <1>2
    <3>2. x \in T /\ Cardinality(U) = Cardinality(T) - 1 BY <1>2, <2>7, <3>1, OneSmaller
    <3>3. list[T] = <<x>> \o list[U] BY <2>5, <2>7 DEF EnumerateStep
    <3> HIDE DEF x
    <3>4. U \in SUBSET S /\ T = U \cup {x} /\ Cardinality(T) \in Nat /\ Cardinality(U) \in Nat BY <2>1, <3>2
    <3>5. Good(U)
      <4> SUFFICES ASSUME ~Good(U) PROVE FALSE OBVIOUS
      <4>1. Cardinality(U) \in Bad
        <5> HIDE DEF Good, U
        <5> QED BY <3>4
      <4>2. m <= Cardinality(U)
        <5> HIDE DEF Bad, Good
        <5> QED BY <2>3, <4>1
      <4> QED BY <2>4, <3>2, <3>4, <4>2
    <3>6. list[U] \in Seq(T) /\ Elements(list[U]) = U
      <4>1. list[U] \in Seq(U) /\ U \subseteq T BY <3>5
      <4> QED BY <3>5, <4>1
    <3> HIDE DEF U
    <3>7. list[T] \in Seq(T) /\ Elements(list[T]) = {x} \cup U BY <3>2, <3>3, <3>6, ElementsOfFront
    <3> QED BY <3>4, <3>7
  <2> QED BY <2>6, <2>7
<1>5. Good(S)
  <2> SUFFICES ASSUME ~Good(S) PROVE FALSE OBVIOUS
  <2>1. Cardinality(S) \in Bad
    <3> HIDE DEF Good
    <3> QED OBVIOUS
  <2> QED BY <1>4, <2>1
<1> QED BY <1>1, <1>5

\* A sequence is one of its own elements.
LEMMA OwnElements ==
  ASSUME NEW S, NEW s \in Seq(S)
  PROVE  s \in Seq(Elements(s)) /\ DOMAIN s = 1 .. Len(s)
BY DEF Elements

-----------------------------------------------------------------------------
(***************************************************************************)
(* The whole way from a grammar to its tables: what each part takes for    *)
(* granted is what the part before it hands over.                          *)
(***************************************************************************)
\* The construction is called with a grammar that has its FIRST sets.
LEMMA CalledWithBuild ==
  ASSUME IInv, NEW isCanonical \in BOOLEAN
  PROVE  IsBuild([nonterminals |-> input.nonterminals, producers |-> input.producers,
                  start |-> input.start, first |-> first, canonical |-> isCanonical])
<1> DEFINE b == [nonterminals |-> input.nonterminals, producers |-> input.producers,
                 start |-> input.start, first |-> first, canonical |-> isCanonical]
<1>1. /\ b.nonterminals = input.nonterminals /\ b.producers = input.producers /\ b.start = input.start
      /\ b.first = first /\ b.canonical = isCanonical
  OBVIOUS
<1> HIDE DEF b
<1>2. input \in Grammars /\ first \in [Names(input) -> SUBSET (SymbolsIn(input) \cup {Epsilon})] BY DEF IInv, TypeOK
<1>3. IsGrammar(input) BY <1>2, GrammarsAssumption
<1>4. OwnSymbols(b) = {input.start} \cup SymbolsIn(input)
  <2>1. AugmentedProduction(b).right = <<input.start>> BY <1>1 DEF AugmentedProduction
  <2>2. Elements(<<input.start>>) = {input.start} BY DEF Elements
  <2>3. AllProductions(b) = {AugmentedProduction(b)} \cup Elements(input.producers) BY <1>1 DEF AllProductions
  <2> QED BY <2>1, <2>2, <2>3 DEF OwnSymbols, SymbolsIn
<1>5. OwnSymbols(b) \subseteq Symbols BY <1>2, <1>4, OrderAssumption DEF Symbols
<1>6. b.first \in [Names(b) -> SUBSET (OwnSymbols(b) \cup {Epsilon})]
  <2>1. Names(b) = Names(input) BY <1>1 DEF Names
  <2>2. SUBSET (SymbolsIn(input) \cup {Epsilon}) \subseteq SUBSET (OwnSymbols(b) \cup {Epsilon}) BY <1>4
  <2> QED BY <1>1, <1>2, <2>1, <2>2
<1>7. HasFirst(b, b.first) BY <1>1, <1>3, <1>6 DEF HasFirst, HasProducers, IsGrammar
<1>8. IsBuild(b) BY <1>1, <1>5, <1>7 DEF IsBuild
<1> QED BY <1>8 DEF b

\* An automaton with finite item sets is one that the table builder can read.
LEMMA ReadableIsReadable ==
  ASSUME IInv, NEW k \in Nat, NEW items, DOMAIN items = 0 .. k, NEW edgesOf,
         \A n \in 0 .. k : IsFiniteSet(items[n]) /\ edgesOf[n] \in Seq(Elements(edgesOf[n]))
  PROVE  IsReadable(input, Readable(items, edgesOf))
<1> DEFINE c == Readable(items, edgesOf)
<1>1. /\ c.states = Cardinality(0 .. k) /\ c.edges = edgesOf /\ c.items = [n \in 0 .. k |-> Enumerate(items[n])]
  BY DEF Readable
<1> HIDE DEF c
<1>2. c.states = k + 1 BY <1>1, FS_Interval
<1>3. States(c) = 0 .. k BY <1>2 DEF States
<1>4. ASSUME NEW n \in 0 .. k PROVE c.edges[n] \in Seq(Elements(c.edges[n])) /\ c.items[n] \in Seq(ItemsOf(c, n))
  <2>1. c.items[n] \in Seq(items[n]) BY <1>1, EnumerateLists
  <2>2. c.items[n] \in Seq(Elements(c.items[n])) BY <2>1, OwnElements
  <2> QED BY <1>1, <2>2 DEF ItemsOf
<1>5. input \in Grammars /\ IsGrammar(input) BY GrammarsAssumption DEF IInv, TypeOK
<1>6. \A prod \in Elements(input.producers) : prod.left # AugmentedStart BY <1>5 DEF IsGrammar
<1>7. /\ input.declarations \in Seq(Elements(input.declarations))
      /\ \A d \in Elements(input.declarations) : d.level \in Int
  BY <1>5, DeclarationsAssumption
<1>8. c.states \in Nat \ {0} BY <1>2
<1>9. IsReadable(input, c) BY <1>3, <1>4, <1>5, <1>6, <1>7, <1>8 DEF IsReadable, IsGrammar
<1> QED BY <1>9 DEF c

LEMMA ItemsAreFinite ==
  ASSUME NEW b, IsBuild(b), NEW items \in SUBSET ItemsIn(b)
  PROVE  IsFiniteSet(items)
<1>1. IsFiniteSet(CoreItems(b)) BY CoreItemsShape DEF IsBuild, HasFirst
<1>2. IsFiniteSet(PairItems(b))
  <2>1. IsFiniteSet(OwnSymbols(b) \cup {EndMarker})
    <3>1. IsFiniteSet({EndMarker}) BY FS_Singleton
    <3> QED BY <3>1, ProductionShape, FS_Union DEF IsBuild, HasFirst
  <2> QED BY <1>1, <2>1, FS_Product DEF PairItems
<1>3. IsFiniteSet(CoreItems(b) \X {NoLookahead})
  <2>1. IsFiniteSet({NoLookahead}) BY FS_Singleton
  <2> QED BY <1>1, <2>1, FS_Product
<1>4. IsFiniteSet(ItemsIn(b)) BY <1>2, <1>3 DEF ItemsIn
<1> QED BY <1>4, FS_Subset

\* The rules of the grammars, and the canonical item sets of their references.
LEMMA GrammarsHaveRules ==
  ASSUME NEW g \in Grammars
  PROVE  HasRules(g) /\ IsGrammar(g) /\ SymbolsIn(g) = SymbolsOfRules(g)
<1>1. IsGrammar(g) BY GrammarsAssumption
<1> QED BY <1>1 DEF IsGrammar, HasRules, HasProducers, SymbolsIn, SymbolsOfRules

LEMMA CanonicalStatesFit ==
  ASSUME NEW g \in Grammars
  PROVE  /\ CanonicalStates[g] = Lr1States(g, FirstTable(g))
         /\ CanonicalStates[g] \in SUBSET SUBSET PairItems(g) /\ IsFiniteSet(UNION CanonicalStates[g])
<1>1. HasFirst(g, FirstTable(g)) BY GrammarsHaveRules, FirstTableType
<1>2. CanonicalStates[g] = Lr1States(g, FirstTable(g)) BY ReferenceAssumption
<1>3. IsLr1Collection(g, FirstTable(g), Lr1States(g, FirstTable(g))) BY <1>1, Lr1StatesAreLeast
<1>4. CanonicalStates[g] \in SUBSET SUBSET PairItems(g) BY <1>2, <1>3 DEF IsLr1Collection
<1>5. IsFiniteSet(PairItems(g)) BY <1>1, ItemsAreFinitelyMany DEF HasFirst
<1>6. UNION CanonicalStates[g] \in SUBSET PairItems(g) BY <1>4
<1>7. IsFiniteSet(UNION CanonicalStates[g]) BY <1>5, <1>6, FS_Subset
<1> QED BY <1>2, <1>4, <1>7

\* What all the parts know at every moment.  The converter works on what was built.
PipelineInv ==
  /\ IInv /\ BuilderInv /\ ConversionInv /\ FilledSoFar
  /\ converting # "idle" => building = "done" /\ canonical.items = nodes

\* The finished automaton has nodes 0 .. k with finite item sets.
LEMMA Built ==
  ASSUME BuilderInv, building = "done"
  PROVE  /\ \E k \in Nat : Numbers = 0 .. k
         /\ \A n \in Numbers : IsFiniteSet(nodes[n]) /\ nodeEdges[n] \in Seq(Elements(nodeEdges[n]))
<1>1. IsBuild(build) /\ NodesFit /\ EdgesFit BY DEF BuilderInv
<1>2. \A n \in Numbers : IsFiniteSet(nodes[n]) BY <1>1, ItemsAreFinite DEF NodesFit
<1>3. \A n \in Numbers : nodeEdges[n] \in Seq(Elements(nodeEdges[n])) BY <1>1, OwnElements DEF EdgesFit
<1> QED BY <1>1, <1>2, <1>3 DEF NodesFit

LEMMA MergedFit ==
  ASSUME PipelineInv, converting = "done"
  PROVE  /\ \E k \in Nat : DOMAIN merged = 0 .. k
         /\ \A n \in DOMAIN merged : IsFiniteSet(merged[n])
<1>1. /\ GroupsAlike /\ GroupedSoFar /\ DOMAIN merged = NewNodes /\ MergedSoFar
      /\ building = "done" /\ canonical.items = nodes /\ BuilderInv
  BY DEF PipelineInv, ConversionInv
<1>2. PICK j \in Nat : Numbers = 0 .. j BY <1>1, Built
<1>3. OldNodes = 0 .. j BY <1>1, <1>2 DEF OldNodes, Numbers
<1>4. groups \in Seq(SUBSET OldNodes) BY <1>1 DEF GroupsAlike
<1>5. Len(groups) \in Nat /\ DOMAIN groups = 1 .. Len(groups) BY <1>4
<1>6. Len(groups) # 0
  <2>1. 0 \in OldNodes BY <1>3
  <2>2. oldToNew[0] \in NewNodes BY <1>1, <2>1 DEF GroupedSoFar, IsGrouped
  <2> QED BY <1>5, <2>2 DEF NewNodes
<1>7. Len(groups) - 1 \in Nat BY <1>5, <1>6
<1>8. ASSUME NEW n \in NewNodes PROVE IsFiniteSet(merged[n])
  <2> DEFINE G == groups[n + 1]
             f == [m \in G |-> canonical.items[m]]
             U == {f[m] : m \in G}
  <2>1. n + 1 \in 1 .. Len(groups) BY <1>5 DEF NewNodes
  <2>2. G \in SUBSET (0 .. j) BY <1>3, <1>4, <1>5, <2>1
  <2>3. merged[n] = UNION {canonical.items[m] : m \in G} BY <1>1 DEF MergedSoFar
  <2>4. merged[n] = UNION U BY <2>3
  <2>5. IsFiniteSet(G)
    <3>1. IsFiniteSet(0 .. j) BY FS_Interval
    <3> QED BY <2>2, <3>1, FS_Subset
  <2>6. DOMAIN f = G OBVIOUS
  <2>7. \A m \in G : IsFiniteSet(f[m]) BY <1>1, <1>2, <2>2, Built
  <2> HIDE DEF G, f
  <2>8. IsFiniteSet(U) BY <2>5, <2>6, ImageIsFinite
  <2>9. \A T \in U : IsFiniteSet(T) BY <2>7
  <2> HIDE DEF U
  <2> QED BY <2>4, <2>8, <2>9, FS_UNION
<1> QED BY <1>1, <1>7, <1>8 DEF NewNodes

\* What a step leaves alone stays true of it.
LEMMA SetsStutter == ASSUME IInv, UNCHANGED vars PROVE IInv'
BY NextIInv

LEMMA TableStutters == ASSUME FilledSoFar, UNCHANGED tableVars PROVE FilledSoFar'
<1> DEFINE none == {}
<1>1. \A x \in none : IsReadable(x[1], x[2]) OBVIOUS
<1>2. [(\E x \in none : BuildTable(x[1], x[2])) \/ TableNext]_tableVars OBVIOUS
<1> HIDE DEF none
<1> QED BY <1>1, <1>2, FillKeeps

\* The call of the table builder.
LEMMA FillFromKeeps ==
  ASSUME PipelineInv, NEW c, IsReadable(input, c), FillFrom(c)
  PROVE  PipelineInv'
<1>1. BuildTable(input, c) /\ UNCHANGED vars /\ UNCHANGED builderVars /\ UNCHANGED converterVars BY DEF FillFrom
<1>2. IInv' /\ BuilderInv' /\ ConversionInv' BY <1>1, SetsStutter, BuilderStutters, StutterKeeps DEF PipelineInv
<1>3. FilledSoFar'
  <2> DEFINE one == {<<input, c>>}
  <2>1. \A x \in one : IsReadable(x[1], x[2]) OBVIOUS
  <2>2. \E x \in one : BuildTable(x[1], x[2]) BY <1>1
  <2> HIDE DEF one
  <2> QED BY <2>1, <2>2, FillKeeps DEF PipelineInv
<1> QED BY <1>1, <1>2, <1>3 DEF PipelineInv, builderVars, converterVars

LEMMA ConverterKeeps ==
  ASSUME ConversionInv, ConverterNext
  PROVE  ConversionInv' /\ converting # "idle" /\ canonical' = canonical
<1>1. converting # "idle" /\ canonical' = canonical
  BY DEF ConverterNext, JoinGroup, NewGroup, StartMerge, MergeGroup, StartEdges, RewriteEdges, FinishEdges
<1> QED BY <1>1, JoinGroupKeeps, NewGroupKeeps, StartMergeKeeps, MergeGroupKeeps, StartEdgesKeeps,
           RewriteEdgesKeeps, FinishEdgesKeeps DEF ConverterNext

-----------------------------------------------------------------------------
(***************************************************************************)
(* What the lookahead propagation takes for granted (IsCore): item sets    *)
(* closed as the gotos leave them, and FIRST sets of terminals.            *)
(***************************************************************************)
\* Nothing is missing in the closure of a set.
Closed(b, items) ==
  \A x \in items :
    ClosureItems(b, x[1]) \X (IF b.canonical THEN FollowingPredicts(b.first, x[1], x[2]) ELSE {NoLookahead})
      \subseteq items

LEMMA ClosuresAreClosed ==
  ASSUME NEW b, IsBuild(b), NEW kernel \in SUBSET ItemsIn(b)
  PROVE  Closed(b, ClosureOf(b, kernel))
<1>1. CASE b.canonical
  <2>1. ClosureOf(b, kernel) = Lr1Closure(b, b.first, kernel) /\ kernel \in SUBSET PairItems(b)
    BY <1>1 DEF ClosureOf, ItemsIn
  <2> DEFINE C == Lr1Closure(b, b.first, kernel)
             new(x) == ClosureItems(b, x[1]) \X FollowingPredicts(b.first, x[1], x[2])
  <2>2. \A x \in C : new(x) \subseteq C BY <2>1, Lr1ClosureEnds DEF IsBuild, HasFirst
  <2>3. ClosureOf(b, kernel) = C BY <2>1
  <2> HIDE DEF C
  <2> QED BY <1>1, <2>2, <2>3 DEF Closed
<1>2. CASE ~b.canonical
  <2> DEFINE C == Lr0Closure(b, CoresOf(kernel))
  <2>1. CoresOf(kernel) \in SUBSET CoreItems(b) BY <1>2 DEF ItemsIn, CoresOf
  <2>2. \A item \in C : ClosureItems(b, item) \subseteq C BY <2>1, Lr0ClosureEnds DEF IsBuild, HasFirst
  <2>3. ClosureOf(b, kernel) = C \X {NoLookahead} BY <1>2 DEF ClosureOf
  <2> HIDE DEF C
  <2> QED BY <1>2, <2>2, <2>3 DEF Closed
<1> QED BY <1>1, <1>2

NodesClosed == building # "idle" => \A n \in Numbers : Closed(build, nodes[n])

LEMMA CallClosed ==
  ASSUME NEW b, IsBuild(b), BuildAutomaton(b)
  PROVE  NodesClosed'
<1> DEFINE la == IF b.canonical THEN EndMarker ELSE NoLookahead
<1>1. build' = b /\ nodes' = [n \in {0} |-> StartItems(b)] BY DEF BuildAutomaton
<1>2. StartItem(b) \in CoreItems(b) BY StartIsAnItem DEF IsBuild, HasFirst
<1>3. {<<StartItem(b), la>>} \in SUBSET ItemsIn(b) BY <1>2 DEF ItemsIn, PairItems
<1>4. StartItems(b) = ClosureOf(b, {<<StartItem(b), la>>}) BY DEF StartItems
<1>5. Closed(b, StartItems(b)) BY <1>3, <1>4, ClosuresAreClosed
<1> QED BY <1>1, <1>5 DEF NodesClosed, Numbers

LEMMA NodesStayClosed ==
  ASSUME BuilderInv, NodesClosed, BuilderNext
  PROVE  NodesClosed'
<1>1. CASE UNCHANGED <<build, nodes>>
  <2>1. building # "idle" BY DEF BuilderNext, Pop, Expand, FinishNode, FinishBuild
  <2> QED BY <1>1, <2>1 DEF NodesClosed, Numbers
<1>2. CASE Expand /\ ExpandNew(GotoOf(build, nodes[current], Head(waiting)))
  <2> DEFINE X == Head(waiting)
             target == GotoOf(build, nodes[current], X)
  <2>1. /\ building = "expand" /\ UNCHANGED build
        /\ nodes' = [n \in Numbers \cup {Fresh} |-> IF n = Fresh THEN target ELSE nodes[n]]
    BY <1>2 DEF Expand, ExpandNew
  <2>2. IsBuild(build) /\ NodesFit /\ Expanding BY <2>1 DEF BuilderInv
  <2>3. nodes[current] \in SUBSET ItemsIn(build) BY <2>2 DEF NodesFit, Expanding
  <2>4. Closed(build, target)
    <3>1. target = ClosureOf(build, Moved(nodes[current], X)) BY DEF GotoOf, Moved
    <3> QED BY <2>2, <2>3, <3>1, MovedItems, ClosuresAreClosed
  <2> HIDE DEF target
  <2> QED BY <2>1, <2>4 DEF NodesClosed, Numbers
<1> QED BY <1>1, <1>2 DEF BuilderNext, Pop, Expand, ExpandKnown, FinishNode, FinishBuild

\* FIRST holds terminals and <epsilon> only.
FirstOfTerminals == \A A \in Names(input) : first[A] \subseteq TerminalsOf(input) \cup {Epsilon}

LEMMA InputFacts ==
  ASSUME IInv
  PROVE  /\ IsGrammar(input) /\ DOMAIN first = Names(input)
         /\ \A prod \in AllProductions(input) :
              /\ prod.right \in Seq(Elements(prod.right))
              /\ \A k \in DOMAIN prod.right : prod.right[k] \in Names(input) \/ prod.right[k] \in TerminalsOf(input)
<1>1. IsGrammar(input) /\ DOMAIN first = Names(input) BY GrammarsAssumption DEF IInv, TypeOK
<1>2. ASSUME NEW prod \in AllProductions(input) PROVE prod.right \in Seq(Elements(prod.right))
  <2>1. CASE prod \in Elements(input.producers) BY <1>1, <2>1 DEF IsGrammar
  <2>2. CASE prod = AugmentedProduction(input)
    <3>1. prod.right = <<input.start>> BY <2>2 DEF AugmentedProduction
    <3>2. Elements(<<input.start>>) = {input.start} BY DEF Elements
    <3> QED BY <3>1, <3>2
  <2> QED BY <2>1, <2>2 DEF AllProductions
<1>3. ASSUME NEW prod \in AllProductions(input), NEW k \in DOMAIN prod.right
      PROVE  prod.right[k] \in Names(input) \/ prod.right[k] \in TerminalsOf(input)
  <2>1. prod.right[k] \in UNION {Elements(q.right) : q \in AllProductions(input)} BY DEF Elements
  <2> QED BY <2>1 DEF TerminalsOf, IsNonterminal, Names
<1> QED BY <1>1, <1>2, <1>3

\* So a sequence of symbols begins with terminals, or lets the lookahead in.
LEMMA SequencesBeginWithTerminals ==
  ASSUME IInv, FirstOfTerminals, NEW prod \in AllProductions(input), NEW from \in Nat \ {0}, NEW la
  PROVE  FirstOfSequence(first, prod.right, from, la) \subseteq TerminalsOf(input) \cup {la}
<1> SUFFICES ASSUME NEW t \in FirstOfSequence(first, prod.right, from, la), t # la PROVE t \in TerminalsOf(input)
  OBVIOUS
<1>1. PICK k \in from .. Len(prod.right) : t \in FirstOf(first, prod.right[k]) /\ t # Epsilon
  BY DEF FirstOfSequence
<1>2. k \in DOMAIN prod.right
  <2>1. prod.right \in Seq(Elements(prod.right)) BY InputFacts
  <2> QED BY <1>1, <2>1
<1>3. CASE prod.right[k] \in Names(input)
  <2>1. t \in first[prod.right[k]] BY <1>1, <1>3, InputFacts DEF FirstOf
  <2> QED BY <1>1, <1>3, <2>1 DEF FirstOfTerminals
<1>4. CASE prod.right[k] \notin Names(input)
  <2>1. t = prod.right[k] BY <1>1, <1>4, InputFacts DEF FirstOf
  <2> QED BY <1>2, <1>4, <2>1, InputFacts
<1> QED BY <1>3, <1>4

LEMMA FirstStaysOfTerminals ==
  ASSUME IInv, FirstOfTerminals, Next
  PROVE  FirstOfTerminals'
<1>1. CASE UNCHANGED <<input, first>> BY <1>1 DEF FirstOfTerminals
<1>2. CASE FirstProduction
  <2>1. /\ p <= Len(input.producers) /\ UNCHANGED input
        /\ first' = [first EXCEPT ![Producer.left] = first[Producer.left] \cup FirstGain(first, Producer)]
    BY <1>2 DEF FirstProduction
  <2>2. Producer \in AllProductions(input) /\ DOMAIN first = Names(input)
    <3>1. IsGrammar(input) /\ DOMAIN first = Names(input) BY InputFacts
    <3>2. Len(input.producers) \in Nat /\ p \in Nat \ {0} /\ DOMAIN input.producers = 1 .. Len(input.producers)
      BY <3>1 DEF IsGrammar, IInv, TypeOK
    <3>3. p \in DOMAIN input.producers BY <2>1, <3>2
    <3> QED BY <3>1, <3>3 DEF Producer, Elements, AllProductions
  <2>3. FirstGain(first, Producer) \subseteq TerminalsOf(input) \cup {Epsilon}
    BY <2>2, SequencesBeginWithTerminals DEF FirstGain
  <2> QED BY <2>1, <2>2, <2>3 DEF FirstOfTerminals
<1> QED BY <1>1, <1>2 DEF Next, RepeatFirst, StartFollow, FollowSymbol, NextProduction, RepeatFollow, Finish

\* What is built is built for the grammar and its FIRST sets, which do not change any more.
Linked ==
  building # "idle" =>
    /\ pc = "done"
    /\ build.nonterminals = input.nonterminals /\ build.producers = input.producers
    /\ build.start = input.start /\ build.first = first
CoreInv == PipelineInv /\ NodesClosed /\ FirstOfTerminals /\ Linked

\* The automaton handed over to the propagation is as the propagation takes it.
LEMMA HandsOverCore ==
  ASSUME CoreInv, building = "done", ~build.canonical
  PROVE  IsCore(HandedOver)
<1> DEFINE c == HandedOver
<1>1. /\ c.nonterminals = input.nonterminals /\ c.producers = input.producers /\ c.start = input.start
      /\ c.first = first /\ c.tokens = TokensOf(input) /\ c.states = Cardinality(Numbers) /\ c.edges = nodeEdges
      /\ c.items = [n \in Numbers |-> Enumerate(CoresOf(nodes[n]))]
  BY DEF HandedOver, Numbers
<1> HIDE DEF c
<1>2. IInv /\ BuilderInv /\ NodesClosed /\ FirstOfTerminals /\ Linked BY DEF CoreInv, PipelineInv
<1>3. IsBuild(build) /\ NodesFit /\ EdgesFit BY <1>2 DEF BuilderInv
<1>4. PICK k \in Nat : Numbers = 0 .. k BY <1>3 DEF NodesFit
<1>5. c.states = k + 1 /\ States(c) = 0 .. k
  <2>1. c.states = k + 1 BY <1>1, <1>4, FS_Interval
  <2> QED BY <2>1 DEF States
<1>6. AllProductions(c) = AllProductions(build) /\ AllProductions(build) = AllProductions(input)
  BY <1>1, <1>2 DEF AllProductions, AugmentedProduction, Linked
<1>7. \A item : ClosureItems(c, item) = ClosureItems(build, item)
  BY <1>1, <1>2, <1>6 DEF ClosureItems, IsNonterminal, ProductionsOf, Linked
<1>8. StartItem(c) = StartItem(build) BY <1>1, <1>2 DEF StartItem, AugmentedProduction, Linked
<1>9. \A n \in Numbers : nodes[n] \in SUBSET (CoreItems(build) \X {NoLookahead}) BY <1>3 DEF NodesFit, ItemsIn
<1>10. ASSUME NEW n \in Numbers
       PROVE  ItemsOf(c, n) = CoresOf(nodes[n]) /\ c.items[n] \in Seq(ItemsOf(c, n)) /\ CoresOf(nodes[n]) \subseteq CoreItems(build)
  <2>1. CoresOf(nodes[n]) \in SUBSET CoreItems(build) BY <1>9 DEF CoresOf
  <2>2. IsFiniteSet(CoresOf(nodes[n]))
    <3>1. IsFiniteSet(CoreItems(build)) BY <1>3, CoreItemsShape DEF IsBuild, HasFirst
    <3> QED BY <2>1, <3>1, FS_Subset
  <2>3. c.items[n] = Enumerate(CoresOf(nodes[n])) BY <1>1
  <2> QED BY <2>1, <2>2, <2>3, EnumerateLists DEF ItemsOf
<1>11. IsFiniteSet(c.tokens) /\ EndMarker \in c.tokens
  <2>1. TerminalsOf(input) \in SUBSET OwnSymbols(build) BY <1>6 DEF TerminalsOf, OwnSymbols
  <2>2. IsFiniteSet(OwnSymbols(build)) BY <1>3, ProductionShape DEF IsBuild, HasFirst
  <2>3. IsFiniteSet(TerminalsOf(input)) BY <2>1, <2>2, FS_Subset
  <2>4. IsFiniteSet({EndMarker}) BY FS_Singleton
  <2>5. IsFiniteSet(TerminalsOf(input) \cup {EndMarker}) BY <2>3, <2>4, FS_Union
  <2>6. c.tokens = TerminalsOf(input) \cup {EndMarker} BY <1>1 DEF TokensOf
  <2> QED BY <2>5, <2>6
<1>12. StartItem(c) \in ItemsOf(c, 0)
  <2>1. nodes[0] = StartItems(build) /\ 0 \in Numbers BY <1>3, <1>4 DEF NodesFit
  <2> QED BY <1>3, <1>8, <1>10, <2>1, StartEnds
<1>13. ASSUME NEW n \in Numbers, NEW item \in CoresOf(nodes[n])
       PROVE  ClosureItems(c, item) \subseteq CoresOf(nodes[n])
  <2> SUFFICES ASSUME NEW new \in ClosureItems(build, item) PROVE new \in CoresOf(nodes[n]) BY <1>7
  <2>1. PICK x \in nodes[n] : x[1] = item BY DEF CoresOf
  <2>2. ClosureItems(build, x[1]) \X {NoLookahead} \subseteq nodes[n] BY <1>2 DEF NodesClosed, Closed
  <2>3. <<new, NoLookahead>> \in nodes[n] BY <2>1, <2>2
  <2> QED BY <2>3 DEF CoresOf
<1>14. ASSUME NEW item \in CoreItems(build), NEW a \in c.tokens
       PROVE  FollowingPredicts(c.first, item, a) \subseteq c.tokens
  <2>1. CASE IsComplete(item) BY <2>1 DEF FollowingPredicts
  <2>2. CASE ~IsComplete(item)
    <3>1. FollowingPredicts(c.first, item, a) = FirstOfSequence(first, item.right, item.dot + 2, a)
      BY <1>1, <2>2 DEF FollowingPredicts
    <3>2. PICK prod \in AllProductions(build) : item \in ItemsFrom(prod) BY <1>3, CoreItemsShape DEF IsBuild, HasFirst
    <3>3. item.right = prod.right /\ item.dot + 2 \in Nat \ {0}
      <4>1. item.right = prod.right /\ item.dot \in 0 .. Len(prod.right) BY <3>2 DEF ItemsFrom
      <4>2. Len(prod.right) \in Nat BY <1>3, ProductionShape DEF IsBuild, HasFirst
      <4> QED BY <4>1, <4>2
    <3>4. FirstOfSequence(first, item.right, item.dot + 2, a) \subseteq TerminalsOf(input) \cup {a}
      BY <1>2, <1>6, <3>3, SequencesBeginWithTerminals
    <3> QED BY <1>1, <3>1, <3>4 DEF TokensOf
  <2> QED BY <2>1, <2>2
<1>15. ASSUME NEW n \in Numbers, NEW e \in 1 .. Len(c.edges[n])
       PROVE  /\ EdgeTarget(c, n, e) \in Numbers
              /\ \A item \in CoresOf(nodes[n]) :
                   DotBefore(item, EdgeSymbol(c, n, e)) => Advance(item) \in CoresOf(nodes[EdgeTarget(c, n, e)])
  <2> DEFINE X == EdgeSymbol(c, n, e)
             t == EdgeTarget(c, n, e)
  <2>1. nodeEdges[n] \in Seq(Symbols \X Numbers) BY <1>3 DEF EdgesFit
  <2>2. /\ nodeEdges[n][e] \in Symbols \X Numbers /\ nodeEdges[n][e] \in Elements(nodeEdges[n])
        /\ nodeEdges[n][e] = <<X, t>>
    BY <1>1, <2>1 DEF Elements, EdgeSymbol, EdgeTarget
  <2>3. t \in Numbers BY <2>2
  <2>4. nodes[t] = GotoOf(build, nodes[n], X)
    <3> HIDE DEF X, t
    <3>1. <<X, t>> \in Elements(nodeEdges[n]) BY <2>2
    <3> QED BY <1>3, <3>1 DEF EdgesFit
  <2> HIDE DEF X, t
  <2>5. Moved(nodes[n], X) \subseteq nodes[t]
    <3>1. nodes[n] \in SUBSET ItemsIn(build) BY <1>3 DEF NodesFit
    <3> QED BY <1>3, <2>4, <3>1, GotoEnds
  <2>6. \A item \in CoresOf(nodes[n]) : DotBefore(item, X) => Advance(item) \in CoresOf(nodes[t])
    <3>1. \A item \in CoresOf(nodes[n]) : DotBefore(item, X) => Advance(item) \in CoresOf(Moved(nodes[n], X))
      BY MovedCores
    <3> QED BY <2>5, <3>1 DEF CoresOf
  <2> QED BY <2>3, <2>6 DEF X, t
<1>16. \A n \in Numbers : c.edges[n] \in Seq(Elements(c.edges[n])) BY <1>1, <1>2, Built
<1>17. DOMAIN c.items = Numbers /\ DOMAIN c.edges = Numbers BY <1>1, <1>3 DEF EdgesFit
<1>18. HasFirst(c, c.first)
  <2>1. SameGrammar(build, c) /\ c.first = build.first BY <1>1, <1>2 DEF SameGrammar, Linked
  <2>2. HasFirst(build, build.first) BY <1>3 DEF IsBuild
  <2> QED BY <2>1, <2>2, SameItems
<1>19. IsCore(c)
  <2>1. c.states \in Nat \ {0} /\ States(c) = Numbers BY <1>4, <1>5
  <2>2. ASSUME NEW n \in Numbers
        PROVE  /\ c.items[n] \in Seq(ItemsOf(c, n)) /\ c.edges[n] \in Seq(Elements(c.edges[n]))
               /\ \A item \in ItemsOf(c, n) :
                    /\ ClosureItems(c, item) \subseteq ItemsOf(c, n)
                    /\ \A a \in c.tokens : FollowingPredicts(c.first, item, a) \subseteq c.tokens
               /\ \A e \in 1 .. Len(c.edges[n]) :
                    /\ EdgeTarget(c, n, e) \in Numbers
                    /\ \A item \in ItemsOf(c, n) :
                         DotBefore(item, EdgeSymbol(c, n, e)) => Advance(item) \in ItemsOf(c, EdgeTarget(c, n, e))
    BY <1>10, <1>13, <1>14, <1>15, <1>16
  <2> QED BY <1>11, <1>12, <1>17, <1>18, <2>1, <2>2 DEF IsCore
<1> QED BY <1>19 DEF c

LEMMA PropagatedFits ==
  ASSUME CoreInv, building = "done", ~build.canonical, NEW n \in Numbers
  PROVE  IsFiniteSet(Propagated(HandedOver, MergedCanonical(HandedOver))[n])
<1> DEFINE c == HandedOver
           facts == MergedCanonical(c)
<1>1. IsCore(c) BY HandsOverCore
<1>2. DOMAIN c.items = Numbers BY DEF HandedOver, Numbers
<1> HIDE DEF c
<1>3. PICK R : facts = FactsOf(R) /\ IsWalk(c, R) BY <1>1, MergedCanonicalIsLeast
<1>4. Propagated(c, facts)[n] = {<<f[2], f[3]>> : f \in {h \in facts : h[1] = n}} BY <1>2 DEF Propagated
<1> HIDE DEF facts
<1>5. Propagated(c, facts)[n] \in SUBSET PairItems(c)
  <2> SUFFICES ASSUME NEW f \in facts PROVE <<f[2], f[3]>> \in PairItems(c) BY <1>4
  <2>1. PICK pair \in R : f \in {<<pair[1], x[1], x[2]>> : x \in pair[2]} BY <1>3 DEF FactsOf
  <2>2. PICK x \in pair[2] : f = <<pair[1], x[1], x[2]>> BY <2>1
  <2>3. pair[2] \in SUBSET PairItems(c) BY <1>3 DEF IsWalk
  <2>4. x \in PairItems(c) /\ f[2] = x[1] /\ f[3] = x[2] BY <2>2, <2>3
  <2>5. x = <<x[1], x[2]>> BY <2>4 DEF PairItems
  <2> QED BY <2>4, <2>5
<1>6. IsFiniteSet(PairItems(c)) BY <1>1, ItemsAreFinitelyMany DEF IsCore, HasFirst
<1>7. IsFiniteSet(Propagated(c, facts)[n]) BY <1>5, <1>6, FS_Subset
<1> QED BY <1>7 DEF c, facts

LEMMA PipelineKeeps ==
  ASSUME CoreInv, [PipelineNext]_pipelineVars
  PROVE  PipelineInv'
<1>1. /\ IInv /\ BuilderInv /\ ConversionInv /\ FilledSoFar
      /\ PipelineInv /\ (converting # "idle" => building = "done" /\ canonical.items = nodes)
  BY DEF CoreInv, PipelineInv
<1>2. CASE ComputeSets
  <2>1. Next /\ UNCHANGED builderVars /\ UNCHANGED converterVars /\ UNCHANGED tableVars BY <1>2 DEF ComputeSets
  <2>2. IInv' BY <1>1, <2>1, NextIInv
  <2>3. BuilderInv' /\ ConversionInv' /\ FilledSoFar' BY <1>1, <2>1, BuilderStutters, StutterKeeps, TableStutters
  <2> QED BY <1>1, <2>1, <2>2, <2>3 DEF PipelineInv, builderVars, converterVars
<1>3. CASE StartBuild
  <2>1. PICK isCanonical \in BOOLEAN :
          BuildAutomaton([nonterminals |-> input.nonterminals, producers |-> input.producers,
                          start |-> input.start, first |-> first, canonical |-> isCanonical])
    BY <1>3 DEF StartBuild
  <2>2. UNCHANGED vars /\ UNCHANGED converterVars /\ UNCHANGED tableVars BY <1>3 DEF StartBuild
  <2>3. BuilderInv' BY <1>1, <2>1, CalledWithBuild, BuildAutomatonKeeps
  <2>4. IInv' /\ ConversionInv' /\ FilledSoFar' BY <1>1, <2>2, SetsStutter, StutterKeeps, TableStutters
  <2>5. converting' = "idle" BY <1>1, <2>1, <2>2 DEF BuildAutomaton, converterVars
  <2> QED BY <2>3, <2>4, <2>5 DEF PipelineInv
<1>4. CASE Build
  <2>1. BuilderNext /\ UNCHANGED vars /\ UNCHANGED converterVars /\ UNCHANGED tableVars BY <1>4 DEF Build
  <2>2. BuilderInv' /\ IInv' /\ ConversionInv' /\ FilledSoFar'
    BY <1>1, <2>1, BuilderKeeps, SetsStutter, StutterKeeps, TableStutters
  <2>3. building # "done" BY <2>1 DEF BuilderNext, Pop, Expand, FinishNode, FinishBuild
  <2>4. converting' = "idle" BY <1>1, <2>1, <2>3 DEF converterVars
  <2> QED BY <2>2, <2>4 DEF PipelineInv
<1>5. CASE StartConversion
  <2> DEFINE c == [items |-> nodes, edges |-> [n \in DOMAIN nodes |-> Elements(nodeEdges[n])]]
  <2>1. /\ building = "done" /\ ConvertAutomaton(c)
        /\ UNCHANGED vars /\ UNCHANGED builderVars /\ UNCHANGED tableVars
    BY <1>5 DEF StartConversion
  <2>2. IsCanonical(c) BY <1>1, <2>1, HandsOverCanonical
  <2>3. c.items = nodes OBVIOUS
  <2> HIDE DEF c
  <2>4. ConversionInv' BY <1>1, <2>1, <2>2, CallKeeps
  <2>5. IInv' /\ BuilderInv' /\ FilledSoFar' BY <1>1, <2>1, SetsStutter, BuilderStutters, TableStutters
  <2>6. canonical' = c /\ UNCHANGED <<building, nodes>> BY <2>1 DEF ConvertAutomaton, builderVars
  <2> QED BY <2>1, <2>3, <2>4, <2>5, <2>6 DEF PipelineInv
<1>6. CASE Convert
  <2>1. ConverterNext /\ UNCHANGED vars /\ UNCHANGED builderVars /\ UNCHANGED tableVars BY <1>6 DEF Convert
  <2>2. ConversionInv' /\ converting # "idle" /\ canonical' = canonical BY <1>1, <2>1, ConverterKeeps
  <2>3. IInv' /\ BuilderInv' /\ FilledSoFar' BY <1>1, <2>1, SetsStutter, BuilderStutters, TableStutters
  <2> QED BY <1>1, <2>1, <2>2, <2>3 DEF PipelineInv, builderVars
<1>7. CASE FillFromCanonical
  <2>1. building = "done" /\ FillFrom(Readable(nodes, nodeEdges)) BY <1>7 DEF FillFromCanonical
  <2>2. PICK k \in Nat : DOMAIN nodes = 0 .. k BY <1>1, <2>1, Built DEF Numbers
  <2>3. \A n \in 0 .. k : IsFiniteSet(nodes[n]) /\ nodeEdges[n] \in Seq(Elements(nodeEdges[n]))
    BY <1>1, <2>1, <2>2, Built DEF Numbers
  <2>4. IsReadable(input, Readable(nodes, nodeEdges)) BY <1>1, <2>2, <2>3, ReadableIsReadable
  <2> QED BY <1>1, <2>1, <2>4, FillFromKeeps
<1>8. CASE FillFromMerged
  <2> DEFINE edgesOf == [n \in DOMAIN merged |-> MergedEdges(n)]
  <2>1. converting = "done" /\ FillFrom(Readable(merged, edgesOf)) BY <1>8 DEF FillFromMerged
  <2>2. PICK k \in Nat : DOMAIN merged = 0 .. k BY <1>1, <2>1, MergedFit
  <2>3. \A n \in 0 .. k : IsFiniteSet(merged[n]) BY <1>1, <2>1, <2>2, MergedFit
  <2>4. ASSUME NEW n \in 0 .. k PROVE edgesOf[n] \in Seq(Elements(edgesOf[n]))
    <3> DEFINE order == InTextOrder(DOMAIN mergedEdges[n])
               listed == [j \in DOMAIN order |-> <<order[j], mergedEdges[n][order[j]]>>]
    <3>1. order \in Seq(Symbols) BY OrderLists
    <3>2. DOMAIN order = 1 .. Len(order) /\ Len(order) \in Nat BY <3>1
    <3>3. edgesOf[n] = listed BY <2>2 DEF MergedEdges
    <3> HIDE DEF order, edgesOf
    <3>4. DOMAIN listed = 1 .. Len(order) BY <3>2
    <3>5. \A j \in 1 .. Len(order) : listed[j] \in Elements(listed) BY <3>4 DEF Elements
    <3>6. listed = [j \in 1 .. Len(order) |-> listed[j]] BY <3>2
    <3> HIDE DEF listed
    <3>7. listed \in [1 .. Len(order) -> Elements(listed)] BY <3>5, <3>6
    <3>8. listed \in Seq(Elements(listed)) BY <3>2, <3>7
    <3> QED BY <3>3, <3>8
  <2> HIDE DEF edgesOf
  <2>5. IsReadable(input, Readable(merged, edgesOf)) BY <1>1, <2>2, <2>3, <2>4, ReadableIsReadable
  <2> QED BY <1>1, <2>1, <2>5, FillFromKeeps
<1>9. CASE FillFromPropagated
  <2> DEFINE propagated == Propagated(HandedOver, MergedCanonical(HandedOver))
  <2>1. building = "done" /\ ~build.canonical /\ FillFrom(Readable(propagated, nodeEdges))
    BY <1>9 DEF FillFromPropagated
  <2>2. PICK k \in Nat : Numbers = 0 .. k BY <1>1, <2>1, Built
  <2>3. \A n \in 0 .. k : nodeEdges[n] \in Seq(Elements(nodeEdges[n])) BY <1>1, <2>1, <2>2, Built
  <2>4. DOMAIN propagated = 0 .. k BY <2>2 DEF Propagated, HandedOver, Numbers
  <2>5. \A n \in 0 .. k : IsFiniteSet(propagated[n]) BY <2>1, <2>2, PropagatedFits
  <2> HIDE DEF propagated
  <2>6. IsReadable(input, Readable(propagated, nodeEdges)) BY <1>1, <2>3, <2>4, <2>5, ReadableIsReadable
  <2> QED BY <1>1, <2>1, <2>6, FillFromKeeps
<1>10. CASE Fill
  <2>1. TableNext /\ UNCHANGED vars /\ UNCHANGED builderVars /\ UNCHANGED converterVars BY <1>10 DEF Fill
  <2> DEFINE none == {}
  <2>2. \A x \in none : IsReadable(x[1], x[2]) OBVIOUS
  <2>3. [(\E x \in none : BuildTable(x[1], x[2])) \/ TableNext]_tableVars BY <2>1
  <2> HIDE DEF none
  <2>4. FilledSoFar' BY <1>1, <2>2, <2>3, FillKeeps
  <2>5. IInv' /\ BuilderInv' /\ ConversionInv' BY <1>1, <2>1, SetsStutter, BuilderStutters, StutterKeeps
  <2> QED BY <1>1, <2>1, <2>4, <2>5 DEF PipelineInv, builderVars, converterVars
<1>11. CASE UNCHANGED pipelineVars
  <2>1. UNCHANGED vars /\ UNCHANGED builderVars /\ UNCHANGED converterVars /\ UNCHANGED tableVars
    BY <1>11 DEF pipelineVars
  <2>2. IInv' /\ BuilderInv' /\ ConversionInv' /\ FilledSoFar'
    BY <1>1, <2>1, SetsStutter, BuilderStutters, StutterKeeps, TableStutters
  <2> QED BY <1>1, <2>1, <2>2 DEF PipelineInv, builderVars, converterVars
<1> QED BY <1>2, <1>3, <1>4, <1>5, <1>6, <1>7, <1>8, <1>9, <1>10, <1>11 DEF PipelineNext

LEMMA PipelineStarts == PipelineInit => PipelineInv
<1> SUFFICES ASSUME PipelineInit PROVE PipelineInv OBVIOUS
<1>1. IInv BY InitIInv DEF PipelineInit
<1>2. BuilderInv BY DEF PipelineInit, BuilderInit, BuilderInv
<1>3. ConversionInv BY DEF PipelineInit, ConverterInit, ConversionInv
<1>4. FilledSoFar BY DEF PipelineInit, TableInit, FilledSoFar
<1> QED BY <1>1, <1>2, <1>3, <1>4 DEF PipelineInv, PipelineInit, ConverterInit

LEMMA CoreKeeps ==
  ASSUME CoreInv, [PipelineNext]_pipelineVars
  PROVE  CoreInv'
<1>1. PipelineInv /\ NodesClosed /\ FirstOfTerminals /\ Linked BY DEF CoreInv
<1>2. PipelineInv' BY PipelineKeeps
<1>3. IInv /\ BuilderInv BY <1>1 DEF PipelineInv
<1>4. CASE ComputeSets
  <2>1. Next /\ UNCHANGED builderVars BY <1>4 DEF ComputeSets
  <2>2. pc # "done"
    BY <2>1 DEF Next, FirstProduction, RepeatFirst, StartFollow, FollowSymbol, NextProduction, RepeatFollow, Finish
  <2>3. building = "idle" /\ building' = "idle" BY <1>1, <2>1, <2>2 DEF Linked, builderVars
  <2>4. FirstOfTerminals' BY <1>1, <1>3, <2>1, FirstStaysOfTerminals
  <2> QED BY <1>2, <2>3, <2>4 DEF CoreInv, NodesClosed, Linked
<1>5. CASE StartBuild
  <2>1. PICK isCanonical \in BOOLEAN :
          BuildAutomaton([nonterminals |-> input.nonterminals, producers |-> input.producers,
                          start |-> input.start, first |-> first, canonical |-> isCanonical])
    BY <1>5 DEF StartBuild
  <2>2. UNCHANGED vars /\ pc = "done" BY <1>5 DEF StartBuild
  <2>3. NodesClosed' BY <1>3, <2>1, CalledWithBuild, CallClosed
  <2>4. Linked' BY <2>1, <2>2 DEF Linked, BuildAutomaton, vars
  <2>5. FirstOfTerminals' BY <1>1, <2>2 DEF FirstOfTerminals, vars
  <2> QED BY <1>2, <2>3, <2>4, <2>5 DEF CoreInv
<1>6. CASE Build
  <2>1. BuilderNext /\ UNCHANGED vars BY <1>6 DEF Build
  <2>2. NodesClosed' BY <1>1, <1>3, <2>1, NodesStayClosed
  <2>3. building # "idle" /\ UNCHANGED build BY <2>1 DEF BuilderNext, Pop, Expand, FinishNode, FinishBuild
  <2>4. Linked' BY <1>1, <2>1, <2>3 DEF Linked, vars
  <2>5. FirstOfTerminals' BY <1>1, <2>1 DEF FirstOfTerminals, vars
  <2> QED BY <1>2, <2>2, <2>4, <2>5 DEF CoreInv
<1>7. CASE UNCHANGED <<vars, builderVars>>
  BY <1>1, <1>2, <1>7 DEF CoreInv, NodesClosed, FirstOfTerminals, Linked, Numbers, vars, builderVars
<1>8. ASSUME StartConversion \/ Convert \/ FillFromCanonical \/ FillFromMerged \/ FillFromPropagated \/ Fill
             \/ UNCHANGED pipelineVars
      PROVE  UNCHANGED <<vars, builderVars>>
  BY <1>8 DEF StartConversion, Convert, FillFromCanonical, FillFromMerged, FillFromPropagated, FillFrom, Fill,
              pipelineVars
<1> QED BY <1>4, <1>5, <1>6, <1>7, <1>8 DEF PipelineNext

LEMMA CoreStarts == PipelineInit => CoreInv
<1> SUFFICES ASSUME PipelineInit PROVE CoreInv OBVIOUS
<1>1. FirstOfTerminals BY DEF PipelineInit, Init, FirstOfTerminals
<1>2. building = "idle" BY DEF PipelineInit, BuilderInit
<1> QED BY <1>1, <1>2, PipelineStarts DEF CoreInv, NodesClosed, Linked

-----------------------------------------------------------------------------
\* On the way from any grammar to its tables, each part finds what it takes for granted.
THEOREM PipelineIsSound == PipelineSpec => []PipelineInv
<1>1. CoreInv => PipelineInv BY DEF CoreInv
<1> QED BY <1>1, CoreStarts, CoreKeeps, PTL DEF PipelineSpec

\* No node that the construction has finished lacks an edge, and each edge leads to the goto
\* set of its symbol (the queue loops of lr1_pda.cpp 298-345 and 608-676).
THEOREM NothingIsForgotten == PipelineSpec => []NoNodeForgotten
<1>1. PipelineInv => NoNodeForgotten BY NothingForgotten DEF PipelineInv
<1> QED BY <1>1, PipelineIsSound, PTL

\* The merged automaton of every grammar follows each transition of the canonical one, to a
\* node with the core of the canonical target.
THEOREM MergingKeepsEdges == PipelineSpec => []EdgesKeepCore
<1>1. PipelineInv => EdgesKeepCore BY InvariantGivesEdges DEF PipelineInv
<1> QED BY <1>1, PipelineIsSound, PTL

\* Whichever automaton the tables of a grammar are made of, every cell of them holds what
\* its claims and the declarations decide.
THEOREM PipelineCellsExact == PipelineSpec => []CellsExact
<1>1. PipelineInv => CellsExact BY FilledIsExact DEF PipelineInv
<1> QED BY <1>1, PipelineIsSound, PTL

-----------------------------------------------------------------------------
(***************************************************************************)
(* The FIRST and FOLLOW sets are exactly the references, which are defined *)
(* by reachability: the references solve the equations, so they contain    *)
(* the sets of the loops; and they are least sets, so whatever solves the  *)
(* equations contains them.                                                *)
(***************************************************************************)
LEMMA RulesOf ==
  ASSUME NEW g \in Grammars, NEW k \in 1 .. Len(g.producers)
  PROVE  /\ g.producers[k] \in Elements(g.producers) /\ g.producers[k].left \in g.nonterminals
         /\ g.producers[k].right \in Seq(SymbolsIn(g))
<1>1. g.producers[k] \in Elements(g.producers) BY GrammarsHaveRules DEF IsGrammar
<1>2. /\ g.producers[k].left \in g.nonterminals
      /\ g.producers[k].right \in Seq(Elements(g.producers[k].right))
  BY <1>1, GrammarsHaveRules DEF IsGrammar
<1>3. Elements(g.producers[k].right) \subseteq SymbolsIn(g) BY <1>1 DEF SymbolsIn
<1> QED BY <1>1, <1>2, <1>3

\* A rule by its number.
LEMMA RuleNumber ==
  ASSUME NEW g \in Grammars, NEW q \in Elements(g.producers)
  PROVE  \E k \in 1 .. Len(g.producers) : q = g.producers[k]
BY GrammarsHaveRules DEF IsGrammar, Elements

\* What begins a sequence, and when all of it vanishes.
LEMMA SequenceMembers ==
  ASSUME NEW fst, NEW seq, NEW from
  PROVE  /\ \A t : t # Epsilon =>
              (t \in FirstOfSequence(fst, seq, from, Epsilon) <=>
                 \E k \in from .. Len(seq) : /\ t \in FirstOf(fst, seq[k])
                                             /\ \A j \in from .. k - 1 : Nullable(fst, seq[j]))
         /\ Epsilon \in FirstOfSequence(fst, seq, from, Epsilon) <=> \A k \in from .. Len(seq) : Nullable(fst, seq[k])
<1>1. ASSUME NEW t, t # Epsilon
      PROVE  t \in FirstOfSequence(fst, seq, from, Epsilon) <=>
               \E k \in from .. Len(seq) : /\ t \in FirstOf(fst, seq[k])
                                           /\ \A j \in from .. k - 1 : Nullable(fst, seq[j])
  BY <1>1 DEF FirstOfSequence
<1>2. Epsilon \in FirstOfSequence(fst, seq, from, Epsilon) <=> \A k \in from .. Len(seq) : Nullable(fst, seq[k])
  BY DEF FirstOfSequence
<1> QED BY <1>1, <1>2

\* The nonterminals of a grammar, its terminals and the names reserved for the generator.
LEMMA Reserved ==
  ASSUME NEW g \in Grammars
  PROVE  /\ Epsilon \notin SymbolsIn(g) /\ Epsilon \notin g.nonterminals
         /\ AugmentedStart \notin SymbolsIn(g) /\ AugmentedStart \notin g.nonterminals
         /\ \A X \in SymbolsIn(g) : X \in Names(g) <=> X \in g.nonterminals
BY ReservedAssumption DEF Names

\* Nothing begins with a terminal but the terminal.
LEMMA TerminalsBeginThemselves ==
  ASSUME NEW g \in Grammars, NEW X, X \notin g.nonterminals, NEW edges \in {BeginsWith(g), EndsWith(g)}
  PROVE  Reachable(edges, X) = {X}
<1>1. IsFiniteSet(edges) /\ edges \subseteq g.nonterminals \X SymbolsOfRules(g) BY GrammarsHaveRules, BeginsAndEnds
<1> DEFINE Z == {X}
<1>2. IsReached(edges, X, Z) BY <1>1 DEF IsReached
<1> HIDE DEF Z
<1>3. Reachable(edges, X) \subseteq Z /\ X \in Reachable(edges, X) BY <1>1, <1>2, ReachableIsLeast DEF IsReached
<1> QED BY <1>3 DEF Z

\* The entry of a nonterminal, and what the table says of a symbol of the rules.
LEMMA TableEntry ==
  ASSUME NEW g \in Grammars, NEW A \in g.nonterminals
  PROVE  FirstTable(g)[A] = (Reachable(BeginsWith(g), A) \ g.nonterminals) \cup {e \in {Epsilon} : A \in NullableSet(g)}
<1>1. A \in Names(g) BY DEF Names
<1>2. FirstTable(g)[A] = FirstByReach(g)[A] BY <1>1 DEF FirstTable
<1> QED BY <1>2 DEF FirstByReach

LEMMA TableOfSymbol ==
  ASSUME NEW g \in Grammars, NEW X \in SymbolsIn(g)
  PROVE  /\ Nullable(FirstTable(g), X) <=> X \in NullableSet(g)
         /\ \A t : t # Epsilon => (t \in FirstOf(FirstTable(g), X) <=> t \in Reachable(BeginsWith(g), X) \ g.nonterminals)
<1>1. HasRules(g) /\ NullableSet(g) \subseteq g.nonterminals BY GrammarsHaveRules, NullableIsLeast
<1>2. DOMAIN FirstTable(g) = Names(g) BY DEF FirstTable
<1>3. CASE X \in g.nonterminals
  <2>1. FirstOf(FirstTable(g), X) = FirstTable(g)[X] BY <1>2, <1>3, Reserved DEF FirstOf
  <2>2. FirstTable(g)[X] = (Reachable(BeginsWith(g), X) \ g.nonterminals) \cup {e \in {Epsilon} : X \in NullableSet(g)}
    BY <1>3, TableEntry
  <2>3. Epsilon \notin Reachable(BeginsWith(g), X)
    <3>1. /\ IsFiniteSet(BeginsWith(g)) /\ BeginsWith(g) \subseteq g.nonterminals \X SymbolsOfRules(g)
          /\ SymbolsIn(g) = SymbolsOfRules(g)
      BY <1>1, BeginsAndEnds, GrammarsHaveRules
    <3>2. Reachable(BeginsWith(g), X) \subseteq {X} \cup {e[2] : e \in BeginsWith(g)} BY <3>1, ReachableIsLeast
    <3>3. {e[2] : e \in BeginsWith(g)} \subseteq SymbolsIn(g) BY <3>1
    <3> QED BY <3>2, <3>3, Reserved
  <2> QED BY <2>1, <2>2, <2>3 DEF Nullable
<1>4. CASE X \notin g.nonterminals
  <2>1. FirstOf(FirstTable(g), X) = {X} BY <1>2, <1>4, Reserved DEF FirstOf
  <2>2. Reachable(BeginsWith(g), X) = {X} BY <1>4, TerminalsBeginThemselves
  <2>3. X # Epsilon BY Reserved
  <2> QED BY <1>1, <1>4, <2>1, <2>2, <2>3 DEF Nullable
<1> QED BY <1>3, <1>4

\* The reference solves the equations of FIRST.
LEMMA TableSolves ==
  ASSUME NEW g \in Grammars, NEW k \in 1 .. Len(g.producers)
  PROVE  FirstHolds(g, FirstTable(g), k)
<1> DEFINE q == g.producers[k]
           T == FirstTable(g)
           gain == FirstOfSequence(T, q.right, 1, Epsilon)
<1>1. q \in Elements(g.producers) /\ q.left \in g.nonterminals /\ q.right \in Seq(SymbolsIn(g)) BY RulesOf
<1>2. DOMAIN q.right = 1 .. Len(q.right) /\ Len(q.right) \in Nat /\ \A j \in 1 .. Len(q.right) : q.right[j] \in SymbolsIn(g)
  BY <1>1
<1>3. HasRules(g) BY GrammarsHaveRules
<1> HIDE DEF q
<1>4. T[q.left] = (Reachable(BeginsWith(g), q.left) \ g.nonterminals) \cup {e \in {Epsilon} : q.left \in NullableSet(g)}
  BY <1>1, TableEntry
<1>5. \A j \in 1 .. Len(q.right) : Nullable(T, q.right[j]) <=> q.right[j] \in NullableSet(g) BY <1>2, TableOfSymbol
<1> HIDE DEF T
<1>6. ASSUME NEW t \in gain, t # Epsilon PROVE t \in T[q.left]
  <2>1. PICK j \in 1 .. Len(q.right) : t \in FirstOf(T, q.right[j]) /\ \A m \in 1 .. j - 1 : Nullable(T, q.right[m])
    BY <1>6, SequenceMembers
  <2>2. t \in Reachable(BeginsWith(g), q.right[j]) \ g.nonterminals BY <1>2, <1>6, <2>1, TableOfSymbol DEF T
  <2>3. Vanishes(g, q.right, 1, j - 1) BY <1>2, <1>5, <2>1 DEF Vanishes
  <2>4. <<q.left, q.right[j]>> \in BeginsWith(g) BY <1>1, <1>2, <2>3 DEF BeginsWith
  <2>5. IsFiniteSet(BeginsWith(g)) BY <1>3, BeginsAndEnds
  <2>6. q.right[j] \in Reachable(BeginsWith(g), q.left) BY <2>4, <2>5, ReachableIsLeast DEF IsReached
  <2>7. t \in Reachable(BeginsWith(g), q.left) BY <2>2, <2>5, <2>6, ReachedOnwards
  <2> QED BY <1>4, <2>2, <2>7
<1>7. ASSUME Epsilon \in gain PROVE Epsilon \in T[q.left]
  <2>1. \A j \in 1 .. Len(q.right) : Nullable(T, q.right[j]) BY <1>7, SequenceMembers
  <2>2. Elements(q.right) \subseteq NullableSet(g) BY <1>2, <1>5, <2>1 DEF Elements
  <2>3. q.left \in NullableSet(g) BY <1>1, <1>3, <2>2, NullableIsLeast DEF IsVanishing
  <2> QED BY <1>4, <2>3
<1>8. gain \subseteq T[q.left] BY <1>6, <1>7
<1> QED BY <1>8 DEF FirstHolds, FirstGain, q, T

\* Whatever solves them contains it.
LEMMA TableIsLeast ==
  ASSUME NEW g \in Grammars, NEW fst \in [Names(g) -> SUBSET (SymbolsIn(g) \cup {Epsilon})],
         \A k \in 1 .. Len(g.producers) : FirstHolds(g, fst, k), NEW A \in g.nonterminals
  PROVE  FirstTable(g)[A] \subseteq fst[A]
<1>1. HasRules(g) BY GrammarsHaveRules
<1>2. IsFiniteSet(BeginsWith(g)) BY <1>1, BeginsAndEnds
<1>3. \A q \in Elements(g.producers) :
        /\ FirstOfSequence(fst, q.right, 1, Epsilon) \subseteq fst[q.left] /\ q.left \in g.nonterminals
        /\ q.right \in Seq(SymbolsIn(g))
  BY RuleNumber, RulesOf DEF FirstHolds, FirstGain
<1>4. DOMAIN fst = Names(g) OBVIOUS
<1>5. \A X \in g.nonterminals : X \in Names(g) /\ FirstOf(fst, X) = fst[X] BY <1>4 DEF FirstOf, Names
<1>6. NullableSet(g) \subseteq {X \in g.nonterminals : Epsilon \in fst[X]}
  <2> DEFINE Z == {X \in g.nonterminals : Epsilon \in fst[X]}
  <2>1. ASSUME NEW q \in Elements(g.producers), Elements(q.right) \subseteq Z PROVE q.left \in Z
    <3>1. q.right \in Seq(SymbolsIn(g)) BY <1>3
    <3>2. \A j \in 1 .. Len(q.right) : q.right[j] \in Z BY <2>1, <3>1 DEF Elements
    <3>3. \A j \in 1 .. Len(q.right) : Nullable(fst, q.right[j]) BY <1>5, <3>2 DEF Nullable
    <3>4. Epsilon \in FirstOfSequence(fst, q.right, 1, Epsilon) BY <3>3, SequenceMembers
    <3> QED BY <1>3, <3>4
  <2>2. IsVanishing(g, Z) BY <2>1 DEF IsVanishing
  <2> HIDE DEF Z
  <2>3. NullableSet(g) \subseteq Z BY <1>1, <2>2, NullableIsLeast
  <2> QED BY <2>3 DEF Z
<1>8. ASSUME NEW X \in Reachable(BeginsWith(g), A) PROVE FirstOf(fst, X) \ {Epsilon} \subseteq fst[A]
  <2> DEFINE Z == {Y \in Reachable(BeginsWith(g), A) : FirstOf(fst, Y) \ {Epsilon} \subseteq fst[A]}
  <2>1. A \in Z BY <1>2, <1>5, ReachableIsLeast DEF IsReached
  <2>2. ASSUME NEW e \in BeginsWith(g), e[1] \in Z PROVE e[2] \in Z
    <3>1. e[2] \in Reachable(BeginsWith(g), A) BY <1>2, <2>2, ReachableIsLeast DEF IsReached
    <3>2. PICK q \in Elements(g.producers) : \E j \in DOMAIN q.right :
            Vanishes(g, q.right, 1, j - 1) /\ e = <<q.left, q.right[j]>>
      BY DEF BeginsWith
    <3>3. PICK j \in DOMAIN q.right : Vanishes(g, q.right, 1, j - 1) /\ e = <<q.left, q.right[j]>> BY <3>2
    <3>4. q.right \in Seq(SymbolsIn(g)) BY <1>3
    <3>5. j \in 1 .. Len(q.right) /\ Len(q.right) \in Nat BY <3>3, <3>4
    <3>6. \A m \in 1 .. j - 1 : Nullable(fst, q.right[m]) BY <1>5, <1>6, <3>3 DEF Vanishes, Nullable
    <3>7. FirstOf(fst, q.right[j]) \ {Epsilon} \subseteq FirstOfSequence(fst, q.right, 1, Epsilon)
      <4> SUFFICES ASSUME NEW t \in FirstOf(fst, q.right[j]), t # Epsilon
                   PROVE  t \in FirstOfSequence(fst, q.right, 1, Epsilon)
        OBVIOUS
      <4> QED BY <3>5, <3>6, SequenceMembers
    <3>8. FirstOf(fst, q.right[j]) \ {Epsilon} \subseteq fst[q.left] \ {Epsilon} BY <1>3, <3>7
    <3>9. fst[q.left] \ {Epsilon} \subseteq fst[A] BY <1>3, <1>5, <2>2, <3>3
    <3> QED BY <3>1, <3>3, <3>8, <3>9
  <2>3. IsReached(BeginsWith(g), A, Z) BY <2>1, <2>2 DEF IsReached
  <2> HIDE DEF Z
  <2>4. Reachable(BeginsWith(g), A) \subseteq Z BY <1>2, <2>3, ReachableIsLeast
  <2> QED BY <2>4 DEF Z
<1>9. ASSUME NEW t \in Reachable(BeginsWith(g), A), t \notin g.nonterminals PROVE t \in fst[A]
  <2>1. t \in SymbolsIn(g)
    <3>1. /\ BeginsWith(g) \subseteq g.nonterminals \X SymbolsOfRules(g) /\ SymbolsIn(g) = SymbolsOfRules(g)
          /\ Reachable(BeginsWith(g), A) \subseteq {A} \cup {e[2] : e \in BeginsWith(g)}
      BY <1>1, <1>2, BeginsAndEnds, GrammarsHaveRules, ReachableIsLeast
    <3>2. {e[2] : e \in BeginsWith(g)} \subseteq SymbolsIn(g) BY <3>1
    <3> QED BY <1>9, <3>1, <3>2
  <2>2. FirstOf(fst, t) = {t} /\ t # Epsilon BY <1>4, <1>9, <2>1, Reserved DEF FirstOf
  <2> QED BY <1>8, <2>2
<1>10. FirstTable(g)[A] = (Reachable(BeginsWith(g), A) \ g.nonterminals) \cup {e \in {Epsilon} : A \in NullableSet(g)}
  BY TableEntry
<1> QED BY <1>6, <1>9, <1>10

\* Two symbols of a right-hand side with nothing but what vanishes between them.
Neighbours(g) ==
  UNION {{<<q.right[jk[1]], q.right[jk[2]]>> :
            jk \in {x \in (DOMAIN q.right) \X (DOMAIN q.right) :
                      x[1] < x[2] /\ Vanishes(g, q.right, x[1] + 1, x[2] - 1)}} :
         q \in Elements(g.producers)}
Neighboured(g, q, j, k) == j < k /\ Vanishes(g, q.right, j + 1, k - 1)

LEMMA NeighbourMembers ==
  ASSUME NEW g
  PROVE  /\ \A q \in Elements(g.producers) : \A j, k \in DOMAIN q.right :
              Neighboured(g, q, j, k) => <<q.right[j], q.right[k]>> \in Neighbours(g)
         /\ \A n \in Neighbours(g) : \E q \in Elements(g.producers) : \E j, k \in DOMAIN q.right :
              Neighboured(g, q, j, k) /\ n = <<q.right[j], q.right[k]>>
<1>1. ASSUME NEW q \in Elements(g.producers), NEW j \in DOMAIN q.right, NEW k \in DOMAIN q.right, Neighboured(g, q, j, k)
      PROVE  <<q.right[j], q.right[k]>> \in Neighbours(g)
  <2> DEFINE pairs == {x \in (DOMAIN q.right) \X (DOMAIN q.right) :
                         x[1] < x[2] /\ Vanishes(g, q.right, x[1] + 1, x[2] - 1)}
  <2>1. <<j, k>> \in pairs BY <1>1 DEF Neighboured
  <2>2. <<q.right[j], q.right[k]>> \in {<<q.right[jk[1]], q.right[jk[2]]>> : jk \in pairs}
    <3> HIDE DEF pairs
    <3> QED BY <2>1
  <2> QED BY <2>2 DEF Neighbours
<1>2. ASSUME NEW n \in Neighbours(g)
      PROVE  \E q \in Elements(g.producers) : \E j, k \in DOMAIN q.right :
               Neighboured(g, q, j, k) /\ n = <<q.right[j], q.right[k]>>
  <2>1. PICK q \in Elements(g.producers) :
          n \in {<<q.right[jk[1]], q.right[jk[2]]>> :
                   jk \in {x \in (DOMAIN q.right) \X (DOMAIN q.right) :
                             x[1] < x[2] /\ Vanishes(g, q.right, x[1] + 1, x[2] - 1)}}
    BY DEF Neighbours
  <2>2. PICK jk \in {x \in (DOMAIN q.right) \X (DOMAIN q.right) :
                       x[1] < x[2] /\ Vanishes(g, q.right, x[1] + 1, x[2] - 1)} :
          n = <<q.right[jk[1]], q.right[jk[2]]>>
    BY <2>1
  <2>3. jk[1] \in DOMAIN q.right /\ jk[2] \in DOMAIN q.right /\ Neighboured(g, q, jk[1], jk[2]) BY <2>2 DEF Neighboured
  <2> QED BY <2>2, <2>3
<1> QED BY <1>1, <1>2

\* What follows A: a terminal that a neighbour begins with, of a symbol that ends with A, or
\* the end marker.
Follows(g, A, t) ==
  \/ \E n \in Neighbours(g) : /\ A \in Reachable(EndsWith(g), n[1])
                              /\ t \in Reachable(BeginsWith(g), n[2]) \ g.nonterminals
  \/ t = EndMarker /\ A \in Reachable(EndsWith(g), g.start)

LEMMA AdjacencyMembers ==
  ASSUME NEW g, NEW A \in g.nonterminals
  PROVE  \A t : t \in FollowByAdjacency(g)[A] <=> Follows(g, A, t)
<1> DEFINE met == {m \in Neighbours(g) : A \in Reachable(EndsWith(g), m[1])}
           begun(n) == Reachable(BeginsWith(g), n[2]) \ g.nonterminals
           last == {e \in {EndMarker} : A \in Reachable(EndsWith(g), g.start)}
<1>1. FollowByAdjacency(g)[A] = (UNION {begun(n) : n \in met}) \cup last BY DEF FollowByAdjacency, Neighbours
<1> SUFFICES ASSUME NEW t PROVE t \in FollowByAdjacency(g)[A] <=> Follows(g, A, t) OBVIOUS
<1>2. t \in last <=> t = EndMarker /\ A \in Reachable(EndsWith(g), g.start) OBVIOUS
<1>3. (\E n \in met : t \in begun(n)) <=>
        \E n \in Neighbours(g) : /\ A \in Reachable(EndsWith(g), n[1])
                                 /\ t \in Reachable(BeginsWith(g), n[2]) \ g.nonterminals
  OBVIOUS
<1>4. Follows(g, A, t) <=> (\E n \in met : t \in begun(n)) \/ t \in last BY <1>2, <1>3, Zenon DEF Follows
<1> HIDE DEF met, begun, last
<1>5. t \in UNION {begun(n) : n \in met} <=> \E n \in met : t \in begun(n) OBVIOUS
<1>6. t \in FollowByAdjacency(g)[A] <=> t \in UNION {begun(n) : n \in met} \/ t \in last BY <1>1
<1> QED BY <1>4, <1>5, <1>6

LEMMA NeighboursAreSymbols ==
  ASSUME NEW g \in Grammars, NEW n \in Neighbours(g)
  PROVE  n[1] \in SymbolsIn(g) /\ n[2] \in SymbolsIn(g)
<1>1. PICK q \in Elements(g.producers) : \E j, k \in DOMAIN q.right : n = <<q.right[j], q.right[k]>>
  BY NeighbourMembers
<1>2. HasRules(g) /\ SymbolsIn(g) = SymbolsOfRules(g) BY GrammarsHaveRules
<1> QED BY <1>1, <1>2, SymbolsOfRulesFacts

LEMMA AdjacencyType ==
  ASSUME NEW g \in Grammars
  PROVE  /\ FollowByAdjacency(g) \in [g.nonterminals -> SUBSET (SymbolsIn(g) \cup {EndMarker})]
         /\ EndMarker \in FollowByAdjacency(g)[g.start]
<1>1. HasRules(g) /\ SymbolsIn(g) = SymbolsOfRules(g) /\ g.start \in g.nonterminals
  BY GrammarsHaveRules DEF IsGrammar
<1>2. /\ IsFiniteSet(BeginsWith(g)) /\ BeginsWith(g) \subseteq g.nonterminals \X SymbolsIn(g)
      /\ IsFiniteSet(EndsWith(g))
  BY <1>1, BeginsAndEnds
<1>3. ASSUME NEW A \in g.nonterminals PROVE FollowByAdjacency(g)[A] \in SUBSET (SymbolsIn(g) \cup {EndMarker})
  <2> SUFFICES ASSUME NEW t, Follows(g, A, t), t # EndMarker PROVE t \in SymbolsIn(g) BY AdjacencyMembers
  <2>1. PICK n \in Neighbours(g) : t \in Reachable(BeginsWith(g), n[2]) BY DEF Follows
  <2>2. Reachable(BeginsWith(g), n[2]) \subseteq {n[2]} \cup {e[2] : e \in BeginsWith(g)} BY <1>2, ReachableIsLeast
  <2>3. {e[2] : e \in BeginsWith(g)} \subseteq SymbolsIn(g) BY <1>2
  <2> QED BY <2>1, <2>2, <2>3, NeighboursAreSymbols
<1>4. FollowByAdjacency(g) = [A \in g.nonterminals |-> FollowByAdjacency(g)[A]] BY DEF FollowByAdjacency
<1>5. FollowByAdjacency(g) \in [g.nonterminals -> SUBSET (SymbolsIn(g) \cup {EndMarker})] BY <1>3, <1>4
<1>6. g.start \in Reachable(EndsWith(g), g.start) BY <1>2, ReachableIsLeast DEF IsReached
<1>7. EndMarker \in FollowByAdjacency(g)[g.start] BY <1>1, <1>6, AdjacencyMembers DEF Follows
<1> QED BY <1>5, <1>7

\* What follows the beginning of an edge of EndsWith follows its end.
LEMMA FollowsToTheEnd ==
  ASSUME NEW g \in Grammars, NEW A, NEW B, <<A, B>> \in EndsWith(g), NEW t, Follows(g, A, t)
  PROVE  Follows(g, B, t)
<1>1. IsFiniteSet(EndsWith(g)) BY GrammarsHaveRules, BeginsAndEnds
<1>2. \A X : A \in Reachable(EndsWith(g), X) => B \in Reachable(EndsWith(g), X) BY <1>1, ReachableIsLeast DEF IsReached
<1> QED BY <1>2 DEF Follows

\* The reference solves the equations of FOLLOW.
LEMMA AdjacencySolves ==
  ASSUME NEW g \in Grammars, NEW k \in 1 .. Len(g.producers), NEW j \in 1 .. Len(g.producers[k].right)
  PROVE  FollowHolds(g, FirstTable(g), FollowByAdjacency(g), k, j)
<1> DEFINE q == g.producers[k]
           T == FirstTable(g)
           L == FollowByAdjacency(g)
           rest == FirstOfSequence(T, q.right, j + 1, Epsilon)
<1>1. q \in Elements(g.producers) /\ q.left \in g.nonterminals /\ q.right \in Seq(SymbolsIn(g)) BY RulesOf
<1>2. /\ DOMAIN q.right = 1 .. Len(q.right) /\ Len(q.right) \in Nat /\ \A m \in 1 .. Len(q.right) : q.right[m] \in SymbolsIn(g)
      /\ j \in 1 .. Len(q.right)
  BY <1>1
<1>3. HasRules(g) BY GrammarsHaveRules
<1>4. IsFiniteSet(EndsWith(g)) BY <1>3, BeginsAndEnds
<1> HIDE DEF q
<1>5. \A m \in 1 .. Len(q.right) : Nullable(T, q.right[m]) <=> q.right[m] \in NullableSet(g) BY <1>2, TableOfSymbol
<1> HIDE DEF T
<1> SUFFICES ASSUME q.right[j] \in g.nonterminals
             PROVE  rest \ {Epsilon} \subseteq L[q.right[j]] /\ (Epsilon \in rest => L[q.left] \subseteq L[q.right[j]])
  BY DEF FollowHolds, FollowsHere, FollowGain, q, T
<1>6. ASSUME NEW t \in rest, t # Epsilon PROVE t \in L[q.right[j]]
  <2>1. PICK m \in j + 1 .. Len(q.right) : t \in FirstOf(T, q.right[m]) /\ \A i_1 \in j + 1 .. m - 1 : Nullable(T, q.right[i_1])
    BY <1>6, SequenceMembers
  <2>2. m \in 1 .. Len(q.right) /\ j < m BY <1>2, <2>1
  <2>3. t \in Reachable(BeginsWith(g), q.right[m]) \ g.nonterminals BY <1>2, <1>6, <2>1, <2>2, TableOfSymbol DEF T
  <2>4. Vanishes(g, q.right, j + 1, m - 1)
    <3>1. \A i_1 \in j + 1 .. m - 1 : i_1 \in 1 .. Len(q.right) BY <1>2, <2>2
    <3> QED BY <1>5, <2>1, <3>1 DEF Vanishes
  <2>5. <<q.right[j], q.right[m]>> \in Neighbours(g) BY <1>1, <1>2, <2>2, <2>4, NeighbourMembers DEF Neighboured
  <2>6. q.right[j] \in Reachable(EndsWith(g), q.right[j]) BY <1>4, ReachableIsLeast DEF IsReached
  <2> DEFINE n == <<q.right[j], q.right[m]>>
  <2>7. n \in Neighbours(g) /\ q.right[j] \in Reachable(EndsWith(g), n[1]) /\ t \in Reachable(BeginsWith(g), n[2]) \ g.nonterminals
    BY <2>3, <2>5, <2>6
  <2> HIDE DEF n
  <2>8. Follows(g, q.right[j], t) BY <2>7 DEF Follows
  <2> QED BY <2>8, AdjacencyMembers
<1>7. ASSUME Epsilon \in rest, NEW t \in L[q.left] PROVE t \in L[q.right[j]]
  <2>1. \A m \in j + 1 .. Len(q.right) : Nullable(T, q.right[m]) BY <1>7, SequenceMembers
  <2>2. Vanishes(g, q.right, j + 1, Len(q.right))
    <3>1. \A m \in j + 1 .. Len(q.right) : m \in 1 .. Len(q.right) BY <1>2
    <3> QED BY <1>5, <2>1, <3>1 DEF Vanishes
  <2>3. <<q.left, q.right[j]>> \in EndsWith(g) BY <1>1, <1>2, <2>2 DEF EndsWith
  <2>4. Follows(g, q.left, t) BY <1>1, <1>7, AdjacencyMembers
  <2>5. Follows(g, q.right[j], t) BY <2>3, <2>4, FollowsToTheEnd
  <2> QED BY <2>5, AdjacencyMembers
<1> QED BY <1>6, <1>7

\* Whatever solves them contains it.
LEMMA AdjacencyIsLeast ==
  ASSUME NEW g \in Grammars, NEW flw \in [g.nonterminals -> SUBSET (SymbolsIn(g) \cup {EndMarker})],
         EndMarker \in flw[g.start],
         \A k \in 1 .. Len(g.producers) : \A j \in 1 .. Len(g.producers[k].right) :
           FollowHolds(g, FirstTable(g), flw, k, j),
         NEW A \in g.nonterminals
  PROVE  FollowByAdjacency(g)[A] \subseteq flw[A]
<1> DEFINE T == FirstTable(g)
           rest(q, j) == FirstOfSequence(T, q.right, j + 1, Epsilon)
<1>1. HasRules(g) /\ IsFiniteSet(EndsWith(g)) BY GrammarsHaveRules, BeginsAndEnds
<1>2. ASSUME NEW q \in Elements(g.producers), NEW j \in DOMAIN q.right, q.right[j] \in g.nonterminals
      PROVE  /\ rest(q, j) \ {Epsilon} \subseteq flw[q.right[j]]
             /\ Epsilon \in rest(q, j) => flw[q.left] \subseteq flw[q.right[j]]
  <2>1. PICK k \in 1 .. Len(g.producers) : q = g.producers[k] BY RuleNumber
  <2>2. j \in 1 .. Len(g.producers[k].right) BY <2>1, RulesOf
  <2>3. FollowHolds(g, T, flw, k, j) BY <2>2
  <2> HIDE DEF T
  <2> QED BY <1>2, <2>1, <2>3 DEF FollowHolds, FollowsHere, FollowGain
<1>3. \A q \in Elements(g.producers) :
        /\ q.left \in g.nonterminals /\ q.right \in Seq(SymbolsIn(g))
        /\ DOMAIN q.right = 1 .. Len(q.right) /\ Len(q.right) \in Nat
        /\ \A m \in 1 .. Len(q.right) : q.right[m] \in SymbolsIn(g)
  <2> SUFFICES ASSUME NEW q \in Elements(g.producers)
               PROVE  /\ q.left \in g.nonterminals /\ q.right \in Seq(SymbolsIn(g))
                      /\ DOMAIN q.right = 1 .. Len(q.right) /\ Len(q.right) \in Nat
                      /\ \A m \in 1 .. Len(q.right) : q.right[m] \in SymbolsIn(g)
    OBVIOUS
  <2>1. q.left \in g.nonterminals /\ q.right \in Seq(SymbolsIn(g)) BY RuleNumber, RulesOf
  <2> QED BY <2>1
<1>4. \A X \in SymbolsIn(g) : Nullable(T, X) <=> X \in NullableSet(g) BY TableOfSymbol
<1>5. \A X \in SymbolsIn(g) : \A t : t # Epsilon =>
        (t \in FirstOf(T, X) <=> t \in Reachable(BeginsWith(g), X) \ g.nonterminals)
  BY TableOfSymbol
<1> HIDE DEF T
\* What follows the beginning of an edge of EndsWith follows its end.
<1>6. ASSUME NEW e \in EndsWith(g), NEW t, e[1] \in g.nonterminals => t \in flw[e[1]], e[2] \in g.nonterminals
      PROVE  t \in flw[e[2]]
  <2>1. PICK q \in Elements(g.producers) : \E j \in DOMAIN q.right :
          Vanishes(g, q.right, j + 1, Len(q.right)) /\ e = <<q.left, q.right[j]>>
    BY DEF EndsWith
  <2>2. PICK j \in DOMAIN q.right : Vanishes(g, q.right, j + 1, Len(q.right)) /\ e = <<q.left, q.right[j]>> BY <2>1
  <2>3. \A m \in j + 1 .. Len(q.right) : Nullable(T, q.right[m])
    <3>1. \A m \in j + 1 .. Len(q.right) : m \in 1 .. Len(q.right) BY <1>3, <2>2
    <3> QED BY <1>3, <1>4, <2>2, <3>1 DEF Vanishes
  <2>4. Epsilon \in rest(q, j) BY <2>3, SequenceMembers
  <2>5. t \in flw[q.left] BY <1>3, <1>6, <2>2
  <2> QED BY <1>2, <1>6, <2>2, <2>4, <2>5
<1>7. ASSUME NEW X, NEW t, X \in g.nonterminals => t \in flw[X], A \in Reachable(EndsWith(g), X)
      PROVE  t \in flw[A]
  <2> DEFINE Z == {Y \in Reachable(EndsWith(g), X) : Y \in g.nonterminals => t \in flw[Y]}
  <2>1. X \in Z BY <1>1, <1>7, ReachableIsLeast DEF IsReached
  <2>2. ASSUME NEW e \in EndsWith(g), e[1] \in Z PROVE e[2] \in Z
    <3>1. e[2] \in Reachable(EndsWith(g), X) BY <1>1, <2>2, ReachableIsLeast DEF IsReached
    <3> QED BY <1>6, <2>2, <3>1
  <2>3. IsReached(EndsWith(g), X, Z) BY <2>1, <2>2 DEF IsReached
  <2> HIDE DEF Z
  <2>4. Reachable(EndsWith(g), X) \subseteq Z BY <1>1, <2>3, ReachableIsLeast
  <2> QED BY <1>7, <2>4 DEF Z
<1>8. ASSUME NEW n \in Neighbours(g), NEW t \in Reachable(BeginsWith(g), n[2]) \ g.nonterminals, n[1] \in g.nonterminals
      PROVE  t \in flw[n[1]]
  <2>1. PICK q \in Elements(g.producers) : \E j, k \in DOMAIN q.right :
          Neighboured(g, q, j, k) /\ n = <<q.right[j], q.right[k]>>
    BY NeighbourMembers
  <2>2. PICK j \in DOMAIN q.right, k \in DOMAIN q.right : Neighboured(g, q, j, k) /\ n = <<q.right[j], q.right[k]>> BY <2>1
  <2>3. j \in 1 .. Len(q.right) /\ k \in j + 1 .. Len(q.right) BY <1>3, <2>2 DEF Neighboured
  <2>4. \A m \in j + 1 .. k - 1 : Nullable(T, q.right[m])
    <3>1. \A m \in j + 1 .. k - 1 : m \in 1 .. Len(q.right) BY <1>3, <2>3
    <3> QED BY <1>3, <1>4, <2>2, <3>1 DEF Vanishes, Neighboured
  <2>5. t # Epsilon
    <3>1. /\ IsFiniteSet(BeginsWith(g)) /\ BeginsWith(g) \subseteq g.nonterminals \X SymbolsOfRules(g)
          /\ SymbolsIn(g) = SymbolsOfRules(g)
      BY <1>1, BeginsAndEnds, GrammarsHaveRules
    <3>2. Reachable(BeginsWith(g), n[2]) \subseteq {n[2]} \cup {e[2] : e \in BeginsWith(g)} BY <3>1, ReachableIsLeast
    <3>3. {e[2] : e \in BeginsWith(g)} \subseteq SymbolsIn(g) BY <3>1
    <3>4. n[2] \in SymbolsIn(g) BY NeighboursAreSymbols
    <3> QED BY <3>2, <3>3, <3>4, Reserved
  <2>6. q.right[k] \in SymbolsIn(g) BY <1>3, <2>2
  <2>7. t \in FirstOf(T, q.right[k]) BY <1>5, <2>2, <2>5, <2>6
  <2>8. t \in rest(q, j) BY <2>3, <2>4, <2>5, <2>7, SequenceMembers
  <2> QED BY <1>2, <1>8, <2>2, <2>5, <2>8
<1>9. ASSUME NEW t, Follows(g, A, t) PROVE t \in flw[A]
  <2>1. CASE t = EndMarker /\ A \in Reachable(EndsWith(g), g.start) BY <1>7, <2>1
  <2>2. CASE \E n \in Neighbours(g) : /\ A \in Reachable(EndsWith(g), n[1])
                                      /\ t \in Reachable(BeginsWith(g), n[2]) \ g.nonterminals
    BY <1>7, <1>8, <2>2
  <2> QED BY <1>9, <2>1, <2>2 DEF Follows
<1> QED BY <1>9, AdjacencyMembers

LEMMA ReferencesSolve ==
  ASSUME NEW g \in Grammars
  PROVE  Solves(g, FirstSets[g], FollowSets[g])
<1>1. FirstSets[g] = FirstTable(g) /\ FollowSets[g] = FollowByAdjacency(g) BY ReferenceAssumption
<1>2. FirstTable(g) \in [Names(g) -> SUBSET (SymbolsIn(g) \cup {Epsilon})] BY GrammarsHaveRules, FirstTableType
<1> QED BY <1>1, <1>2, AdjacencyType, TableSolves, AdjacencySolves DEF Solves

\* The end marker stays where it was put.
StartIsFollowed == EndMarker \in follow[input.start]

LEMMA StartStaysFollowed ==
  ASSUME TypeOK, StartIsFollowed, [Next]_vars
  PROVE  StartIsFollowed'
<1>1. input' = input
  BY DEF Next, vars, FirstProduction, RepeatFirst, StartFollow, FollowSymbol, NextProduction, RepeatFollow, Finish
<1>2. input.start \in input.nonterminals BY GrammarsAssumption DEF TypeOK, IsGrammar
<1>3. CASE FollowSymbol
  <2>1. \/ UNCHANGED follow
        \/ \E gain : follow' = [follow EXCEPT ![Producer.right[i]] = follow[Producer.right[i]] \cup gain]
    BY <1>3 DEF FollowSymbol
  <2> QED BY <1>1, <1>2, <2>1 DEF StartIsFollowed, TypeOK
<1>4. CASE UNCHANGED <<input, follow>> BY <1>4 DEF StartIsFollowed
<1> QED BY <1>3, <1>4 DEF Next, vars, FirstProduction, RepeatFirst, StartFollow, NextProduction, RepeatFollow, Finish

LEMMA BelowIsExact ==
  ASSUME IInv, StartIsFollowed, SetsBelow(FirstSets, FollowSets)
  PROVE  SetsExact
<1>1. /\ input \in Grammars /\ first \in [Names(input) -> SUBSET (SymbolsIn(input) \cup {Epsilon})]
      /\ follow \in [input.nonterminals -> SUBSET (SymbolsIn(input) \cup {EndMarker})]
  BY DEF IInv, TypeOK
<1>2. FirstSets[input] = FirstTable(input) /\ FollowSets[input] = FollowByAdjacency(input) BY <1>1, ReferenceAssumption
<1>3. ASSUME pc # "first" PROVE first = FirstSets[input]
  <2>1. \A A \in input.nonterminals : FirstTable(input)[A] \subseteq first[A]
    BY <1>1, <1>3, TableIsLeast DEF IInv, FirstClosed
  <2>2. \A A \in Names(input) : A \notin input.nonterminals => FirstTable(input)[A] = {} BY DEF FirstTable
  <2>3. \A A \in Names(input) : first[A] = FirstTable(input)[A] BY <1>2, <2>1, <2>2 DEF SetsBelow
  <2>4. FirstTable(input) = [A \in Names(input) |-> FirstTable(input)[A]] BY DEF FirstTable
  <2> QED BY <1>1, <1>2, <2>3, <2>4
<1>4. ASSUME pc = "done" PROVE follow = FollowSets[input]
  <2>1. EndMarker \in follow[input.start] /\ first = FirstTable(input) BY <1>2, <1>3, <1>4 DEF StartIsFollowed
  <2>2. \A k \in 1 .. Len(input.producers) : \A j \in 1 .. Len(input.producers[k].right) :
          FollowHolds(input, FirstTable(input), follow, k, j)
    BY <1>4, <2>1 DEF IInv, FollowClosed
  <2>3. \A A \in input.nonterminals : FollowByAdjacency(input)[A] \subseteq follow[A]
    BY <1>1, <2>1, <2>2, AdjacencyIsLeast
  <2>4. \A A \in input.nonterminals : follow[A] = FollowByAdjacency(input)[A] BY <1>2, <2>3 DEF SetsBelow
  <2>5. FollowByAdjacency(input) = [A \in input.nonterminals |-> FollowByAdjacency(input)[A]] BY DEF FollowByAdjacency
  <2> QED BY <1>1, <1>2, <2>4, <2>5
<1> QED BY <1>3, <1>4 DEF SetsExact

SetsInv == CoreInv /\ StartIsFollowed /\ SetsBelow(FirstSets, FollowSets)

-----------------------------------------------------------------------------
(***************************************************************************)
(* The nodes of a finished automaton are exactly the textbook collection:  *)
(* each is reached from the start set by gotos, so it is in the collection;*)
(* together they are closed under the gotos, so the collection is in them; *)
(* and no two are alike.                                                   *)
(***************************************************************************)
CollectionOf(b, g) ==
  IF b.canonical THEN CanonicalStates[g] ELSE {items \X {NoLookahead} : items \in CoreStates[g]}

\* Item sets closed under the gotos of the construction.
IsCollection(b, Z) ==
  /\ Z \in SUBSET SUBSET ItemsIn(b) /\ StartItems(b) \in Z
  /\ \A items \in Z : \A X \in After(items) : GotoOf(b, items, X) \in Z

\* The construction computes the start set and the gotos of the references.
LEMMA CanonicalSets ==
  ASSUME NEW b, NEW g, IsBuild(b), b.canonical, SameGrammar(b, g)
  PROVE  /\ ItemsIn(b) = PairItems(g) /\ StartItems(b) = Lr1Start(g, b.first)
         /\ \A items \in SUBSET PairItems(g) : \A X : GotoOf(b, items, X) = Lr1Goto(g, b.first, items, X)
<1>1. HasFirst(b, b.first) /\ HasProducers(b) BY DEF IsBuild, HasFirst
<1>2. ItemsIn(b) = PairItems(b) /\ PairItems(b) = PairItems(g) /\ StartItem(b) = StartItem(g) BY SameItems DEF ItemsIn
<1>3. \A K \in SUBSET PairItems(g) : ClosureOf(b, K) = Lr1Closure(g, b.first, K)
  BY <1>1, <1>2, SameClosures DEF ClosureOf
<1>4. StartItems(b) = Lr1Start(g, b.first)
  <2>1. {<<StartItem(g), EndMarker>>} \in SUBSET PairItems(g) BY <1>1, <1>2, StartPair
  <2> QED BY <1>2, <1>3, <2>1 DEF StartItems, Lr1Start
<1>5. ASSUME NEW items \in SUBSET PairItems(g), NEW X PROVE GotoOf(b, items, X) = Lr1Goto(g, b.first, items, X)
  <2>1. Moved(items, X) \in SUBSET PairItems(g) BY <1>1, <1>2, MovedPairs
  <2>2. GotoOf(b, items, X) = ClosureOf(b, Moved(items, X)) BY DEF GotoOf, Moved
  <2>3. Lr1Goto(g, b.first, items, X) = Lr1Closure(g, b.first, Moved(items, X)) BY DEF Lr1Goto, Moved
  <2> QED BY <1>3, <2>1, <2>2, <2>3
<1> QED BY <1>2, <1>4, <1>5

LEMMA CoreSets ==
  ASSUME NEW b, NEW g, IsBuild(b), ~b.canonical, SameGrammar(b, g)
  PROVE  /\ ItemsIn(b) = CoreItems(g) \X {NoLookahead} /\ StartItems(b) = Lr0Start(g) \X {NoLookahead}
         /\ \A items \in SUBSET CoreItems(g) : \A X :
              GotoOf(b, items \X {NoLookahead}, X) = Lr0Goto(g, items, X) \X {NoLookahead}
<1>1. HasFirst(b, b.first) /\ HasProducers(b) BY DEF IsBuild, HasFirst
<1>2. CoreItems(b) = CoreItems(g) /\ ItemsIn(b) = CoreItems(b) \X {NoLookahead} /\ StartItem(b) = StartItem(g)
  BY SameItems DEF ItemsIn
<1>3. \A K : CoresOf(K) \in SUBSET CoreItems(g) => ClosureOf(b, K) = Lr0Closure(g, CoresOf(K)) \X {NoLookahead}
  BY <1>1, <1>2, SameClosures DEF ClosureOf
<1>4. StartItems(b) = Lr0Start(g) \X {NoLookahead}
  <2> DEFINE K == {<<StartItem(g), NoLookahead>>}
  <2>1. CoresOf(K) = {StartItem(g)} BY DEF CoresOf
  <2>2. StartItem(g) \in CoreItems(g) BY <1>1, <1>2, StartIsAnItem
  <2>3. StartItems(b) = ClosureOf(b, K) BY <1>2 DEF StartItems
  <2> HIDE DEF K
  <2> QED BY <1>3, <2>1, <2>2, <2>3 DEF Lr0Start
<1>5. ASSUME NEW items \in SUBSET CoreItems(g), NEW X
      PROVE  GotoOf(b, items \X {NoLookahead}, X) = Lr0Goto(g, items, X) \X {NoLookahead}
  <2> DEFINE pairs == items \X {NoLookahead}
             K == Moved(pairs, X)
  <2>1. CoresOf(pairs) = items
    <3>1. \A item \in items : <<item, NoLookahead>> \in pairs /\ <<item, NoLookahead>>[1] = item OBVIOUS
    <3> QED BY <3>1 DEF CoresOf
  <2>2. CoresOf(K) = {Advance(item) : item \in {it \in items : DotBefore(it, X)}} BY <2>1, MovedCores
  <2>3. CoresOf(K) \in SUBSET CoreItems(g) BY <1>1, <1>2, <2>2, AdvancedItem
  <2>4. GotoOf(b, pairs, X) = ClosureOf(b, K) BY DEF GotoOf, Moved
  <2> HIDE DEF K
  <2> QED BY <1>3, <2>2, <2>3, <2>4 DEF Lr0Goto
<1> QED BY <1>2, <1>4, <1>5

LEMMA CoresOfBare ==
  ASSUME NEW items
  PROVE  CoresOf(items \X {NoLookahead}) = items
<1>1. \A item \in items : <<item, NoLookahead>> \in items \X {NoLookahead} /\ <<item, NoLookahead>>[1] = item OBVIOUS
<1> QED BY <1>1 DEF CoresOf

LEMMA CollectionIsLeast ==
  ASSUME NEW b, NEW g \in Grammars, IsBuild(b), SameGrammar(b, g), b.first = FirstTable(g)
  PROVE  IsCollection(b, CollectionOf(b, g)) /\ \A Z : IsCollection(b, Z) => CollectionOf(b, g) \subseteq Z
<1>1. HasFirst(g, FirstTable(g)) BY GrammarsHaveRules, FirstTableType
<1>2. CASE b.canonical
  <2>1. CollectionOf(b, g) = Lr1States(g, b.first) BY <1>2, CanonicalStatesFit DEF CollectionOf
  <2>2. /\ ItemsIn(b) = PairItems(g) /\ StartItems(b) = Lr1Start(g, b.first)
        /\ \A items \in SUBSET PairItems(g) : \A X : GotoOf(b, items, X) = Lr1Goto(g, b.first, items, X)
    BY <1>2, CanonicalSets
  <2>3. ASSUME NEW Z PROVE IsCollection(b, Z) <=> IsLr1Collection(g, b.first, Z)
    BY <2>2 DEF IsCollection, IsLr1Collection, After
  <2> QED BY <1>1, <2>1, <2>3, Lr1StatesAreLeast
<1>3. CASE ~b.canonical
  <2> DEFINE bare(Z) == {items \X {NoLookahead} : items \in Z}
  <2>1. CoreStates[g] = Lr0States(g) BY ReferenceAssumption
  <2>2. CollectionOf(b, g) = bare(Lr0States(g)) BY <1>3, <2>1 DEF CollectionOf
  <2>3. /\ ItemsIn(b) = CoreItems(g) \X {NoLookahead} /\ StartItems(b) = Lr0Start(g) \X {NoLookahead}
        /\ \A items \in SUBSET CoreItems(g) : \A X :
             GotoOf(b, items \X {NoLookahead}, X) = Lr0Goto(g, items, X) \X {NoLookahead}
    BY <1>3, CoreSets
  <2>4. /\ IsLr0Collection(g, Lr0States(g)) /\ \A Z : IsLr0Collection(g, Z) => Lr0States(g) \subseteq Z
    BY <1>1, Lr0StatesAreLeast DEF HasFirst
  <2>5. IsCollection(b, bare(Lr0States(g)))
    <3> DEFINE S == Lr0States(g)
    <3>1. S \in SUBSET SUBSET CoreItems(g) /\ Lr0Start(g) \in S BY <2>4 DEF IsLr0Collection
    <3>2. bare(S) \in SUBSET SUBSET ItemsIn(b) BY <2>3, <3>1
    <3>3. StartItems(b) \in bare(S) BY <2>3, <3>1
    <3>4. ASSUME NEW set \in S, NEW X \in After(set \X {NoLookahead})
          PROVE  GotoOf(b, set \X {NoLookahead}, X) \in bare(S)
      <4>1. X \in SymbolsAfterDots(set) BY <3>4, CoresOfBare DEF After
      <4>2. Lr0Goto(g, set, X) \in S BY <2>4, <4>1 DEF IsLr0Collection
      <4>3. GotoOf(b, set \X {NoLookahead}, X) = Lr0Goto(g, set, X) \X {NoLookahead} BY <2>3, <3>1
      <4> QED BY <4>2, <4>3
    <3>5. \A items \in bare(S) : \A X \in After(items) : GotoOf(b, items, X) \in bare(S)
      <4> SUFFICES ASSUME NEW items \in bare(S), NEW X \in After(items) PROVE GotoOf(b, items, X) \in bare(S)
        OBVIOUS
      <4>1. PICK set \in S : items = set \X {NoLookahead} OBVIOUS
      <4> HIDE DEF S, bare
      <4> QED BY <3>4, <4>1
    <3> HIDE DEF S, bare
    <3> QED BY <3>2, <3>3, <3>5 DEF IsCollection, S
  <2>6. ASSUME NEW Z, IsCollection(b, Z) PROVE bare(Lr0States(g)) \subseteq Z
    <3> DEFINE Y == {set \in SUBSET CoreItems(g) : set \X {NoLookahead} \in Z}
    <3>1. Lr0Start(g) \in Y
      <4>1. Lr0Start(g) \in SUBSET CoreItems(g) BY <1>1, Lr0Sets DEF HasFirst
      <4> QED BY <2>3, <2>6, <4>1 DEF IsCollection
    <3>2. ASSUME NEW set \in Y, NEW X \in SymbolsAfterDots(set) PROVE Lr0Goto(g, set, X) \in Y
      <4>1. X \in After(set \X {NoLookahead}) BY CoresOfBare DEF After
      <4>2. GotoOf(b, set \X {NoLookahead}, X) \in Z BY <2>6, <4>1 DEF IsCollection
      <4>3. Lr0Goto(g, set, X) \X {NoLookahead} \in Z BY <2>3, <4>2
      <4>4. Lr0Goto(g, set, X) \in SUBSET CoreItems(g) BY <1>1, Lr0Sets DEF HasFirst
      <4> QED BY <4>3, <4>4
    <3>3. Y \in SUBSET SUBSET CoreItems(g) OBVIOUS
    <3>4. \A set \in Y : set \X {NoLookahead} \in Z OBVIOUS
    <3> HIDE DEF Y
    <3>5. IsLr0Collection(g, Y) BY <3>1, <3>2, <3>3 DEF IsLr0Collection
    <3>6. Lr0States(g) \subseteq Y BY <2>4, <3>5
    <3> QED BY <3>4, <3>6
  <2> QED BY <2>2, <2>5, <2>6
<1> QED BY <1>2, <1>3

\* Every node is one of the collection.
NodesReached == building # "idle" => \A n \in Numbers : nodes[n] \in CollectionOf(build, input)

\* What the construction is called with, and the FIRST sets it takes.
LEMMA BuiltFromTheTable ==
  ASSUME CoreInv, SetsInv, building # "idle"
  PROVE  /\ IsBuild(build) /\ SameGrammar(build, input) /\ input \in Grammars /\ build.first = FirstTable(input)
<1>1. Linked /\ BuilderInv /\ IInv BY DEF CoreInv, PipelineInv
<1>2. input \in Grammars BY <1>1 DEF IInv, TypeOK
<1>3. SetsExact BY BelowIsExact DEF SetsInv, CoreInv, PipelineInv
<1>4. build.first = FirstTable(input) BY <1>1, <1>2, <1>3, ReferenceAssumption DEF SetsExact, Linked
<1> QED BY <1>1, <1>2, <1>4 DEF BuilderInv, Linked, SameGrammar

LEMMA NodesStayReached ==
  ASSUME CoreInv, SetsInv, NodesReached, BuilderNext, UNCHANGED vars
  PROVE  NodesReached'
<1>1. building # "idle" /\ build' = build /\ input' = input
  BY DEF BuilderNext, Pop, Expand, FinishNode, FinishBuild, vars
<1>2. \A n \in Numbers : nodes[n] \in CollectionOf(build, input) BY <1>1 DEF NodesReached
<1>3. CASE UNCHANGED nodes BY <1>1, <1>2, <1>3 DEF NodesReached, Numbers, CollectionOf
<1>4. CASE Expand /\ ExpandNew(GotoOf(build, nodes[current], Head(waiting)))
  <2> DEFINE target == GotoOf(build, nodes[current], Head(waiting))
  <2>1. nodes' = [n \in Numbers \cup {Fresh} |-> IF n = Fresh THEN target ELSE nodes[n]] BY <1>4 DEF ExpandNew
  <2>2. target \in CollectionOf(build, input)
    <3>1. Expanding /\ waiting # <<>> BY <1>4 DEF Expand, CoreInv, PipelineInv, BuilderInv
    <3>2. current \in Numbers /\ Head(waiting) \in After(nodes[current])
      <4>1. Head(waiting) \in Elements(waiting) BY <3>1, ElementsOfQueue DEF Expanding
      <4> QED BY <3>1, <4>1 DEF Expanding
    <3>3. IsCollection(build, CollectionOf(build, input)) BY <1>1, BuiltFromTheTable, CollectionIsLeast
    <3> QED BY <1>2, <3>2, <3>3 DEF IsCollection
  <2> HIDE DEF target
  <2>3. \A n \in DOMAIN nodes' : nodes'[n] \in CollectionOf(build, input) BY <1>2, <2>1, <2>2
  <2> QED BY <1>1, <2>3 DEF NodesReached, Numbers, CollectionOf
<1> QED BY <1>3, <1>4 DEF BuilderNext, Pop, Expand, ExpandKnown, FinishNode, FinishBuild

\* All of them together are the collection, each of them once.
LEMMA DoneIsExact ==
  ASSUME CoreInv, SetsInv, NodesReached, building = "done"
  PROVE  /\ {nodes[n] : n \in DOMAIN nodes} = Collection
         /\ Cardinality(DOMAIN nodes) = Cardinality(Collection)
<1> DEFINE Z == {nodes[n] : n \in DOMAIN nodes}
<1>1. BuilderInv /\ NodesFit /\ EdgesFit /\ work = <<>> BY DEF CoreInv, PipelineInv, BuilderInv
<1>2. Collection = CollectionOf(build, input) BY DEF Collection, CollectionOf
<1>3. Z \subseteq Collection BY <1>2 DEF NodesReached, Numbers
<1>4. PICK k \in Nat : Numbers = 0 .. k BY <1>1 DEF NodesFit
<1>5. IsCollection(build, Z)
  <2>1. Z \in SUBSET SUBSET ItemsIn(build) BY <1>1 DEF NodesFit, Numbers
  <2>2. StartItems(build) \in Z
    <3>1. 0 \in DOMAIN nodes BY <1>4 DEF Numbers
    <3> QED BY <1>1, <3>1 DEF NodesFit
  <2>3. ASSUME NEW n \in Numbers, NEW X \in After(nodes[n]) PROVE GotoOf(build, nodes[n], X) \in Z
    <3>1. n \notin Elements(work) BY <1>1, EmptySequence
    <3>2. PICK e \in EdgesFrom(n) : e[1] = X /\ nodes[e[2]] = GotoOf(build, nodes[n], X)
      BY <1>1, <3>1, NothingForgotten DEF NoNodeForgotten, After
    <3>3. e[2] \in Numbers
      <4>1. nodeEdges[n] \in Seq(Symbols \X Numbers) BY <1>1 DEF EdgesFit
      <4>2. e \in Symbols \X Numbers BY <4>1 DEF EdgesFrom, Elements
      <4> QED BY <4>2
    <3> QED BY <3>2, <3>3 DEF Numbers
  <2>4. \A items \in Z : \A X \in After(items) : GotoOf(build, items, X) \in Z BY <2>3 DEF Numbers
  <2> HIDE DEF Z
  <2> QED BY <2>1, <2>2, <2>4 DEF IsCollection
<1>6. Collection \subseteq Z BY <1>2, <1>5, BuiltFromTheTable, CollectionIsLeast
<1>7. Cardinality(Numbers) = Cardinality(Z)
  <2> DEFINE f == [n \in Numbers |-> nodes[n]]
  <2>1. f \in [Numbers -> Z] BY DEF Numbers
  <2>2. \A m, n \in Numbers : f[m] = f[n] => m = n BY <1>1 DEF NodesFit
  <2>3. \A z \in Z : \E n \in Numbers : f[n] = z BY DEF Numbers
  <2> HIDE DEF f, Z
  <2>4. f \in Bijection(Numbers, Z)
    <3>1. f \in Injection(Numbers, Z) BY <2>1, <2>2 DEF Injection, IsInjective
    <3>2. f \in Surjection(Numbers, Z) BY <2>1, <2>3 DEF Surjection
    <3> QED BY <3>1, <3>2 DEF Bijection
  <2>5. ExistsBijection(Numbers, Z) BY <2>4 DEF ExistsBijection
  <2>6. IsFiniteSet(Numbers) BY <1>4, FS_Interval
  <2> QED BY <2>5, <2>6, FS_Bijection
<1>8. Z = Collection BY <1>3, <1>6
<1> QED BY <1>7, <1>8 DEF Numbers

ExactInv == CoreInv /\ SetsInv /\ NodesReached

LEMMA SetsStart == PipelineInit => SetsInv
<1> SUFFICES ASSUME PipelineInit PROVE SetsInv OBVIOUS
<1>1. Init BY DEF PipelineInit
<1>2. StartIsFollowed BY <1>1, GrammarsAssumption DEF Init, StartIsFollowed, IsGrammar
<1>3. SetsBelow(FirstSets, FollowSets) BY <1>1, ReferencesSolve, StartsBelow
<1> QED BY <1>2, <1>3, CoreStarts DEF SetsInv

LEMMA SetsKeep ==
  ASSUME SetsInv, [PipelineNext]_pipelineVars
  PROVE  SetsInv'
<1>1. CoreInv /\ TypeOK /\ StartIsFollowed /\ SetsBelow(FirstSets, FollowSets)
  BY DEF SetsInv, CoreInv, PipelineInv, IInv
<1>2. [Next]_vars
  BY DEF PipelineNext, pipelineVars, ComputeSets, StartBuild, Build, StartConversion, Convert,
         FillFromCanonical, FillFromMerged, FillFromPropagated, FillFrom, Fill
<1>3. StartIsFollowed' BY <1>1, <1>2, StartStaysFollowed
<1>4. SetsBelow(FirstSets, FollowSets)' BY <1>1, <1>2, ReferencesSolve, StaysBelow
<1> QED BY <1>1, <1>3, <1>4, CoreKeeps DEF SetsInv

LEMMA ExactKeeps ==
  ASSUME ExactInv, [PipelineNext]_pipelineVars
  PROVE  ExactInv'
<1>1. CoreInv /\ SetsInv /\ NodesReached BY DEF ExactInv
<1>2. CoreInv' /\ SetsInv' BY <1>1, CoreKeeps, SetsKeep
<1>3. CASE building' = "idle" BY <1>2, <1>3 DEF ExactInv, NodesReached
<1>4. CASE StartBuild
  <2>1. PICK isCanonical \in BOOLEAN :
          BuildAutomaton([nonterminals |-> input.nonterminals, producers |-> input.producers,
                          start |-> input.start, first |-> first, canonical |-> isCanonical])
    BY <1>4 DEF StartBuild
  <2> DEFINE b == [nonterminals |-> input.nonterminals, producers |-> input.producers,
                   start |-> input.start, first |-> first, canonical |-> isCanonical]
  <2>2. pc = "done" /\ input' = input BY <1>4 DEF StartBuild, vars
  <2>3. input \in Grammars /\ IInv /\ SetsExact
    <3>1. SetsExact /\ IInv BY <1>1, BelowIsExact DEF SetsInv, CoreInv, PipelineInv
    <3> QED BY <3>1 DEF IInv, TypeOK
  <2>4. b.first = FirstTable(input) BY <2>2, <2>3, ReferenceAssumption DEF SetsExact
  <2>5. IsBuild(b) BY <2>3, CalledWithBuild
  <2>6. SameGrammar(b, input) BY DEF SameGrammar
  <2>7. build' = b /\ nodes' = [n \in {0} |-> StartItems(b)] BY <2>1 DEF BuildAutomaton
  <2> HIDE DEF b
  <2>8. StartItems(b) \in CollectionOf(b, input) BY <2>3, <2>4, <2>5, <2>6, CollectionIsLeast DEF IsCollection
  <2>9. NodesReached' BY <2>2, <2>7, <2>8 DEF NodesReached, Numbers, CollectionOf
  <2> QED BY <1>2, <2>9 DEF ExactInv
<1>5. CASE Build
  <2>1. BuilderNext /\ UNCHANGED vars BY <1>5 DEF Build
  <2> QED BY <1>1, <1>2, <2>1, NodesStayReached DEF ExactInv
<1>6. CASE UNCHANGED <<input, build, nodes, building>>
  BY <1>1, <1>2, <1>6 DEF ExactInv, NodesReached, Numbers, CollectionOf
<1>7. CASE ComputeSets
  <2>1. Next /\ UNCHANGED builderVars BY <1>7 DEF ComputeSets
  <2>2. pc # "done"
    BY <2>1 DEF Next, FirstProduction, RepeatFirst, StartFollow, FollowSymbol, NextProduction, RepeatFollow, Finish
  <2>3. building' = "idle" BY <1>1, <2>1, <2>2 DEF CoreInv, Linked, builderVars
  <2> QED BY <1>3, <2>3
<1>8. ASSUME StartConversion \/ Convert \/ FillFromCanonical \/ FillFromMerged \/ FillFromPropagated \/ Fill
             \/ UNCHANGED pipelineVars
      PROVE  UNCHANGED <<input, build, nodes, building>>
  BY <1>8 DEF StartConversion, Convert, FillFromCanonical, FillFromMerged, FillFromPropagated, FillFrom, Fill,
              pipelineVars, vars, builderVars
<1> QED BY <1>4, <1>5, <1>6, <1>7, <1>8 DEF PipelineNext

\* FIRST and FOLLOW, when the loops of computeFirstSets and computeFollowSets have ended, are
\* what reachability in the grammar says, for every grammar.
THEOREM SetsAreExact == PipelineSpec => []SetsExact
<1>1. SetsInv => SetsExact BY BelowIsExact DEF SetsInv, CoreInv, PipelineInv
<1> QED BY <1>1, SetsStart, SetsKeep, PTL DEF PipelineSpec

-----------------------------------------------------------------------------
(***************************************************************************)
(* The parser that is emitted: what yyparse takes for granted of an        *)
(* automaton (AutomatonSound) and of its tables (TablesSound,              *)
(* CellsComplete), from the item sets, the edges and the exact rows.       *)
(***************************************************************************)
\* Item sets and edges that come from closures and gotos.
Framed(g, cores, edges) ==
  /\ 0 \in DOMAIN cores /\ \A item \in cores[0] : item.dot = 0
  /\ \A s \in DOMAIN cores :
       /\ cores[s] \subseteq CoreItems(g)
       /\ StartItem(g) \in cores[s] => s = 0
       /\ \A item \in cores[s] : ~IsComplete(item) => \E e \in edges[s] : e[1] = AfterDot(item)
       /\ \A prod \in Elements(g.producers) : InitialItem(prod) \in cores[s] =>
            \E item \in cores[s] : ~IsComplete(item) /\ AfterDot(item) = prod.left
       /\ \A e \in edges[s] :
            /\ e[1] \in OwnSymbols(g) /\ e[2] \in DOMAIN cores \ {0}
            /\ \A d \in edges[s] : d[1] = e[1] => d[2] = e[2]
            /\ \A item \in cores[e[2]] :
                 item.dot > 0 => item.right[item.dot] = e[1] /\ Retreat(item) \in cores[s]

\* The edges as a parser keeps them, and its tables.
FollowsEdges(c, edges) ==
  /\ DOMAIN c.next = StateSet(c)
  /\ \A s \in StateSet(c) :
       DOMAIN c.next[s] = {e[1] : e \in edges[s]} /\ \A e \in edges[s] : c.next[s][e[1]] = e[2]
FilledBy(c, g, rows, edges) ==
  /\ SameGrammar(g, c) /\ DOMAIN c.action = StateSet(c) /\ DOMAIN c.goto = StateSet(c)
  /\ \A s \in StateSet(c) :
       /\ c.action[s] = rows[s].action /\ c.goto[s] = rows[s].goto
       /\ RowExact(g, rows[s], edges[s], c.looks[s])
       /\ CoresOf(c.looks[s]) \subseteq c.items[s]

LEMMA FramesAreSound ==
  ASSUME NEW c, NEW edges, Framed(c, c.items, edges), FollowsEdges(c, edges)
  PROVE  AutomatonSound(c)
<1>1. /\ 0 \in StateSet(c) /\ DOMAIN c.next = StateSet(c) /\ \A item \in c.items[0] : item.dot = 0
  BY DEF Framed, FollowsEdges, StateSet
<1>2. ASSUME NEW s \in StateSet(c), NEW X \in DOMAIN c.next[s]
      PROVE  /\ c.next[s][X] \in StateSet(c) \ {0}
             /\ \A item \in c.items[c.next[s][X]] :
                  item.dot > 0 => item.right[item.dot] = X /\ Retreat(item) \in c.items[s]
  <2>1. PICK e \in edges[s] : e[1] = X BY DEF FollowsEdges
  <2>2. c.next[s][X] = e[2] BY <2>1 DEF FollowsEdges
  <2> QED BY <2>1, <2>2 DEF Framed, StateSet
<1>3. \A s \in StateSet(c) : StartItem(c) \in c.items[s] => s = 0 BY DEF Framed, StateSet
<1> QED BY <1>1, <1>2, <1>3 DEF AutomatonSound

\* An entry is a claim or the error of %nonassoc.
LEMMA EntryIsClaim ==
  ASSUME NEW g, NEW action, NEW a \in DOMAIN action, NEW shifts, NEW reduces, NEW accepts,
         Decided(g, action, shifts, reduces, accepts, a)
  PROVE  action[a] \in shifts \cup reduces \cup accepts \cup {ErrorEntry}
<1> DEFINE verdicts == Verdicts(g, shifts, reduces, a)
<1>1. shifts \cup reduces \cup accepts # {} BY DEF Decided
<1>2. CASE accepts # {} BY <1>2 DEF Decided
<1>3. CASE accepts = {} /\ shifts = {}
  <2>1. action[a] \in Lowest(reduces) BY <1>1, <1>3 DEF Decided
  <2> QED BY <2>1 DEF Lowest
<1>4. CASE accepts = {} /\ shifts # {} /\ verdicts \subseteq shifts BY <1>4 DEF Decided
<1>5. CASE accepts = {} /\ ~ verdicts \subseteq shifts BY <1>5 DEF Decided
<1> QED BY <1>2, <1>3, <1>4, <1>5

\* A complete core item is a whole production.
LEMMA CompleteItem ==
  ASSUME NEW g, HasProducers(g), NEW item \in CoreItems(g), IsComplete(item)
  PROVE  \E prod \in AllProductions(g) : item = WholeItem(prod)
<1>1. PICK prod \in AllProductions(g) : item \in ItemsFrom(prod) BY CoreItemsShape
<1>2. PICK d \in 0 .. Len(prod.right) : item = [left |-> prod.left, right |-> prod.right, dot |-> d]
  BY <1>1 DEF ItemsFrom
<1>3. Len(prod.right) \in Nat BY ProductionShape
<1>4. d = Len(prod.right) BY <1>2, <1>3 DEF IsComplete
<1> QED BY <1>2, <1>4 DEF WholeItem

LEMMA RowsAreSound ==
  ASSUME NEW c, NEW g, NEW aut, NEW rows, NEW edges, IsReadable(g, aut), HasRules(c),
         Framed(c, c.items, edges), FollowsEdges(c, edges), FilledBy(c, g, rows, edges)
  PROVE  TablesSound(c)
<1>1. /\ SameGrammar(g, c) /\ HasProducers(c) /\ DOMAIN c.action = StateSet(c) /\ DOMAIN c.goto = StateSet(c)
      /\ \A prod \in Elements(c.producers) : prod.left \in c.nonterminals /\ prod.left # AugmentedStart
  BY DEF FilledBy, HasRules, IsReadable, SameGrammar
<1>2. IsSequence(c.producers) /\ \A prod \in Elements(c.producers) : IsSequence(prod.right)
  BY <1>1 DEF HasProducers, IsSequence
<1>3. ASSUME NEW s \in StateSet(c)
      PROVE  /\ c.action[s] = rows[s].action /\ c.goto[s] = rows[s].goto
             /\ Routed(g, c.goto[s], edges[s]) /\ CoresOf(c.looks[s]) \subseteq c.items[s]
             /\ \A a : Decided(g, c.action[s], Shifts(g, edges[s], a), Reductions(g, c.looks[s], a),
                               Accepts(c.looks[s], a), a)
  BY DEF FilledBy, RowExact, RowDecided
<1>4. ASSUME NEW s \in StateSet(c), NEW A \in DOMAIN c.goto[s]
      PROVE  A \in DOMAIN c.next[s] /\ c.goto[s][A] = c.next[s][A]
  <2>1. PICK e \in edges[s] : e[1] = A /\ c.goto[s][A] = e[2] BY <1>3 DEF Routed
  <2> QED BY <2>1 DEF FollowsEdges
<1>5. ASSUME NEW s \in StateSet(c), NEW prod \in Elements(c.producers), InitialItem(prod) \in c.items[s]
      PROVE  prod.left \in DOMAIN c.goto[s]
  <2>1. PICK item \in c.items[s] : ~IsComplete(item) /\ AfterDot(item) = prod.left BY <1>5 DEF Framed, StateSet
  <2>2. PICK e \in edges[s] : e[1] = prod.left BY <2>1 DEF Framed, StateSet
  <2>3. ~IsTerminalSymbol(g, e[1]) BY <1>1, <2>2 DEF IsTerminalSymbol, IsNonterminal, SameGrammar
  <2> QED BY <1>3, <2>2, <2>3 DEF Routed
<1>6. ASSUME NEW s \in StateSet(c), NEW a \in DOMAIN c.action[s]
      PROVE  LET act == c.action[s][a]
             IN  /\ act.kind = "s" => a \in DOMAIN c.next[s] /\ act.to = c.next[s][a]
                 /\ act.kind = "r" => /\ act.to \in 1 .. Len(c.producers)
                                      /\ WholeItem(c.producers[act.to]) \in c.items[s]
                 /\ act.kind = "acc" => a = EndMarker /\ Advance(StartItem(c)) \in c.items[s]
  <2> DEFINE act == c.action[s][a]
             shifts == Shifts(g, edges[s], a)
             reduces == Reductions(g, c.looks[s], a)
             accepts == Accepts(c.looks[s], a)
  <2>1. act \in shifts \cup reduces \cup accepts \cup {ErrorEntry} BY <1>3, EntryIsClaim
  <2>2. CASE act \in shifts
    <3>1. PICK e \in edges[s] : e[1] = a /\ act = ShiftTo(e[2]) BY <2>2 DEF Shifts
    <3>2. act.kind = "s" /\ act.to = e[2] BY <3>1 DEF ShiftTo
    <3>3. a \in DOMAIN c.next[s] /\ c.next[s][a] = e[2] BY <3>1 DEF FollowsEdges
    <3> QED BY <3>2, <3>3
  <2>3. CASE act \in reduces
    <3>1. PICK k \in DOMAIN g.producers :
            /\ \E x \in c.looks[s] : IsComplete(x[1]) /\ x[2] = a /\ Produces(g.producers[k], x[1])
            /\ act = ReduceBy(k)
      BY <2>3 DEF Reductions
    <3>2. PICK x \in c.looks[s] : IsComplete(x[1]) /\ Produces(g.producers[k], x[1]) BY <3>1
    <3>3. act.kind = "r" /\ act.to = k BY <3>1 DEF ReduceBy
    <3>4. k \in 1 .. Len(c.producers) /\ c.producers[k] = g.producers[k]
      <4>1. g.producers = c.producers /\ g.producers \in Seq(Elements(g.producers)) BY <1>1 DEF SameGrammar, IsReadable
      <4> QED BY <4>1
    <3>5. x[1] \in c.items[s] BY <1>3 DEF CoresOf
    <3>6. x[1] \in CoreItems(c) BY <3>5 DEF Framed, StateSet
    <3>7. PICK prod \in AllProductions(c) : x[1] = WholeItem(prod) BY <1>1, <3>2, <3>6, CompleteItem
    <3>8. prod.left = c.producers[k].left /\ prod.right = c.producers[k].right
      BY <3>2, <3>4, <3>7 DEF Produces, WholeItem
    <3>9. WholeItem(c.producers[k]) = x[1] BY <3>7, <3>8 DEF WholeItem
    <3> QED BY <3>3, <3>4, <3>5, <3>9
  <2>4. CASE act \in accepts
    <3>1. PICK x \in c.looks[s] : IsComplete(x[1]) /\ IsAccept(x) /\ x[2] = a BY <2>4 DEF Accepts
    <3>2. act.kind = "acc" BY <2>4 DEF Accepts, AcceptIt
    <3>3. a = EndMarker /\ x[1].left = AugmentedStart BY <3>1 DEF IsAccept
    <3>4. x[1] \in c.items[s] BY <1>3 DEF CoresOf
    <3>5. x[1] \in CoreItems(c) BY <3>4 DEF Framed, StateSet
    <3>6. PICK prod \in AllProductions(c) : x[1] = WholeItem(prod) BY <1>1, <3>1, <3>5, CompleteItem
    <3>7. prod.left = AugmentedStart BY <3>3, <3>6 DEF WholeItem
    <3>8. prod = AugmentedProduction(c) BY <1>1, <3>7 DEF AllProductions
    <3>9. WholeItem(AugmentedProduction(c)) = Advance(StartItem(c))
      BY DEF WholeItem, AugmentedProduction, Advance, StartItem, InitialItem
    <3> QED BY <3>2, <3>3, <3>4, <3>6, <3>8, <3>9
  <2>5. CASE act = ErrorEntry BY <2>5 DEF ErrorEntry
  <2> QED BY <2>1, <2>2, <2>3, <2>4, <2>5
<1> QED BY <1>1, <1>2, <1>3, <1>4, <1>5, <1>6 DEF TablesSound

\* Lookaheads are tokens, and the start symbol is followed by the end of the text.
GoodItems(g, items) ==
  \A x \in items : x[2] \in TokensOf(g) /\ (x[1].left = AugmentedStart => x[2] = EndMarker)

\* The cell of a lookahead that is not contested holds the claim that is laid to it.
LEMMA LoneClaim ==
  ASSUME NEW g, NEW aut, IsReadable(g, aut), NEW row, NEW edges, NEW items, RowExact(g, row, edges, items),
         row.conflicts = {}, NEW a, Accepts(items, a) = {},
         NEW d \in Shifts(g, edges, a) \cup Reductions(g, items, a)
  PROVE  a \in DOMAIN row.action /\ row.action[a] = d
<1> DEFINE shifts == Shifts(g, edges, a)
           reduces == Reductions(g, items, a)
           accepts == Accepts(items, a)
<1>1. AreClaims(shifts, reduces, accepts) BY ClaimsAreClaims DEF AreClaims
<1>2. Decided(g, row.action, shifts, reduces, accepts, a) BY DEF RowExact, RowDecided
<1>3. Reported(row.conflicts, shifts, reduces, accepts, a) BY DEF RowExact, RowReported
<1>4. accepts = {} /\ d \in shifts \cup reduces OBVIOUS
<1> HIDE DEF shifts, reduces, accepts
<1>5. \A e \in shifts \cup reduces \cup accepts : e = d BY <1>3, <1>4 DEF Reported
<1>6. shifts \cup reduces \cup accepts = {d} BY <1>4, <1>5
<1> QED BY <1>1, <1>2, <1>6, SingleClaim

LEMMA RowsAreComplete ==
  ASSUME NEW c, NEW g, NEW aut, NEW rows, NEW edges, IsReadable(g, aut), HasRules(c),
         Framed(c, c.items, edges), FollowsEdges(c, edges), FilledBy(c, g, rows, edges),
         EndMarker \notin OwnSymbols(c) \cup c.nonterminals, AugmentedStart \notin OwnSymbols(c),
         \A s \in StateSet(c) : /\ GoodItems(c, c.looks[s]) /\ rows[s].conflicts = {}
                                /\ Accepts(c.looks[s], EndMarker) # {} => Reductions(g, c.looks[s], EndMarker) = {}
  PROVE  CellsComplete(c)
<1>1. /\ SameGrammar(g, c) /\ HasProducers(c)
      /\ \A s \in StateSet(c) :
           /\ c.action[s] = rows[s].action /\ RowExact(g, rows[s], edges[s], c.looks[s])
           /\ CoresOf(c.looks[s]) \subseteq c.items[s]
  BY DEF FilledBy, HasRules
<1>2. TokensOf(c) \cap c.nonterminals = {} BY DEF TokensOf, TerminalsOf, IsNonterminal
<1> SUFFICES ASSUME NEW s \in StateSet(c)
             PROVE  /\ EndMarker \notin DOMAIN c.next[s] /\ DOMAIN c.action[s] \cap c.nonterminals = {}
                    /\ \A x \in c.looks[s] :
                         LET wanted == IF IsComplete(x[1]) THEN x[2] ELSE AfterDot(x[1])
                             act    == c.action[s][wanted]
                         IN  wanted \notin c.nonterminals =>
                               /\ wanted \in DOMAIN c.action[s]
                               /\ ~IsComplete(x[1]) => act.kind = "s"
                               /\ IsComplete(x[1]) /\ x[1].left = AugmentedStart => act.kind = "acc"
                               /\ IsComplete(x[1]) /\ x[1].left # AugmentedStart =>
                                    act.kind = "r" /\ WholeItem(c.producers[act.to]) = x[1]
  BY DEF CellsComplete
<1> DEFINE looks == c.looks[s]
           here == edges[s]
           row == rows[s]
<1>3. /\ GoodItems(c, looks) /\ row.conflicts = {} /\ RowExact(g, row, here, looks) /\ c.action[s] = row.action
      /\ Accepts(looks, EndMarker) # {} => Reductions(g, looks, EndMarker) = {}
  BY <1>1
<1>4. \A x \in looks : x[1] \in CoreItems(c) BY <1>1 DEF CoresOf, Framed, StateSet
<1>5. \A e \in here : e[1] \in OwnSymbols(c) BY DEF Framed, StateSet
<1>6. \A x \in looks : ~IsComplete(x[1]) => \E e \in here : e[1] = AfterDot(x[1]) BY <1>1 DEF CoresOf, Framed, StateSet
<1>7. EndMarker \notin DOMAIN c.next[s] BY <1>5 DEF FollowsEdges
<1> HIDE DEF looks, here, row
<1>8. \A a : a # EndMarker => Accepts(looks, a) = {} BY DEF Accepts, IsAccept
<1>9. DOMAIN c.action[s] \cap c.nonterminals = {}
  <2> SUFFICES ASSUME NEW a \in DOMAIN row.action PROVE a \notin c.nonterminals BY <1>3
  <2>1. Decided(g, row.action, Shifts(g, here, a), Reductions(g, looks, a), Accepts(looks, a), a)
    BY <1>3 DEF RowExact, RowDecided
  <2>2. Shifts(g, here, a) \cup Reductions(g, looks, a) \cup Accepts(looks, a) # {} BY <2>1 DEF Decided
  <2>3. CASE Shifts(g, here, a) # {}
    <3>1. IsTerminalSymbol(g, a) BY <2>3 DEF Shifts
    <3> QED BY <1>1, <3>1 DEF IsTerminalSymbol, IsNonterminal, SameGrammar
  <2>4. CASE Reductions(g, looks, a) \cup Accepts(looks, a) # {}
    <3>1. \E x \in looks : x[2] = a BY <2>4 DEF Reductions, Accepts
    <3> QED BY <1>2, <1>3, <3>1 DEF GoodItems
  <2> QED BY <2>2, <2>3, <2>4
<1>10. ASSUME NEW x \in looks, ~IsComplete(x[1]), AfterDot(x[1]) \notin c.nonterminals
       PROVE  AfterDot(x[1]) \in DOMAIN c.action[s] /\ c.action[s][AfterDot(x[1])].kind = "s"
  <2> DEFINE X == AfterDot(x[1])
  <2>1. PICK e \in here : e[1] = X BY <1>6, <1>10
  <2>2. X # EndMarker /\ IsTerminalSymbol(g, X)
    BY <1>1, <1>5, <1>10, <2>1 DEF IsTerminalSymbol, IsNonterminal, SameGrammar
  <2>3. ShiftTo(e[2]) \in Shifts(g, here, X) BY <2>1, <2>2 DEF Shifts
  <2>4. Accepts(looks, X) = {} BY <1>8, <2>2
  <2>5. ShiftTo(e[2]).kind = "s" BY DEF ShiftTo
  <2> HIDE DEF X
  <2>6. X \in DOMAIN row.action /\ row.action[X] = ShiftTo(e[2]) BY <1>3, <2>3, <2>4, LoneClaim
  <2> QED BY <1>3, <2>5, <2>6 DEF X
<1>11. ASSUME NEW x \in looks, IsComplete(x[1]), x[1].left = AugmentedStart
       PROVE  x[2] \in DOMAIN c.action[s] /\ c.action[s][x[2]].kind = "acc"
  <2>1. x[2] = EndMarker BY <1>3, <1>11 DEF GoodItems
  <2>2. Accepts(looks, EndMarker) = {AcceptIt} BY <1>11, <2>1 DEF Accepts, IsAccept
  <2>3. Decided(g, row.action, Shifts(g, here, EndMarker), Reductions(g, looks, EndMarker),
                Accepts(looks, EndMarker), EndMarker)
    BY <1>3 DEF RowExact, RowDecided
  <2>4. EndMarker \in DOMAIN row.action /\ row.action[EndMarker] \in {AcceptIt} BY <2>2, <2>3 DEF Decided
  <2> QED BY <1>3, <2>1, <2>4 DEF AcceptIt
<1>12. ASSUME NEW x \in looks, IsComplete(x[1]), x[1].left # AugmentedStart
       PROVE  /\ x[2] \in DOMAIN c.action[s] /\ c.action[s][x[2]].kind = "r"
              /\ WholeItem(c.producers[c.action[s][x[2]].to]) = x[1]
  <2> DEFINE a == x[2]
             k == ProductionIndex(g, x[1])
             same == {j \in DOMAIN g.producers : Produces(g.producers[j], x[1])}
  <2>1. PICK prod \in AllProductions(c) : x[1] = WholeItem(prod) BY <1>1, <1>4, <1>12, CompleteItem
  <2>2. prod \in Elements(g.producers)
    <3>1. prod # AugmentedProduction(c) BY <1>12, <2>1 DEF WholeItem, AugmentedProduction
    <3> QED BY <1>1, <3>1 DEF AllProductions, SameGrammar
  <2>3. same # {} /\ same \in SUBSET (Nat \ {0})
    <3>1. PICK j \in DOMAIN g.producers : prod = g.producers[j] BY <2>2 DEF Elements
    <3>2. j \in same BY <2>1, <3>1 DEF Produces, WholeItem
    <3>3. DOMAIN g.producers = 1 .. Len(g.producers) /\ Len(g.producers) \in Nat BY DEF IsReadable
    <3> QED BY <3>2, <3>3
  <2>4. k \in same
    <3>1. k = FirstIndex(same) BY <2>3 DEF ProductionIndex
    <3>2. same \in SUBSET Nat /\ same # {} BY <2>3
    <3> HIDE DEF same
    <3> QED BY <3>1, <3>2, FirstIndexIsLeast
  <2>5. k > 0 /\ Produces(g.producers[k], x[1]) BY <2>3, <2>4
  <2> HIDE DEF k, same
  <2>6. Reductions(g, looks \cup {x}, a) = Reductions(g, looks, a) \cup {ReduceBy(k)}
    BY <1>12, <2>5, ReductionOf DEF k
  <2>7. looks \cup {x} = looks OBVIOUS
  <2>8. ReduceBy(k) \in Reductions(g, looks, a) BY <2>6, <2>7
  <2>9. Accepts(looks, a) = {} BY <1>3, <1>8, <2>8
  <2> HIDE DEF a
  <2>10. a \in DOMAIN row.action /\ row.action[a] = ReduceBy(k) BY <1>3, <2>8, <2>9, LoneClaim
  <2>11. WholeItem(g.producers[k]) = x[1] BY <2>1, <2>5 DEF WholeItem, Produces
  <2>12. ReduceBy(k).kind = "r" /\ ReduceBy(k).to = k BY DEF ReduceBy
  <2>13. c.producers = g.producers BY <1>1 DEF SameGrammar
  <2> QED BY <1>3, <2>10, <2>11, <2>12, <2>13 DEF a
<1> QED BY <1>7, <1>9, <1>10, <1>11, <1>12 DEF looks

-----------------------------------------------------------------------------
(***************************************************************************)
(* The frame of the automaton that was built: its nodes are the start set  *)
(* and gotos, and what a closure adds to its kernel was asked for.         *)
(***************************************************************************)
Asked(cores, item) == \E y \in cores : ~IsComplete(y) /\ AfterDot(y) = item.left
AddsAsked(C, K) == \A item \in C : item \in K \/ (item.dot = 0 /\ Asked(C, item))

LEMMA AddedIsAsked ==
  ASSUME NEW b, NEW item, NEW added \in ClosureItems(b, item)
  PROVE  added.dot = 0 /\ ~IsComplete(item) /\ AfterDot(item) = added.left
BY DEF ClosureItems, ProductionsOf, InitialItem

LEMMA ClosureAdds ==
  ASSUME NEW b, IsBuild(b), NEW K \in SUBSET ItemsIn(b)
  PROVE  AddsAsked(CoresOf(ClosureOf(b, K)), CoresOf(K))
<1>1. HasFirst(b, b.first) /\ HasProducers(b) BY DEF IsBuild, HasFirst
<1>2. CASE b.canonical
  <2> DEFINE C == Lr1Closure(b, b.first, K)
             new(x) == ClosureItems(b, x[1]) \X FollowingPredicts(b.first, x[1], x[2])
             Z == {x \in C : x[1] \in CoresOf(K) \/ (x[1].dot = 0 /\ Asked(CoresOf(C), x[1]))}
  <2>1. ClosureOf(b, K) = C /\ K \in SUBSET PairItems(b) BY <1>2 DEF ClosureOf, ItemsIn
  <2>2. /\ K \subseteq C /\ C \subseteq Pairs(b, K) /\ \A x \in C : new(x) \subseteq C
        /\ \A Y \in SUBSET Pairs(b, K) : K \subseteq Y /\ (\A x \in Y : new(x) \subseteq Y) => C \subseteq Y
    BY <1>1, <2>1, Lr1ClosureEnds
  <2> HIDE DEF C
  <2>3. K \subseteq Z BY <2>2 DEF CoresOf
  <2>4. ASSUME NEW x \in Z, NEW z \in new(x) PROVE z \in Z
    <3>1. z \in C /\ z[1] \in ClosureItems(b, x[1]) BY <2>2
    <3>2. z[1].dot = 0 /\ ~IsComplete(x[1]) /\ AfterDot(x[1]) = z[1].left BY <3>1, AddedIsAsked
    <3>3. x[1] \in CoresOf(C) BY DEF CoresOf
    <3> QED BY <3>1, <3>2, <3>3 DEF Asked
  <2>5. Z \in SUBSET Pairs(b, K) BY <2>2
  <2>6. \A x \in Z : new(x) \subseteq Z BY <2>4
  <2>7. C \subseteq Z
    <3> HIDE DEF Z
    <3> QED BY <2>2, <2>3, <2>5, <2>6
  <2> QED BY <2>1, <2>7 DEF AddsAsked, CoresOf
<1>3. CASE ~b.canonical
  <2> DEFINE L == CoresOf(K)
             C == Lr0Closure(b, L)
             Z == {item \in C : item \in L \/ (item.dot = 0 /\ Asked(C, item))}
  <2>1. L \in SUBSET CoreItems(b) BY <1>3 DEF ItemsIn, CoresOf
  <2>2. ClosureOf(b, K) = C \X {NoLookahead} BY <1>3 DEF ClosureOf
  <2>3. CoresOf(ClosureOf(b, K)) = C BY <2>2, CoresOfBare
  <2> HIDE DEF L
  <2>4. /\ L \subseteq C /\ C \subseteq CoreItems(b) /\ \A item \in C : ClosureItems(b, item) \subseteq C
        /\ \A Y \in SUBSET AnyItems(b) :
             L \subseteq Y /\ (\A item \in Y : ClosureItems(b, item) \subseteq Y) => C \subseteq Y
    BY <1>1, <2>1, Lr0ClosureEnds
  <2> HIDE DEF C
  <2>5. L \subseteq Z BY <2>4
  <2>6. \A item \in Z : ClosureItems(b, item) \subseteq Z
    <3> SUFFICES ASSUME NEW item \in Z, NEW z \in ClosureItems(b, item) PROVE z \in Z OBVIOUS
    <3>1. z.dot = 0 /\ ~IsComplete(item) /\ AfterDot(item) = z.left BY AddedIsAsked
    <3> QED BY <2>4, <3>1 DEF Asked
  <2>7. Z \in SUBSET AnyItems(b) BY <1>1, <2>4, CoreItemsShape
  <2>8. C \subseteq Z
    <3> HIDE DEF Z
    <3> QED BY <2>4, <2>5, <2>6, <2>7
  <2> QED BY <2>3, <2>8 DEF AddsAsked, L
<1> QED BY <1>2, <1>3

\* The start set, and a goto.
LEMMA StartIsAsked ==
  ASSUME NEW b, IsBuild(b)
  PROVE  /\ \A item \in CoresOf(StartItems(b)) : item.dot = 0
         /\ \A item \in CoresOf(StartItems(b)) : item = StartItem(b) \/ Asked(CoresOf(StartItems(b)), item)
<1> DEFINE K == {<<StartItem(b), IF b.canonical THEN EndMarker ELSE NoLookahead>>}
<1>1. StartItem(b) \in CoreItems(b) BY StartIsAnItem DEF IsBuild, HasFirst
<1>2. K \in SUBSET ItemsIn(b) BY <1>1 DEF ItemsIn, PairItems
<1>3. CoresOf(K) = {StartItem(b)} BY DEF CoresOf
<1>4. StartItems(b) = ClosureOf(b, K) BY DEF StartItems
<1>5. StartItem(b).dot = 0 BY DEF StartItem, InitialItem
<1> HIDE DEF K
<1>6. AddsAsked(CoresOf(StartItems(b)), {StartItem(b)}) BY <1>2, <1>3, <1>4, ClosureAdds
<1> QED BY <1>5, <1>6 DEF AddsAsked

LEMMA GotoIsAsked ==
  ASSUME NEW b, IsBuild(b), NEW items \in SUBSET ItemsIn(b), NEW X
  PROVE  \A item \in CoresOf(GotoOf(b, items, X)) :
           /\ item.dot = 0 => Asked(CoresOf(GotoOf(b, items, X)), item)
           /\ item.dot # 0 => item.right[item.dot] = X /\ Retreat(item) \in CoresOf(items)
<1> DEFINE K == Moved(items, X)
           C == CoresOf(GotoOf(b, items, X))
<1>1. K \in SUBSET ItemsIn(b) BY MovedItems
<1>2. GotoOf(b, items, X) = ClosureOf(b, K) BY DEF GotoOf, Moved
<1>3. CoresOf(K) = {Advance(item) : item \in {it \in CoresOf(items) : DotBefore(it, X)}} BY MovedCores
<1> HIDE DEF K
<1>4. AddsAsked(C, CoresOf(K)) BY <1>1, <1>2, ClosureAdds
<1>5. ASSUME NEW it \in CoresOf(items), DotBefore(it, X)
      PROVE  Advance(it).dot # 0 /\ Advance(it).right[Advance(it).dot] = X /\ Retreat(Advance(it)) = it
  <2>1. it \in CoreItems(b) BY DEF ItemsIn, PairItems, CoresOf
  <2>2. PICK prod \in AllProductions(b) : it \in ItemsFrom(prod) BY <2>1 DEF CoreItems
  <2>3. PICK d \in 0 .. Len(prod.right) : it = [left |-> prod.left, right |-> prod.right, dot |-> d]
    BY <2>2 DEF ItemsFrom
  <2>4. Advance(it) = [left |-> prod.left, right |-> prod.right, dot |-> d + 1] BY <2>3 DEF Advance
  <2>5. Retreat(Advance(it)) = [left |-> prod.left, right |-> prod.right, dot |-> d] BY <2>3, <2>4 DEF Retreat
  <2>6. it.right[it.dot + 1] = X BY <1>5 DEF DotBefore, AfterDot
  <2> QED BY <2>3, <2>4, <2>5, <2>6
<1> QED BY <1>3, <1>4, <1>5 DEF AddsAsked

\* Every node is one of the two.
LEMMA NodeIsStartOrGoto ==
  ASSUME ExactInv, building # "idle", NEW n \in Numbers
  PROVE  \/ nodes[n] = StartItems(build)
         \/ \E items \in SUBSET ItemsIn(build) : \E X : nodes[n] = GotoOf(build, items, X)
<1> DEFINE Z == {set \in SUBSET ItemsIn(build) :
                   \/ set = StartItems(build)
                   \/ \E items \in SUBSET ItemsIn(build) : \E X : set = GotoOf(build, items, X)}
<1>1. IsBuild(build) /\ SameGrammar(build, input) /\ input \in Grammars /\ build.first = FirstTable(input)
  BY BuiltFromTheTable DEF ExactInv
<1>2. StartItems(build) \in Z BY <1>1, StartEnds
<1>3. ASSUME NEW set \in Z, NEW X PROVE GotoOf(build, set, X) \in Z
  <2>1. GotoOf(build, set, X) \in SUBSET ItemsIn(build) BY <1>1, GotoEnds
  <2> QED BY <2>1
<1>4. Z \in SUBSET SUBSET ItemsIn(build) OBVIOUS
<1>5. nodes[n] \in CollectionOf(build, input) BY DEF ExactInv, NodesReached
<1>6. nodes[n] \in Z
  <2> HIDE DEF Z
  <2>1. IsCollection(build, Z) BY <1>2, <1>3, <1>4 DEF IsCollection
  <2> QED BY <1>1, <1>5, <2>1, CollectionIsLeast
<1> QED BY <1>6

\* The symbols of what is built are those of the grammar, and no reserved name is among them.
LEMMA OwnOrForeign ==
  ASSUME NEW g \in Grammars, NEW b, SameGrammar(b, g)
  PROVE  /\ OwnSymbols(b) = {g.start} \cup SymbolsIn(g) /\ HasRules(b) /\ g.start \in g.nonterminals
         /\ {Epsilon, AugmentedStart} \cap (OwnSymbols(b) \cup b.nonterminals) = {}
<1>1. HasRules(g) /\ IsGrammar(g) BY GrammarsHaveRules
<1>2. b.nonterminals = g.nonterminals /\ b.producers = g.producers /\ b.start = g.start BY DEF SameGrammar
<1>3. OwnSymbols(b) = {g.start} \cup SymbolsIn(g)
  <2>1. AugmentedProduction(b).right = <<g.start>> BY <1>2 DEF AugmentedProduction
  <2>2. Elements(<<g.start>>) = {g.start} BY DEF Elements
  <2>3. AllProductions(b) = {AugmentedProduction(b)} \cup Elements(g.producers) BY <1>2 DEF AllProductions
  <2> QED BY <2>1, <2>2, <2>3 DEF OwnSymbols, SymbolsIn
<1>4. HasRules(b) BY <1>1, <1>2 DEF HasRules, HasProducers
<1>5. g.start \in g.nonterminals BY <1>1 DEF IsGrammar
<1> QED BY <1>2, <1>3, <1>4, <1>5, ReservedAssumption

LEMMA NodesAreFramed ==
  ASSUME ExactInv, building = "done"
  PROVE  Framed(build, [n \in Numbers |-> CoresOf(nodes[n])], [n \in Numbers |-> Elements(nodeEdges[n])])
<1> DEFINE b == build
           cores == [n \in Numbers |-> CoresOf(nodes[n])]
           edges == [n \in Numbers |-> Elements(nodeEdges[n])]
<1>1. /\ BuilderInv /\ IsBuild(b) /\ NodesFit /\ EdgesFit /\ work = <<>>
      /\ SameGrammar(b, input) /\ input \in Grammars
  BY BuiltFromTheTable DEF ExactInv, CoreInv, PipelineInv, BuilderInv
<1>2. HasRules(b) /\ AugmentedStart \notin OwnSymbols(b) /\ \A prod \in Elements(b.producers) : prod.left # AugmentedStart
  <2>1. HasRules(b) /\ AugmentedStart \notin OwnSymbols(b) \cup b.nonterminals BY <1>1, OwnOrForeign
  <2> QED BY <2>1 DEF HasRules
<1>3. DOMAIN cores = Numbers /\ 0 \in Numbers
      /\ \A n \in Numbers : cores[n] = CoresOf(nodes[n]) /\ edges[n] = Elements(nodeEdges[n])
  BY <1>1 DEF NodesFit
<1>4. ASSUME NEW n \in Numbers PROVE nodes[n] \in SUBSET ItemsIn(b) /\ CoresOf(nodes[n]) \subseteq CoreItems(b)
  <2>1. nodes[n] \in SUBSET ItemsIn(b) BY <1>1 DEF NodesFit
  <2> QED BY <2>1 DEF ItemsIn, PairItems, CoresOf
<1>5. ASSUME NEW item \in CoreItems(b), ~IsComplete(item) PROVE AfterDot(item) \in OwnSymbols(b)
  <2>1. item.right \in Seq(OwnSymbols(b)) /\ item.dot \in 0 .. Len(item.right) BY <1>2, CoreItemsShape DEF HasRules
  <2>2. item.dot + 1 \in 1 .. Len(item.right) BY <1>5, <2>1 DEF IsComplete
  <2> QED BY <2>1, <2>2 DEF AfterDot
\* A goto has no start item, and so leads to no start set.
<1>6. ASSUME NEW items \in SUBSET ItemsIn(b), NEW X PROVE StartItem(b) \notin CoresOf(GotoOf(b, items, X))
  <2> DEFINE C == CoresOf(GotoOf(b, items, X))
  <2> SUFFICES ASSUME StartItem(b) \in C PROVE FALSE OBVIOUS
  <2>1. StartItem(b).dot = 0 /\ StartItem(b).left = AugmentedStart BY DEF StartItem, InitialItem, AugmentedProduction
  <2>2. Asked(C, StartItem(b)) BY <1>1, <2>1, GotoIsAsked
  <2>3. PICK y \in C : ~IsComplete(y) /\ AfterDot(y) = AugmentedStart BY <2>1, <2>2 DEF Asked
  <2>4. GotoOf(b, items, X) \in SUBSET ItemsIn(b) BY <1>1, GotoEnds
  <2>5. y \in CoreItems(b)
    <3>1. PICK x \in GotoOf(b, items, X) : y = x[1] BY DEF CoresOf
    <3> QED BY <2>4, <3>1 DEF ItemsIn, PairItems
  <2> QED BY <1>2, <1>5, <2>3, <2>5
<1>7. \A item \in CoresOf(nodes[0]) : item.dot = 0 BY <1>1, StartIsAsked DEF NodesFit
<1>8. ASSUME NEW n \in Numbers, StartItem(b) \in CoresOf(nodes[n]) PROVE n = 0
  <2>1. nodes[n] = StartItems(b) BY <1>6, <1>8, NodeIsStartOrGoto
  <2> QED BY <1>1, <1>3, <2>1 DEF NodesFit
<1>9. ASSUME NEW n \in Numbers, NEW prod \in Elements(b.producers), InitialItem(prod) \in CoresOf(nodes[n])
      PROVE  \E item \in CoresOf(nodes[n]) : ~IsComplete(item) /\ AfterDot(item) = prod.left
  <2>1. InitialItem(prod).dot = 0 /\ InitialItem(prod).left = prod.left BY DEF InitialItem
  <2>2. InitialItem(prod) # StartItem(b) BY <1>2, <2>1 DEF StartItem, InitialItem, AugmentedProduction
  <2>3. Asked(CoresOf(nodes[n]), InitialItem(prod))
    <3>1. CASE nodes[n] = StartItems(b) BY <1>1, <1>9, <2>2, <3>1, StartIsAsked
    <3>2. CASE \E items \in SUBSET ItemsIn(b) : \E X : nodes[n] = GotoOf(b, items, X)
      <4>1. PICK items \in SUBSET ItemsIn(b) : \E X : nodes[n] = GotoOf(b, items, X) BY <3>2
      <4>2. PICK X : nodes[n] = GotoOf(b, items, X) BY <4>1
      <4> HIDE DEF b
      <4>3. InitialItem(prod) \in CoresOf(GotoOf(b, items, X)) BY <1>9, <4>2
      <4>4. Asked(CoresOf(GotoOf(b, items, X)), InitialItem(prod)) BY <1>1, <2>1, <4>3, GotoIsAsked
      <4> QED BY <4>2, <4>4
    <3> QED BY <3>1, <3>2, NodeIsStartOrGoto
  <2> QED BY <2>1, <2>3 DEF Asked
<1>10. ASSUME NEW n \in Numbers, NEW e \in Elements(nodeEdges[n])
       PROVE  e[1] \in After(nodes[n]) /\ e[2] \in Numbers /\ nodes[e[2]] = GotoOf(b, nodes[n], e[1])
  <2>1. nodeEdges[n] \in Seq(Symbols \X Numbers) BY <1>1 DEF EdgesFit
  <2>2. e \in Symbols \X Numbers BY <2>1 DEF Elements
  <2> QED BY <1>1, <2>2 DEF EdgesFit
<1>11. ASSUME NEW n \in Numbers, NEW item \in CoresOf(nodes[n]), ~IsComplete(item)
       PROVE  \E e \in Elements(nodeEdges[n]) : e[1] = AfterDot(item)
  <2>1. n \notin Elements(work) BY <1>1, EmptySequence
  <2>2. AfterDot(item) \in SymbolsAfterDots(CoresOf(nodes[n])) BY <1>11 DEF SymbolsAfterDots
  <2>3. {e[1] : e \in EdgesFrom(n)} = SymbolsAfterDots(CoresOf(nodes[n])) BY <1>1, <2>1, NothingForgotten DEF NoNodeForgotten
  <2> QED BY <2>2, <2>3 DEF EdgesFrom
<1>12. ASSUME NEW n \in Numbers, NEW e \in Elements(nodeEdges[n])
       PROVE  /\ e[1] \in OwnSymbols(b) /\ e[2] \in Numbers \ {0}
              /\ \A d \in Elements(nodeEdges[n]) : d[1] = e[1] => d[2] = e[2]
              /\ \A item \in CoresOf(nodes[e[2]]) :
                   item.dot > 0 => item.right[item.dot] = e[1] /\ Retreat(item) \in CoresOf(nodes[n])
  <2>1. e[1] \in After(nodes[n]) /\ e[2] \in Numbers /\ nodes[e[2]] = GotoOf(b, nodes[n], e[1]) BY <1>10
  <2>2. e[1] \in OwnSymbols(b) BY <1>4, <1>5, <2>1 DEF After, SymbolsAfterDots
  <2>3. e[2] # 0
    <3>1. StartItem(b) \in CoresOf(nodes[0]) BY <1>1, StartEnds DEF NodesFit
    <3> QED BY <1>4, <1>6, <2>1, <3>1
  <2>4. \A d \in Elements(nodeEdges[n]) : d[1] = e[1] => d[2] = e[2] BY <1>1, <1>10, <2>1 DEF NodesFit
  <2>5. ASSUME NEW item \in CoresOf(nodes[e[2]]), item.dot > 0
        PROVE  item.right[item.dot] = e[1] /\ Retreat(item) \in CoresOf(nodes[n])
    BY <1>1, <1>4, <2>1, <2>5, GotoIsAsked
  <2> QED BY <2>1, <2>2, <2>3, <2>4, <2>5
<1> HIDE DEF b, cores, edges
<1>13. Framed(b, cores, edges) BY <1>3, <1>4, <1>7, <1>8, <1>9, <1>11, <1>12 DEF Framed
<1> QED BY <1>13 DEF b, cores, edges

-----------------------------------------------------------------------------
(***************************************************************************)
(* The frame of a merged automaton: the number of a group is the number of *)
(* its members, and the group of the start node comes first.               *)
(***************************************************************************)
Numbered ==
  /\ \A k \in DOMAIN groups : \A n \in groups[k] : oldToNew[n] = k - 1 /\ (converting = "group" => n < at)
  /\ converting = "group" /\ at = 0 => groups = <<>>
  /\ converting # "idle" /\ (converting = "group" => at > 0) => oldToNew[0] = 0
\* The converter has got the automaton that was built.
Received == converting # "idle" => canonical.edges = [n \in DOMAIN nodes |-> Elements(nodeEdges[n])]

LEMMA NumberedStarts ==
  ASSUME ConversionInv, NEW c, ConvertAutomaton(c)
  PROVE  Numbered'
<1>1. converting = "idle" /\ converting' = "group" /\ groups' = groups /\ at' = at BY DEF ConvertAutomaton
<1>2. groups = <<>> /\ at = 0 BY <1>1 DEF ConversionInv
<1> QED BY <1>1, <1>2 DEF Numbered

LEMMA StaysNumbered ==
  ASSUME ConversionInv, Numbered, ConverterNext, 0 \in OldNodes
  PROVE  Numbered'
<1>1. /\ converting # "idle" /\ at \in Nat /\ IsCanonical(canonical) /\ GroupsAlike /\ GroupedSoFar
  BY ConverterKeeps DEF ConversionInv
<1>2. groups \in Seq(SUBSET OldNodes) /\ DOMAIN oldToNew = OldNodes BY <1>1 DEF GroupsAlike, GroupedSoFar
<1>3. OldNodes \subseteq Nat BY <1>1 DEF IsCanonical, OldNodes
<1>4. Len(groups) \in Nat /\ DOMAIN groups = 1 .. Len(groups) BY <1>2
<1>5. \A k \in DOMAIN groups : \A n \in groups[k] : n \in OldNodes BY <1>2
<1>6. CASE JoinGroup
  <2>1. PICK k \in GroupOf(at) :
          /\ groups' = [groups EXCEPT ![k] = @ \cup {at}] /\ oldToNew' = [oldToNew EXCEPT ![at] = k - 1]
    BY <1>6 DEF JoinGroup
  <2>2. converting = "group" /\ converting' = "group" /\ at' = at + 1 /\ at \in OldNodes BY <1>6 DEF JoinGroup
  <2>3. k \in DOMAIN groups BY DEF GroupOf
  <2>4. at # 0
    <3>1. groups # <<>> BY <1>4, <2>3
    <3> QED BY <2>2, <3>1 DEF Numbered
  <2>5. ASSUME NEW j \in DOMAIN groups', NEW n \in groups'[j] PROVE oldToNew'[n] = j - 1 /\ n < at'
    <3>1. j \in DOMAIN groups BY <2>1
    <3>2. CASE n = at /\ n \notin groups[j]
      <4>1. j = k BY <2>1, <3>1, <3>2
      <4> QED BY <1>1, <1>2, <2>1, <2>2, <3>2, <4>1
    <3>3. CASE n \in groups[j]
      <4>1. oldToNew[n] = j - 1 /\ n < at /\ n \in OldNodes BY <1>5, <2>2, <3>1, <3>3 DEF Numbered
      <4>2. n # at BY <1>1, <1>3, <4>1
      <4> QED BY <1>1, <1>2, <1>3, <2>1, <2>2, <4>1, <4>2
    <3>4. n = at \/ n \in groups[j] BY <2>1, <3>1
    <3> QED BY <3>2, <3>3, <3>4
  <2>6. oldToNew'[0] = 0
    <3>1. oldToNew[0] = 0 BY <1>1, <2>2, <2>4 DEF Numbered
    <3> QED BY <1>2, <2>1, <2>4, <3>1
  <2>7. at' # 0 BY <1>1, <2>2
  <2> QED BY <2>2, <2>5, <2>6, <2>7 DEF Numbered
<1>7. CASE NewGroup
  <2>1. /\ groups' = Append(groups, {at}) /\ oldToNew' = [oldToNew EXCEPT ![at] = Len(groups)]
        /\ converting = "group" /\ converting' = "group" /\ at' = at + 1 /\ at \in OldNodes
    BY <1>7 DEF NewGroup
  <2>2. /\ DOMAIN groups' = 1 .. (Len(groups) + 1) /\ groups'[Len(groups) + 1] = {at}
        /\ \A j \in 1 .. Len(groups) : groups'[j] = groups[j]
    BY <1>2, <2>1
  <2>3. ASSUME NEW j \in DOMAIN groups', NEW n \in groups'[j] PROVE oldToNew'[n] = j - 1 /\ n < at'
    <3>1. CASE j = Len(groups) + 1
      <4>1. n = at BY <2>2, <3>1
      <4> QED BY <1>1, <1>2, <1>4, <2>1, <3>1, <4>1
    <3>2. CASE j # Len(groups) + 1
      <4>1. j \in 1 .. Len(groups) /\ n \in groups[j] BY <1>4, <2>2, <3>2
      <4>2. oldToNew[n] = j - 1 /\ n < at /\ n \in OldNodes BY <1>4, <1>5, <2>1, <4>1 DEF Numbered
      <4>3. n # at BY <1>1, <1>3, <4>2
      <4> QED BY <1>1, <1>2, <1>3, <2>1, <4>2, <4>3
    <3> QED BY <3>1, <3>2
  <2>4. oldToNew'[0] = 0
    <3>1. CASE at = 0
      <4>1. Len(groups) = 0 BY <2>1, <3>1 DEF Numbered
      <4> QED BY <1>2, <2>1, <3>1, <4>1
    <3>2. CASE at # 0
      <4>1. oldToNew[0] = 0 BY <1>1, <2>1, <3>2 DEF Numbered
      <4> QED BY <1>2, <2>1, <3>2, <4>1
    <3> QED BY <3>1, <3>2
  <2>5. at' # 0 BY <1>1, <2>1
  <2> QED BY <2>1, <2>3, <2>4, <2>5 DEF Numbered
<1>8. CASE StartMerge
  <2>1. converting = "group" /\ at \notin OldNodes /\ converting' = "merge" /\ UNCHANGED <<groups, oldToNew>>
    BY <1>8 DEF StartMerge
  <2>2. 0 < at BY <1>1, <2>1, PastTheLast
  <2>3. oldToNew[0] = 0 BY <2>1, <2>2 DEF Numbered
  <2> QED BY <2>1, <2>3 DEF Numbered
<1>9. CASE MergeGroup \/ StartEdges \/ RewriteEdges \/ FinishEdges
  <2>1. converting # "group" /\ converting' \notin {"group", "idle"} /\ UNCHANGED <<groups, oldToNew>>
    BY <1>9 DEF MergeGroup, StartEdges, RewriteEdges, FinishEdges
  <2> QED BY <1>1, <2>1 DEF Numbered
<1> QED BY <1>6, <1>7, <1>8, <1>9 DEF ConverterNext

\* A map listed in text order.
LEMMA EdgesInOrder ==
  ASSUME NEW n, DOMAIN mergedEdges[n] \subseteq Symbols
  PROVE  Elements(MergedEdges(n)) = {<<X, mergedEdges[n][X]>> : X \in DOMAIN mergedEdges[n]}
<1> DEFINE order == InTextOrder(DOMAIN mergedEdges[n])
           listed == [k \in DOMAIN order |-> <<order[k], mergedEdges[n][order[k]]>>]
<1>1. MergedEdges(n) = listed BY DEF MergedEdges
<1>2. Elements(order) = DOMAIN mergedEdges[n]
  <2>1. Elements(order) = DOMAIN mergedEdges[n] \cap Symbols BY OrderLists
  <2> QED BY <2>1
<1> HIDE DEF order
<1>3. Elements(listed) = {<<order[k], mergedEdges[n][order[k]]>> : k \in DOMAIN order} BY DEF Elements
<1>4. Elements(order) = {order[k] : k \in DOMAIN order} BY DEF Elements
<1> QED BY <1>1, <1>2, <1>3, <1>4

\* The members of a merged node have its cores, and its edges lead where theirs do.
LEMMA MemberCores ==
  ASSUME ConversionInv, converting = "done", NEW n \in OldNodes
  PROVE  /\ oldToNew[n] \in DOMAIN merged
         /\ CoresOf(merged[oldToNew[n]]) = CoresOf(canonical.items[n])
<1>1. /\ GroupsAlike /\ GroupedSoFar /\ MergedSoFar /\ DOMAIN merged = NewNodes BY DEF ConversionInv
<1>2. oldToNew[n] \in NewNodes /\ n \in groups[oldToNew[n] + 1] BY <1>1 DEF GroupedSoFar, IsGrouped
<1>3. merged[oldToNew[n]] = UNION {canonical.items[m] : m \in groups[oldToNew[n] + 1]} BY <1>1, <1>2 DEF MergedSoFar
<1>4. oldToNew[n] + 1 \in DOMAIN groups
  <2>1. groups \in Seq(SUBSET OldNodes) BY <1>1 DEF GroupsAlike
  <2> QED BY <1>2, <2>1 DEF NewNodes
<1> QED BY <1>1, <1>2, <1>3, <1>4, GroupCores

LEMMA MembersOf ==
  ASSUME ConversionInv, Numbered, converting = "done", NEW s \in DOMAIN merged, NEW item \in CoresOf(merged[s])
  PROVE  \E n \in OldNodes : oldToNew[n] = s /\ CoresOf(merged[s]) = CoresOf(canonical.items[n])
<1>1. GroupsAlike /\ MergedSoFar /\ DOMAIN merged = NewNodes BY DEF ConversionInv
<1>2. groups \in Seq(SUBSET OldNodes) BY <1>1 DEF GroupsAlike
<1>3. s \in Nat /\ s + 1 \in DOMAIN groups /\ groups[s + 1] \subseteq OldNodes
  <2>1. s \in 0 .. Len(groups) - 1 BY <1>1 DEF NewNodes
  <2> QED BY <1>2, <2>1
<1>4. merged[s] = UNION {canonical.items[m] : m \in groups[s + 1]} BY <1>1 DEF MergedSoFar
<1>5. PICK n \in groups[s + 1] : TRUE BY <1>4 DEF CoresOf
<1>6. oldToNew[n] = s BY <1>3, <1>5 DEF Numbered
<1>7. n \in OldNodes BY <1>3, <1>5
<1> QED BY <1>6, <1>7, MemberCores

LEMMA MergedIsFramed ==
  ASSUME ExactInv, Numbered, Received, converting = "done"
  PROVE  Framed(build, [s \in DOMAIN merged |-> CoresOf(merged[s])], [s \in DOMAIN merged |-> Elements(MergedEdges(s))])
<1> DEFINE b == build
           old == [n \in Numbers |-> CoresOf(nodes[n])]
           oldEdges == [n \in Numbers |-> Elements(nodeEdges[n])]
           cores == [s \in DOMAIN merged |-> CoresOf(merged[s])]
           edges == [s \in DOMAIN merged |-> Elements(MergedEdges(s))]
<1>1. /\ BuilderInv /\ ConversionInv /\ building = "done" /\ canonical.items = nodes
      /\ canonical.edges = oldEdges
  BY DEF ExactInv, CoreInv, PipelineInv, Received, Numbers
<1>2. Framed(b, old, oldEdges) BY <1>1, NodesAreFramed
<1>3. /\ OldNodes = Numbers /\ DOMAIN merged = NewNodes /\ EdgesSoFar /\ oldToNew[0] = 0
      /\ \A n \in Numbers : old[n] = CoresOf(canonical.items[n]) /\ oldEdges[n] = canonical.edges[n]
  BY <1>1 DEF ConversionInv, Numbered, OldNodes, Numbers
<1>4. 0 \in Numbers BY <1>2 DEF Framed
<1>5. ASSUME NEW n \in Numbers
      PROVE  oldToNew[n] \in DOMAIN merged /\ CoresOf(merged[oldToNew[n]]) = old[n]
  BY <1>1, <1>3, MemberCores
<1>6. ASSUME NEW s \in DOMAIN merged, NEW item \in CoresOf(merged[s])
      PROVE  \E n \in Numbers : oldToNew[n] = s /\ CoresOf(merged[s]) = old[n]
  BY <1>1, <1>3, MembersOf
<1>7. ASSUME NEW s \in DOMAIN merged, NEW X \in DOMAIN mergedEdges[s]
      PROVE  \E n \in Numbers : \E e \in oldEdges[n] :
               e[1] = X /\ oldToNew[n] = s /\ e[2] \in Numbers /\ mergedEdges[s][X] = oldToNew[e[2]]
  <2>1. WrittenFor(s, X) BY <1>3 DEF EdgesSoFar
  <2>2. PICK n \in Numbers : \E e \in oldEdges[n] :
          oldToNew[n] = s /\ e[1] = X /\ mergedEdges[s][X] = oldToNew[e[2]]
    BY <1>3, <2>1 DEF WrittenFor
  <2> HIDE DEF old, oldEdges
  <2>3. DOMAIN old = Numbers BY DEF old
  <2>4. \A e \in oldEdges[n] : e[2] \in Numbers BY <1>2, <2>3 DEF Framed
  <2> QED BY <2>2, <2>4
<1> HIDE DEF old, oldEdges
<1>8. DOMAIN old = Numbers BY DEF old
<1>9. ASSUME NEW s \in DOMAIN merged
      PROVE  Elements(MergedEdges(s)) = {<<X, mergedEdges[s][X]>> : X \in DOMAIN mergedEdges[s]}
  <2>1. OwnSymbols(b) \subseteq Symbols BY <1>1 DEF BuilderInv, IsBuild
  <2>2. DOMAIN mergedEdges[s] \subseteq OwnSymbols(b)
    <3> SUFFICES ASSUME NEW X \in DOMAIN mergedEdges[s] PROVE X \in OwnSymbols(b) OBVIOUS
    <3>1. PICK n \in Numbers : \E e \in oldEdges[n] : e[1] = X BY <1>7
    <3> QED BY <1>2, <1>8, <3>1 DEF Framed
  <2> QED BY <2>1, <2>2, EdgesInOrder
<1>10. 0 \in DOMAIN merged /\ CoresOf(merged[0]) = old[0] BY <1>3, <1>4, <1>5
<1>11. \A item \in CoresOf(merged[0]) : item.dot = 0 BY <1>2, <1>10 DEF Framed
<1>12. ASSUME NEW s \in DOMAIN merged, StartItem(b) \in CoresOf(merged[s]) PROVE s = 0
  <2>1. PICK n \in Numbers : oldToNew[n] = s /\ CoresOf(merged[s]) = old[n] BY <1>6, <1>12
  <2>2. n = 0 BY <1>2, <1>8, <1>12, <2>1 DEF Framed
  <2> QED BY <1>3, <2>1, <2>2
<1>13. ASSUME NEW s \in DOMAIN merged, NEW item \in CoresOf(merged[s])
       PROVE  item \in CoreItems(b) /\ (~IsComplete(item) => AfterDot(item) \in DOMAIN mergedEdges[s])
  <2>1. PICK n \in Numbers : oldToNew[n] = s /\ CoresOf(merged[s]) = old[n] BY <1>6
  <2>2. item \in CoreItems(b) BY <1>2, <1>8, <2>1 DEF Framed
  <2>3. ASSUME ~IsComplete(item) PROVE AfterDot(item) \in DOMAIN mergedEdges[s]
    <3>1. PICK e \in oldEdges[n] : e[1] = AfterDot(item) BY <1>2, <1>8, <2>1, <2>3 DEF Framed
    <3>2. e[1] \in DOMAIN mergedEdges[oldToNew[n]] BY <1>1, <1>3, <3>1 DEF EdgesSoFar
    <3> QED BY <2>1, <3>1, <3>2
  <2> QED BY <2>2, <2>3
<1>14. ASSUME NEW s \in DOMAIN merged, NEW prod \in Elements(b.producers), InitialItem(prod) \in CoresOf(merged[s])
       PROVE  \E item \in CoresOf(merged[s]) : ~IsComplete(item) /\ AfterDot(item) = prod.left
  <2>1. PICK n \in Numbers : oldToNew[n] = s /\ CoresOf(merged[s]) = old[n] BY <1>6, <1>14
  <2> QED BY <1>2, <1>8, <1>14, <2>1 DEF Framed
<1>15. ASSUME NEW s \in DOMAIN merged, NEW X \in DOMAIN mergedEdges[s]
       PROVE  /\ X \in OwnSymbols(b) /\ mergedEdges[s][X] \in DOMAIN merged \ {0}
              /\ \A item \in CoresOf(merged[mergedEdges[s][X]]) :
                   item.dot > 0 => item.right[item.dot] = X /\ Retreat(item) \in CoresOf(merged[s])
  <2>1. PICK n \in Numbers : \E e \in oldEdges[n] :
          e[1] = X /\ oldToNew[n] = s /\ e[2] \in Numbers /\ mergedEdges[s][X] = oldToNew[e[2]]
    BY <1>7
  <2>2. PICK e \in oldEdges[n] :
          e[1] = X /\ oldToNew[n] = s /\ e[2] \in Numbers /\ mergedEdges[s][X] = oldToNew[e[2]]
    BY <2>1
  <2>3. CoresOf(merged[s]) = old[n] /\ CoresOf(merged[mergedEdges[s][X]]) = old[e[2]]
        /\ mergedEdges[s][X] \in DOMAIN merged
    BY <1>5, <2>2
  <2>4. /\ e[1] \in OwnSymbols(b) /\ e[2] # 0
        /\ \A item \in old[e[2]] : item.dot > 0 => item.right[item.dot] = e[1] /\ Retreat(item) \in old[n]
    BY <1>2, <1>8 DEF Framed
  <2>5. mergedEdges[s][X] # 0
    <3> SUFFICES ASSUME mergedEdges[s][X] = 0 PROVE FALSE OBVIOUS
    <3>1. StartItem(b) \in CoresOf(nodes[0])
      <4>1. IsBuild(b) /\ NodesFit BY <1>1 DEF BuilderInv
      <4> QED BY <4>1, StartEnds DEF NodesFit
    <3>2. StartItem(b) \in old[0] BY <1>4, <3>1 DEF old
    <3>3. StartItem(b) \in old[e[2]] BY <1>10, <2>3, <3>2
    <3> QED BY <1>2, <1>8, <2>2, <2>4, <3>3 DEF Framed
  <2> QED BY <2>2, <2>3, <2>4, <2>5
<1>16. ASSUME NEW s \in DOMAIN merged, NEW e \in edges[s]
       PROVE  e[1] \in DOMAIN mergedEdges[s] /\ e[2] = mergedEdges[s][e[1]]
  BY <1>9
<1>17. \A s \in DOMAIN merged : \A X \in DOMAIN mergedEdges[s] : \E e \in edges[s] : e[1] = X
  <2> SUFFICES ASSUME NEW s \in DOMAIN merged, NEW X \in DOMAIN mergedEdges[s] PROVE \E e \in edges[s] : e[1] = X
    OBVIOUS
  <2>1. <<X, mergedEdges[s][X]>> \in edges[s] BY <1>9
  <2> QED BY <2>1
<1>18. DOMAIN cores = DOMAIN merged /\ \A s \in DOMAIN merged : cores[s] = CoresOf(merged[s]) OBVIOUS
<1> HIDE DEF b, cores, edges
<1>19. Framed(b, cores, edges) BY <1>10, <1>11, <1>12, <1>13, <1>14, <1>15, <1>16, <1>17, <1>18 DEF Framed
<1> QED BY <1>19 DEF b, cores, edges

-----------------------------------------------------------------------------
(***************************************************************************)
(* What the table builder reads stays as it was when it was called.        *)
(***************************************************************************)
ReadItems ==
  IF converting = "done" THEN merged
  ELSE IF build.canonical THEN nodes ELSE Propagated(HandedOver, MergedCanonical(HandedOver))
ReadEdges == IF converting = "done" THEN [n \in DOMAIN merged |-> MergedEdges(n)] ELSE nodeEdges

FillsFrom ==
  /\ converting # "idle" => build.canonical
  /\ filling # "idle" => /\ building = "done" /\ converting \in {"idle", "done"}
                         /\ grammar = input /\ automaton = Readable(ReadItems, ReadEdges)
FullInv == ExactInv /\ Numbered /\ Received /\ FillsFrom

\* The reading of what does not change.
LEMMA ReadAlike ==
  ASSUME FillsFrom, filling # "idle", UNCHANGED <<vars, builderVars, converterVars>>,
         UNCHANGED <<grammar, automaton>>, filling' # "idle"
  PROVE  FillsFrom'
<1>1. /\ UNCHANGED <<input, first, nodes, nodeEdges, build, building, converting, merged, mergedEdges>>
  BY DEF vars, builderVars, converterVars
<1>2. HandedOver' = HandedOver BY <1>1 DEF HandedOver
<1>3. Propagated(HandedOver, MergedCanonical(HandedOver))' = Propagated(HandedOver, MergedCanonical(HandedOver))
  BY <1>2
<1>4. ReadItems' = ReadItems BY <1>1, <1>3 DEF ReadItems
<1>5. \A n : MergedEdges(n)' = MergedEdges(n) BY <1>1 DEF MergedEdges
<1>6. ReadEdges' = ReadEdges BY <1>1, <1>5 DEF ReadEdges
<1>7. automaton' = Readable(ReadItems, ReadEdges)'
  <2>1. automaton' = Readable(ReadItems, ReadEdges) BY DEF FillsFrom
  <2>2. Readable(ReadItems, ReadEdges)' = Readable(ReadItems, ReadEdges) BY <1>1, <1>4, <1>6 DEF Readable
  <2> QED BY <2>1, <2>2
<1> QED BY <1>1, <1>7 DEF FillsFrom

LEMMA FillFromFills ==
  ASSUME building = "done", converting \in {"idle", "done"}, converting # "idle" => build.canonical,
         FillFrom(Readable(ReadItems, ReadEdges))
  PROVE  FillsFrom'
<1>1. /\ grammar' = input /\ automaton' = Readable(ReadItems, ReadEdges) /\ UNCHANGED vars
      /\ UNCHANGED builderVars /\ UNCHANGED converterVars
  BY DEF FillFrom, BuildTable
<1>2. UNCHANGED <<input, first, nodes, nodeEdges, build, building, converting, merged, mergedEdges>>
  BY <1>1 DEF vars, builderVars, converterVars
<1>3. HandedOver' = HandedOver BY <1>2 DEF HandedOver
<1>4. Propagated(HandedOver, MergedCanonical(HandedOver))' = Propagated(HandedOver, MergedCanonical(HandedOver))
  BY <1>3
<1>5. ReadItems' = ReadItems BY <1>2, <1>4 DEF ReadItems
<1>6. \A n : MergedEdges(n)' = MergedEdges(n) BY <1>2 DEF MergedEdges
<1>7. ReadEdges' = ReadEdges BY <1>2, <1>6 DEF ReadEdges
<1>8. Readable(ReadItems, ReadEdges)' = Readable(ReadItems, ReadEdges) BY <1>2, <1>5, <1>7 DEF Readable
<1> QED BY <1>1, <1>2, <1>8 DEF FillsFrom

LEMMA FillsKeep ==
  ASSUME ExactInv, FillsFrom, [PipelineNext]_pipelineVars
  PROVE  FillsFrom'
<1>1. CoreInv /\ Linked /\ (converting # "idle" => building = "done" /\ build.canonical)
      /\ (filling # "idle" => building = "done" /\ converting \in {"idle", "done"})
  BY DEF ExactInv, CoreInv, PipelineInv, FillsFrom
<1>2. CASE ComputeSets
  <2>1. Next /\ UNCHANGED builderVars /\ UNCHANGED converterVars /\ UNCHANGED tableVars BY <1>2 DEF ComputeSets
  <2>2. pc # "done"
    BY <2>1 DEF Next, FirstProduction, RepeatFirst, StartFollow, FollowSymbol, NextProduction, RepeatFollow, Finish
  <2>3. building = "idle" BY <1>1, <2>2 DEF Linked
  <2>4. filling = "idle" /\ converting = "idle" BY <1>1, <2>3
  <2> QED BY <2>1, <2>4 DEF FillsFrom, converterVars, tableVars
<1>3. CASE StartBuild
  <2>1. building = "idle" /\ UNCHANGED converterVars /\ UNCHANGED tableVars BY <1>3 DEF StartBuild, BuildAutomaton
  <2>2. filling = "idle" /\ converting = "idle" BY <1>1, <2>1
  <2> QED BY <2>1, <2>2 DEF FillsFrom, converterVars, tableVars
<1>4. CASE Build
  <2>1. BuilderNext /\ UNCHANGED converterVars /\ UNCHANGED tableVars BY <1>4 DEF Build
  <2>2. building # "done" BY <2>1 DEF BuilderNext, Pop, Expand, FinishNode, FinishBuild
  <2>3. filling = "idle" /\ converting = "idle" BY <1>1, <2>2
  <2> QED BY <2>1, <2>3 DEF FillsFrom, converterVars, tableVars
<1>5. CASE StartConversion
  <2>1. build.canonical /\ filling = "idle" /\ UNCHANGED builderVars /\ UNCHANGED tableVars BY <1>5 DEF StartConversion
  <2> QED BY <2>1 DEF FillsFrom, builderVars, tableVars
<1>6. CASE Convert
  <2>1. ConverterNext /\ UNCHANGED builderVars /\ UNCHANGED tableVars BY <1>6 DEF Convert
  <2>2. converting \notin {"idle", "done"}
    BY <2>1 DEF ConverterNext, JoinGroup, NewGroup, StartMerge, MergeGroup, StartEdges, RewriteEdges, FinishEdges
  <2>3. filling = "idle" /\ build.canonical BY <1>1, <2>2
  <2> QED BY <2>1, <2>3 DEF FillsFrom, builderVars, tableVars
<1>7. CASE FillFromCanonical
  <2>1. /\ building = "done" /\ build.canonical /\ converting = "idle" /\ FillFrom(Readable(nodes, nodeEdges))
    BY <1>7 DEF FillFromCanonical
  <2>2. ReadItems = nodes /\ ReadEdges = nodeEdges BY <2>1 DEF ReadItems, ReadEdges
  <2> QED BY <2>1, <2>2, FillFromFills
<1>8. CASE FillFromMerged
  <2>1. converting = "done" /\ FillFrom(Readable(merged, [n \in DOMAIN merged |-> MergedEdges(n)]))
    BY <1>8 DEF FillFromMerged
  <2>2. ReadItems = merged /\ ReadEdges = [n \in DOMAIN merged |-> MergedEdges(n)] BY <2>1 DEF ReadItems, ReadEdges
  <2> QED BY <1>1, <2>1, <2>2, FillFromFills
<1>9. CASE FillFromPropagated
  <2>1. /\ building = "done" /\ ~build.canonical
        /\ FillFrom(Readable(Propagated(HandedOver, MergedCanonical(HandedOver)), nodeEdges))
    BY <1>9 DEF FillFromPropagated
  <2>2. converting = "idle" BY <1>1, <2>1
  <2>3. ReadItems = Propagated(HandedOver, MergedCanonical(HandedOver)) /\ ReadEdges = nodeEdges
    BY <2>1, <2>2 DEF ReadItems, ReadEdges
  <2> QED BY <2>1, <2>2, <2>3, FillFromFills
<1>10. CASE Fill \/ UNCHANGED pipelineVars
  <2>1. /\ UNCHANGED vars /\ UNCHANGED builderVars /\ UNCHANGED converterVars
        /\ UNCHANGED <<grammar, automaton>> /\ (filling' # "idle" <=> filling # "idle")
    BY <1>10 DEF Fill, pipelineVars, tableVars, TableNext, ReadEdge, TurnToItems, ReadItem, NextRow, FinishTable
  <2>2. CASE filling # "idle" BY <2>1, <2>2, ReadAlike
  <2>3. CASE filling = "idle" BY <2>1, <2>3 DEF FillsFrom, converterVars, builderVars
  <2> QED BY <2>2, <2>3
<1> QED BY <1>2, <1>3, <1>4, <1>5, <1>6, <1>7, <1>8, <1>9, <1>10 DEF PipelineNext

LEMMA FullKeeps ==
  ASSUME FullInv, [PipelineNext]_pipelineVars
  PROVE  FullInv'
<1>1. ExactInv /\ Numbered /\ Received /\ FillsFrom /\ BuilderInv /\ ConversionInv
      /\ (converting # "idle" => building = "done" /\ canonical.items = nodes)
  BY DEF FullInv, ExactInv, CoreInv, PipelineInv
<1>2. ExactInv' /\ FillsFrom' BY <1>1, ExactKeeps, FillsKeep
<1>3. CASE StartConversion
  <2> DEFINE c == [items |-> nodes, edges |-> [n \in DOMAIN nodes |-> Elements(nodeEdges[n])]]
  <2>1. ConvertAutomaton(c) /\ UNCHANGED builderVars BY <1>3 DEF StartConversion
  <2>2. c.edges = [n \in DOMAIN nodes |-> Elements(nodeEdges[n])] OBVIOUS
  <2> HIDE DEF c
  <2>3. Numbered' BY <1>1, <2>1, NumberedStarts
  <2>4. Received' BY <2>1, <2>2 DEF Received, ConvertAutomaton, builderVars
  <2> QED BY <1>2, <2>3, <2>4 DEF FullInv
<1>4. CASE Convert
  <2>1. ConverterNext /\ UNCHANGED builderVars BY <1>4 DEF Convert
  <2>2. converting # "idle" /\ canonical' = canonical BY <1>1, <2>1, ConverterKeeps
  <2>3. 0 \in OldNodes
    <3>1. PICK k \in Nat : Numbers = 0 .. k BY <1>1, <2>2, Built
    <3> QED BY <1>1, <2>2, <3>1 DEF OldNodes, Numbers
  <2>4. Numbered' BY <1>1, <2>1, <2>3, StaysNumbered
  <2>5. Received' BY <1>1, <2>1, <2>2 DEF Received, builderVars
  <2> QED BY <1>2, <2>4, <2>5 DEF FullInv
<1>5. CASE UNCHANGED converterVars /\ (converting # "idle" => UNCHANGED builderVars)
  <2>1. UNCHANGED <<groups, oldToNew, converting, at, canonical>> BY <1>5 DEF converterVars
  <2>2. Numbered' BY <1>1, <2>1 DEF Numbered
  <2>3. Received' BY <1>1, <1>5, <2>1 DEF Received, builderVars
  <2> QED BY <1>2, <2>2, <2>3 DEF FullInv
<1>6. ASSUME ComputeSets \/ StartBuild \/ Build \/ FillFromCanonical \/ FillFromMerged \/ FillFromPropagated \/ Fill
             \/ UNCHANGED pipelineVars
      PROVE  UNCHANGED converterVars /\ (converting # "idle" => UNCHANGED builderVars)
  <2>1. CASE StartBuild \/ Build
    <3>1. building # "done" /\ UNCHANGED converterVars
      BY <2>1 DEF StartBuild, BuildAutomaton, Build, BuilderNext, Pop, Expand, FinishNode, FinishBuild
    <3> QED BY <1>1, <3>1
  <2>2. CASE ~ (StartBuild \/ Build)
    BY <1>6, <2>2 DEF ComputeSets, FillFromCanonical, FillFromMerged, FillFromPropagated, FillFrom, Fill, pipelineVars
  <2> QED BY <2>1, <2>2
<1> QED BY <1>3, <1>4, <1>5, <1>6 DEF PipelineNext

LEMMA FullStarts == PipelineInit => FullInv
<1> SUFFICES ASSUME PipelineInit PROVE FullInv OBVIOUS
<1>1. building = "idle" /\ filling = "idle" /\ converting = "idle" /\ groups = <<>> /\ at = 0
  BY DEF PipelineInit, BuilderInit, TableInit, ConverterInit
<1>2. ExactInv BY <1>1, CoreStarts, SetsStart DEF ExactInv, NodesReached
<1>3. Numbered BY <1>1 DEF Numbered
<1> QED BY <1>1, <1>2, <1>3 DEF FullInv, Received, FillsFrom

-----------------------------------------------------------------------------
(***************************************************************************)
(* The lookaheads of an automaton are tokens, closed within a state and    *)
(* along the edges: those of the canonical automaton, and those that are   *)
(* propagated.                                                             *)
(***************************************************************************)
Predicted(g, fst, looks, edges) ==
  /\ <<StartItem(g), EndMarker>> \in looks[0]
  /\ \A s \in DOMAIN looks :
       /\ GoodItems(g, looks[s])
       /\ \A x \in looks[s] :
            /\ ClosureItems(g, x[1]) \X FollowingPredicts(fst, x[1], x[2]) \subseteq looks[s]
            /\ \A e \in edges[s] : DotBefore(x[1], e[1]) => <<Advance(x[1]), x[2]>> \in looks[e[2]]

LEMMA AfterDotIsOwn ==
  ASSUME NEW b, HasProducers(b), NEW item \in CoreItems(b), ~IsComplete(item)
  PROVE  AfterDot(item) \in OwnSymbols(b)
<1>1. item.right \in Seq(OwnSymbols(b)) /\ item.dot \in 0 .. Len(item.right) BY CoreItemsShape
<1>2. item.dot + 1 \in 1 .. Len(item.right) BY <1>1 DEF IsComplete
<1> QED BY <1>1, <1>2 DEF AfterDot

\* What follows a nonterminal in an item is a terminal, or the lookahead.
LEMMA PredictsAreTokens ==
  ASSUME IInv, FirstOfTerminals, NEW c, SameGrammar(c, input), HasProducers(c), NEW item \in CoreItems(c), NEW a
  PROVE  FollowingPredicts(first, item, a) \subseteq TerminalsOf(c) \cup {a}
<1>1. CASE IsComplete(item) BY <1>1 DEF FollowingPredicts
<1>2. CASE ~IsComplete(item)
  <2>1. FollowingPredicts(first, item, a) = FirstOfSequence(first, item.right, item.dot + 2, a)
    BY <1>2 DEF FollowingPredicts
  <2>2. PICK prod \in AllProductions(c) : item \in ItemsFrom(prod) BY CoreItemsShape
  <2>3. item.right = prod.right /\ item.dot + 2 \in Nat \ {0}
    <3>1. item.right = prod.right /\ item.dot \in 0 .. Len(prod.right) BY <2>2 DEF ItemsFrom
    <3>2. Len(prod.right) \in Nat BY ProductionShape
    <3> QED BY <3>1, <3>2
  <2>4. AllProductions(c) = AllProductions(input) BY SameItems
  <2>5. TerminalsOf(c) = TerminalsOf(input) BY <2>4 DEF TerminalsOf, IsNonterminal, SameGrammar
  <2>6. FirstOfSequence(first, item.right, item.dot + 2, a) \subseteq TerminalsOf(input) \cup {a}
    BY <2>2, <2>3, <2>4, SequencesBeginWithTerminals
  <2> QED BY <2>1, <2>5, <2>6
<1> QED BY <1>1, <1>2

LEMMA GoodClosure ==
  ASSUME IInv, FirstOfTerminals, NEW c, SameGrammar(c, input), HasFirst(c, first), AugmentedStart \notin OwnSymbols(c),
         NEW K \in SUBSET PairItems(c), GoodItems(c, K)
  PROVE  GoodItems(c, Lr1Closure(c, first, K))
<1> DEFINE C == Lr1Closure(c, first, K)
           new(x) == ClosureItems(c, x[1]) \X FollowingPredicts(first, x[1], x[2])
           good(x) == x[2] \in TokensOf(c) /\ (x[1].left = AugmentedStart => x[2] = EndMarker)
           Z == {x \in C : good(x)}
<1>1. HasProducers(c) BY DEF HasFirst
<1>2. /\ K \subseteq C /\ C \subseteq PairItems(c) /\ C \subseteq Pairs(c, K) /\ \A x \in C : new(x) \subseteq C
      /\ \A Y \in SUBSET Pairs(c, K) : K \subseteq Y /\ (\A x \in Y : new(x) \subseteq Y) => C \subseteq Y
  BY Lr1ClosureEnds
<1> HIDE DEF C
<1>3. K \subseteq Z BY <1>2 DEF GoodItems
<1>4. ASSUME NEW x \in Z, NEW z \in new(x) PROVE z \in Z
  <2>1. z \in C /\ z[1] \in ClosureItems(c, x[1]) /\ z[2] \in FollowingPredicts(first, x[1], x[2]) BY <1>2
  <2>2. x[1] \in CoreItems(c) BY <1>2 DEF PairItems
  <2>3. ~IsComplete(x[1]) /\ AfterDot(x[1]) = z[1].left BY <2>1, AddedIsAsked
  <2>4. z[1].left # AugmentedStart BY <1>1, <2>2, <2>3, AfterDotIsOwn
  <2>5. z[2] \in TerminalsOf(c) \cup {x[2]} BY <1>1, <2>1, <2>2, PredictsAreTokens
  <2>6. z[2] \in TokensOf(c) BY <2>5 DEF TokensOf
  <2> QED BY <2>1, <2>4, <2>6
<1>5. Z \in SUBSET Pairs(c, K) /\ \A x \in Z : new(x) \subseteq Z BY <1>2, <1>4
<1>6. C \subseteq Z
  <2> HIDE DEF Z
  <2> QED BY <1>2, <1>3, <1>5
<1> QED BY <1>6 DEF GoodItems, C

LEMMA GoodSets ==
  ASSUME IInv, FirstOfTerminals, NEW c, SameGrammar(c, input), HasFirst(c, first), AugmentedStart \notin OwnSymbols(c)
  PROVE  /\ GoodItems(c, Lr1Start(c, first))
         /\ \A items \in SUBSET PairItems(c) : GoodItems(c, items) =>
              \A X : GoodItems(c, Lr1Goto(c, first, items, X))
<1>1. HasProducers(c) BY DEF HasFirst
<1>2. GoodItems(c, Lr1Start(c, first))
  <2> DEFINE K == {<<StartItem(c), EndMarker>>}
  <2>1. K \in SUBSET PairItems(c) BY <1>1, StartPair
  <2>2. GoodItems(c, K) BY DEF GoodItems, TokensOf
  <2>3. Lr1Start(c, first) = Lr1Closure(c, first, K) BY DEF Lr1Start
  <2> HIDE DEF K
  <2> QED BY <2>1, <2>2, <2>3, GoodClosure
<1>3. ASSUME NEW items \in SUBSET PairItems(c), GoodItems(c, items), NEW X PROVE GoodItems(c, Lr1Goto(c, first, items, X))
  <2>1. Moved(items, X) \in SUBSET PairItems(c) BY <1>1, MovedPairs
  <2>2. GoodItems(c, Moved(items, X))
    <3>1. ASSUME NEW item \in CoreItems(c) PROVE Advance(item).left = item.left
      <4>1. PICK prod \in AllProductions(c) : item \in ItemsFrom(prod) BY <1>1, CoreItemsShape
      <4> QED BY <4>1 DEF ItemsFrom, Advance
    <3>2. \A x \in items : x[1] \in CoreItems(c) BY DEF PairItems
    <3> QED BY <1>3, <3>1, <3>2 DEF GoodItems, Moved
  <2>3. Lr1Goto(c, first, items, X) = Lr1Closure(c, first, Moved(items, X)) BY DEF Lr1Goto, Moved
  <2> QED BY <2>1, <2>2, <2>3, GoodClosure
<1> QED BY <1>2, <1>3

\* The cores of a closure are in every set of items that has the kernel and is closed.
LEMMA CoresWithin ==
  ASSUME NEW c, NEW fst, HasFirst(c, fst), NEW K \in SUBSET PairItems(c), NEW S,
         \A item \in S : ClosureItems(c, item) \subseteq S, CoresOf(K) \subseteq S
  PROVE  CoresOf(Lr1Closure(c, fst, K)) \subseteq S
<1> DEFINE C == Lr1Closure(c, fst, K)
           new(x) == ClosureItems(c, x[1]) \X FollowingPredicts(fst, x[1], x[2])
           Z == {x \in C : x[1] \in S}
<1>1. /\ K \subseteq C /\ C \subseteq Pairs(c, K) /\ \A x \in C : new(x) \subseteq C
      /\ \A Y \in SUBSET Pairs(c, K) : K \subseteq Y /\ (\A x \in Y : new(x) \subseteq Y) => C \subseteq Y
  BY Lr1ClosureEnds
<1> HIDE DEF C
<1>2. K \subseteq Z BY <1>1 DEF CoresOf
<1>3. \A x \in Z : new(x) \subseteq Z BY <1>1
<1>4. Z \in SUBSET Pairs(c, K) BY <1>1
<1>5. C \subseteq Z
  <2> HIDE DEF Z
  <2> QED BY <1>1, <1>2, <1>3, <1>4
<1> QED BY <1>5 DEF CoresOf, C

LEMMA CanonicalPredicts ==
  ASSUME ExactInv, building = "done", build.canonical
  PROVE  Predicted(build, first, nodes, [n \in Numbers |-> Elements(nodeEdges[n])])
<1> DEFINE b == build
           edges == [n \in Numbers |-> Elements(nodeEdges[n])]
<1>1. /\ CoreInv /\ SetsInv /\ IInv /\ FirstOfTerminals /\ NodesClosed /\ Linked /\ NodesReached
      /\ BuilderInv /\ IsBuild(b) /\ NodesFit /\ EdgesFit
  BY DEF ExactInv, CoreInv, PipelineInv, BuilderInv
<1>2. SameGrammar(b, input) /\ input \in Grammars /\ b.first = FirstTable(input) /\ b.first = first
      /\ HasFirst(b, b.first)
  BY <1>1, BuiltFromTheTable DEF Linked, IsBuild
<1>3. AugmentedStart \notin OwnSymbols(b) BY <1>2, OwnOrForeign
<1>4. /\ ItemsIn(b) = PairItems(b) /\ StartItems(b) = Lr1Start(b, first)
      /\ \A items \in SUBSET PairItems(b) : \A X : GotoOf(b, items, X) = Lr1Goto(b, first, items, X)
  <2>1. SameGrammar(b, b) BY DEF SameGrammar
  <2> QED BY <1>1, <1>2, <2>1, CanonicalSets
<1>5. ASSUME NEW n \in Numbers PROVE GoodItems(b, nodes[n]) /\ nodes[n] \in SUBSET PairItems(b)
  <2> DEFINE Z == {items \in SUBSET PairItems(b) : GoodItems(b, items)}
  <2> HIDE DEF b
  <2>1. /\ GoodItems(b, Lr1Start(b, first))
        /\ \A items \in SUBSET PairItems(b) : GoodItems(b, items) =>
             \A X : GoodItems(b, Lr1Goto(b, first, items, X))
    BY <1>1, <1>2, <1>3, GoodSets
  <2>2. /\ Lr1Start(b, first) \in SUBSET PairItems(b)
        /\ \A items \in SUBSET PairItems(b) : \A X : Lr1Goto(b, first, items, X) \in SUBSET PairItems(b)
    BY <1>2, Lr1Sets
  <2>3. StartItems(b) \in Z BY <1>4, <2>1, <2>2
  <2>4. \A items \in Z : \A X : GotoOf(b, items, X) \in Z BY <1>4, <2>1, <2>2
  <2>5. Z \in SUBSET SUBSET ItemsIn(b) BY <1>4
  <2>6. nodes[n] \in CollectionOf(b, input) BY <1>1 DEF NodesReached, b
  <2>7. nodes[n] \in Z
    <3> HIDE DEF Z
    <3>1. IsCollection(b, Z) BY <2>3, <2>4, <2>5 DEF IsCollection
    <3> QED BY <1>1, <1>2, <2>6, <3>1, CollectionIsLeast
  <2> QED BY <2>7
<1>6. <<StartItem(b), EndMarker>> \in nodes[0]
  <2> DEFINE K == {<<StartItem(b), EndMarker>>}
  <2>1. K \in SUBSET ItemsIn(b) BY <1>2, <1>4, StartPair DEF HasFirst
  <2>2. nodes[0] = ClosureOf(b, K) BY <1>1 DEF NodesFit, StartItems
  <2>3. <<StartItem(b), EndMarker>> \in K OBVIOUS
  <2> HIDE DEF K
  <2> QED BY <1>1, <2>1, <2>2, <2>3, ClosureOfEnds
<1>7. ASSUME NEW n \in Numbers, NEW x \in nodes[n]
      PROVE  /\ ClosureItems(b, x[1]) \X FollowingPredicts(first, x[1], x[2]) \subseteq nodes[n]
             /\ \A e \in edges[n] : DotBefore(x[1], e[1]) => <<Advance(x[1]), x[2]>> \in nodes[e[2]]
  <2>1. ClosureItems(b, x[1]) \X FollowingPredicts(first, x[1], x[2]) \subseteq nodes[n]
    BY <1>1, <1>2 DEF NodesClosed, Closed
  <2>2. ASSUME NEW e \in Elements(nodeEdges[n]), DotBefore(x[1], e[1])
        PROVE  <<Advance(x[1]), x[2]>> \in nodes[e[2]]
    <3>1. nodes[e[2]] = GotoOf(b, nodes[n], e[1]) BY <1>1 DEF EdgesFit
    <3>2. <<Advance(x[1]), x[2]>> \in Moved(nodes[n], e[1]) BY <2>2 DEF Moved
    <3>3. nodes[n] \in SUBSET ItemsIn(b) BY <1>4, <1>5
    <3> QED BY <1>1, <3>1, <3>2, <3>3, GotoEnds
  <2> QED BY <2>1, <2>2
<1>8. DOMAIN nodes = Numbers BY DEF Numbers
<1> HIDE DEF b, edges
<1>9. Predicted(b, first, nodes, edges) BY <1>5, <1>6, <1>7, <1>8 DEF Predicted
<1> QED BY <1>9 DEF b, edges

\* The walk of the merged canonical automaton: each item set is that of a closure, and has its
\* cores in the node it is reached with.
LEMMA WalkPredicts ==
  ASSUME CoreInv, NEW c, IsCore(c), SameGrammar(c, input), c.first = first, AugmentedStart \notin OwnSymbols(c)
  PROVE  \E R : /\ MergedCanonical(c) = FactsOf(R) /\ IsWalk(c, R)
                /\ \A pair \in R :
                     /\ GoodItems(c, pair[2]) /\ CoresOf(pair[2]) \subseteq ItemsOf(c, pair[1])
                     /\ \A x \in pair[2] :
                          ClosureItems(c, x[1]) \X FollowingPredicts(first, x[1], x[2]) \subseteq pair[2]
<1>1. IInv /\ FirstOfTerminals BY DEF CoreInv, PipelineInv
<1>2. HasFirst(c, first) /\ HasProducers(c) /\ c.states \in Nat \ {0} BY DEF IsCore, HasFirst
<1> DEFINE full(items) == \A x \in items : ClosureItems(c, x[1]) \X FollowingPredicts(first, x[1], x[2]) \subseteq items
           Z == {pair \in States(c) \X SUBSET PairItems(c) :
                   /\ GoodItems(c, pair[2]) /\ CoresOf(pair[2]) \subseteq ItemsOf(c, pair[1]) /\ full(pair[2])}
<1>3. \A s \in States(c) : \A item \in ItemsOf(c, s) : ClosureItems(c, item) \subseteq ItemsOf(c, s) BY DEF IsCore
<1>4. \A K \in SUBSET PairItems(c) : full(Lr1Closure(c, first, K)) BY <1>2, Lr1ClosureEnds
<1>5. <<0, Lr1Start(c, first)>> \in Z
  <2> DEFINE K == {<<StartItem(c), EndMarker>>}
  <2>1. K \in SUBSET PairItems(c) BY <1>2, StartPair
  <2>2. CoresOf(K) \subseteq ItemsOf(c, 0)
    <3>1. StartItem(c) \in ItemsOf(c, 0) BY DEF IsCore
    <3> QED BY <3>1 DEF CoresOf
  <2>3. Lr1Start(c, first) = Lr1Closure(c, first, K) BY DEF Lr1Start
  <2>4. 0 \in States(c) BY <1>2 DEF States
  <2>5. GoodItems(c, Lr1Start(c, first)) BY <1>1, <1>2, GoodSets
  <2>6. Lr1Start(c, first) \in SUBSET PairItems(c) BY <1>2, Lr1Sets
  <2> HIDE DEF K, full
  <2>7. CoresOf(Lr1Start(c, first)) \subseteq ItemsOf(c, 0) BY <1>2, <1>3, <2>1, <2>2, <2>3, <2>4, CoresWithin
  <2> QED BY <1>4, <2>1, <2>3, <2>4, <2>5, <2>6, <2>7
<1>6. ASSUME NEW pair \in Z, NEW e \in Elements(c.edges[pair[1]])
      PROVE  <<e[2], Lr1Goto(c, first, pair[2], e[1])>> \in Z
  <2> DEFINE s == pair[1]
             K == Moved(pair[2], e[1])
             goto == Lr1Goto(c, first, pair[2], e[1])
  <2>1. s \in States(c) /\ pair[2] \in SUBSET PairItems(c) /\ GoodItems(c, pair[2]) /\ CoresOf(pair[2]) \subseteq ItemsOf(c, s)
    OBVIOUS
  <2>2. c.edges[s] \in Seq(Elements(c.edges[s])) BY <2>1 DEF IsCore
  <2>3. PICK k \in 1 .. Len(c.edges[s]) : e = c.edges[s][k] BY <2>2 DEF Elements
  <2>4. /\ e[2] \in States(c)
        /\ \A item \in ItemsOf(c, s) : DotBefore(item, e[1]) => Advance(item) \in ItemsOf(c, e[2])
    BY <2>1, <2>3 DEF IsCore, EdgeTarget, EdgeSymbol
  <2>5. K \in SUBSET PairItems(c) BY <1>2, <2>1, MovedPairs
  <2>6. CoresOf(K) \subseteq ItemsOf(c, e[2]) BY <2>1, <2>4, MovedCores
  <2>7. goto = Lr1Closure(c, first, K) BY DEF Lr1Goto, Moved
  <2>8. goto \in SUBSET PairItems(c) BY <1>2, <2>1, Lr1Sets
  <2>9. GoodItems(c, goto) BY <1>1, <1>2, <2>1, GoodSets
  <2> HIDE DEF K, full
  <2>10. CoresOf(goto) \subseteq ItemsOf(c, e[2]) BY <1>2, <1>3, <2>4, <2>5, <2>6, <2>7, CoresWithin
  <2> QED BY <1>4, <2>4, <2>5, <2>7, <2>8, <2>9, <2>10
<1>7. Z \in SUBSET (States(c) \X SUBSET PairItems(c)) OBVIOUS
<1>8. \A pair \in Z : GoodItems(c, pair[2]) /\ CoresOf(pair[2]) \subseteq ItemsOf(c, pair[1]) /\ full(pair[2]) OBVIOUS
<1>9. IsWalk(c, Z)
  <2> HIDE DEF Z
  <2> QED BY <1>5, <1>6, <1>7 DEF IsWalk
<1> HIDE DEF Z
<1>10. PICK R : /\ MergedCanonical(c) = FactsOf(R) /\ IsWalk(c, R)
                /\ \A Y : IsWalk(c, Y) => R \subseteq Y
  BY MergedCanonicalIsLeast
<1>11. R \subseteq Z BY <1>9, <1>10
<1> QED BY <1>8, <1>10, <1>11

\* The grammar decides, not the record that it is kept in.
LEMMA SamePredicted ==
  ASSUME NEW g, NEW b, SameGrammar(g, b), NEW fst, NEW looks, NEW edges, Predicted(g, fst, looks, edges)
  PROVE  Predicted(b, fst, looks, edges)
<1>1. StartItem(g) = StartItem(b) /\ \A item : ClosureItems(g, item) = ClosureItems(b, item) BY SameItems
<1>2. TokensOf(g) = TokensOf(b)
  <2>1. AllProductions(g) = AllProductions(b) BY SameItems
  <2> QED BY <2>1 DEF TokensOf, TerminalsOf, IsNonterminal, SameGrammar
<1> QED BY <1>1, <1>2 DEF Predicted, GoodItems

LEMMA SameFrame ==
  ASSUME NEW g, NEW b, SameGrammar(g, b), NEW cores, NEW edges, Framed(g, cores, edges)
  PROVE  Framed(b, cores, edges)
<1>1. StartItem(g) = StartItem(b) /\ CoreItems(g) = CoreItems(b) /\ OwnSymbols(g) = OwnSymbols(b) BY SameItems
<1>2. g.producers = b.producers BY DEF SameGrammar
<1> QED BY <1>1, <1>2 DEF Framed

\* The items that the LR(0) automaton is handed over with.
LEMMA HandedItems ==
  ASSUME BuilderInv, building = "done", ~build.canonical, NEW n \in Numbers
  PROVE  ItemsOf(HandedOver, n) = CoresOf(nodes[n])
<1>1. IsBuild(build) /\ nodes[n] \in SUBSET (CoreItems(build) \X {NoLookahead}) BY DEF BuilderInv, NodesFit, ItemsIn
<1>2. CoresOf(nodes[n]) \in SUBSET CoreItems(build) BY <1>1 DEF CoresOf
<1>3. IsFiniteSet(CoreItems(build)) BY <1>1, CoreItemsShape DEF IsBuild, HasFirst
<1>4. IsFiniteSet(CoresOf(nodes[n])) BY <1>2, <1>3, FS_Subset
<1>5. HandedOver.items[n] = Enumerate(CoresOf(nodes[n])) BY DEF HandedOver, Numbers
<1> QED BY <1>4, <1>5, EnumerateLists DEF ItemsOf

LEMMA PropagatedPredicts ==
  ASSUME ExactInv, building = "done", ~build.canonical
  PROVE  LET looks == Propagated(HandedOver, MergedCanonical(HandedOver))
         IN  /\ DOMAIN looks = Numbers /\ \A n \in Numbers : CoresOf(looks[n]) \subseteq CoresOf(nodes[n])
             /\ Predicted(build, first, looks, [n \in Numbers |-> Elements(nodeEdges[n])])
<1> DEFINE c == HandedOver
           facts == MergedCanonical(c)
           looks == Propagated(c, facts)
           edges == [n \in Numbers |-> Elements(nodeEdges[n])]
<1>1. CoreInv /\ BuilderInv /\ Linked /\ IInv /\ input \in Grammars
  BY DEF ExactInv, CoreInv, PipelineInv, IInv, TypeOK
<1>2. IsCore(c) BY <1>1, HandsOverCore
<1>3. /\ SameGrammar(c, input) /\ SameGrammar(c, build) /\ c.first = first /\ c.edges = nodeEdges
      /\ DOMAIN c.items = Numbers
  BY <1>1 DEF HandedOver, SameGrammar, Linked, Numbers
<1>4. \A n \in Numbers : ItemsOf(c, n) = CoresOf(nodes[n]) BY <1>1, HandedItems
<1>5. looks = [n \in Numbers |-> {<<f[2], f[3]>> : f \in {h \in facts : h[1] = n}}] BY <1>3 DEF Propagated
<1>6. AugmentedStart \notin OwnSymbols(c) BY <1>1, <1>3, OwnOrForeign
<1>7. \A n \in Numbers : \A e \in edges[n] : e \in Elements(c.edges[n]) BY <1>3
<1>8. States(c) = Numbers BY <1>2, <1>3 DEF IsCore
<1>9. \A n \in Numbers : \A e \in edges[n] : e[2] \in Numbers
  <2> SUFFICES ASSUME NEW n \in Numbers, NEW e \in edges[n] PROVE e[2] \in Numbers OBVIOUS
  <2>1. nodeEdges[n] \in Seq(Symbols \X Numbers) BY <1>1 DEF BuilderInv, EdgesFit
  <2>2. e \in Symbols \X Numbers BY <2>1 DEF Elements
  <2> QED BY <2>2
<1> HIDE DEF c, facts, edges
<1>10. PICK R : /\ facts = FactsOf(R) /\ IsWalk(c, R)
                /\ \A pair \in R :
                     /\ GoodItems(c, pair[2]) /\ CoresOf(pair[2]) \subseteq ItemsOf(c, pair[1])
                     /\ \A x \in pair[2] :
                          ClosureItems(c, x[1]) \X FollowingPredicts(first, x[1], x[2]) \subseteq pair[2]
  BY <1>1, <1>2, <1>3, <1>6, WalkPredicts DEF facts
<1>11. \A pair \in R : pair[1] \in Numbers /\ pair[2] \in SUBSET PairItems(c)
  <2>1. R \in SUBSET (States(c) \X SUBSET PairItems(c)) BY <1>10 DEF IsWalk
  <2> QED BY <1>8, <2>1
<1>12. \A pair \in R : \A x \in pair[2] : x \in looks[pair[1]]
  <2> SUFFICES ASSUME NEW pair \in R, NEW x \in pair[2] PROVE x \in looks[pair[1]] OBVIOUS
  <2> DEFINE f == <<pair[1], x[1], x[2]>>
  <2>1. f \in facts BY <1>10 DEF FactsOf
  <2>2. x \in PairItems(c) BY <1>11
  <2>3. x = <<x[1], x[2]>> BY <2>2 DEF PairItems
  <2>4. f[1] = pair[1] /\ <<f[2], f[3]>> = x BY <2>3
  <2> HIDE DEF f
  <2>5. <<f[2], f[3]>> \in looks[pair[1]] BY <1>5, <1>11, <2>1, <2>4
  <2> QED BY <2>4, <2>5
<1>13. \A n \in Numbers : \A x \in looks[n] : \E pair \in R : pair[1] = n /\ x \in pair[2]
  <2> SUFFICES ASSUME NEW n \in Numbers, NEW x \in looks[n] PROVE \E pair \in R : pair[1] = n /\ x \in pair[2]
    OBVIOUS
  <2>1. PICK f \in facts : f[1] = n /\ x = <<f[2], f[3]>> BY <1>5
  <2>2. PICK pair \in R : f \in {<<pair[1], y[1], y[2]>> : y \in pair[2]} BY <1>10, <2>1 DEF FactsOf
  <2>3. PICK y \in pair[2] : f = <<pair[1], y[1], y[2]>> BY <2>2
  <2>4. y \in PairItems(c) BY <1>11, <2>3
  <2>5. y = <<y[1], y[2]>> BY <2>4 DEF PairItems
  <2>6. x = y /\ pair[1] = n BY <2>1, <2>3, <2>5
  <2> QED BY <2>3, <2>6
<1>14. DOMAIN looks = Numbers BY <1>5
<1> HIDE DEF looks
<1>15. ASSUME NEW n \in Numbers PROVE CoresOf(looks[n]) \subseteq CoresOf(nodes[n])
  <2> SUFFICES ASSUME NEW x \in looks[n] PROVE x[1] \in CoresOf(nodes[n]) BY DEF CoresOf
  <2>1. PICK pair \in R : pair[1] = n /\ x \in pair[2] BY <1>13
  <2>2. x[1] \in CoresOf(pair[2]) BY <2>1 DEF CoresOf
  <2> QED BY <1>4, <1>10, <2>1, <2>2
<1>16. <<StartItem(c), EndMarker>> \in looks[0]
  <2> DEFINE K == {<<StartItem(c), EndMarker>>}
  <2>1. HasFirst(c, first) /\ HasProducers(c) BY <1>2, <1>3 DEF IsCore, HasFirst
  <2>2. K \in SUBSET PairItems(c) BY <2>1, StartPair
  <2>3. <<StartItem(c), EndMarker>> \in K /\ Lr1Start(c, first) = Lr1Closure(c, first, K) BY DEF Lr1Start
  <2> HIDE DEF K
  <2>4. <<StartItem(c), EndMarker>> \in Lr1Start(c, first) BY <2>1, <2>2, <2>3, Lr1ClosureEnds
  <2>5. <<0, Lr1Start(c, first)>> \in R BY <1>3, <1>10 DEF IsWalk
  <2> QED BY <1>12, <2>4, <2>5
<1>17. \A n \in Numbers : GoodItems(c, looks[n])
  <2> SUFFICES ASSUME NEW n \in Numbers, NEW x \in looks[n]
               PROVE  x[2] \in TokensOf(c) /\ (x[1].left = AugmentedStart => x[2] = EndMarker)
    BY DEF GoodItems
  <2>1. PICK pair \in R : pair[1] = n /\ x \in pair[2] BY <1>13
  <2> QED BY <1>10, <2>1 DEF GoodItems
<1>18. ASSUME NEW n \in Numbers, NEW x \in looks[n]
       PROVE  /\ ClosureItems(c, x[1]) \X FollowingPredicts(first, x[1], x[2]) \subseteq looks[n]
              /\ \A e \in edges[n] : DotBefore(x[1], e[1]) => <<Advance(x[1]), x[2]>> \in looks[e[2]]
  <2>1. PICK pair \in R : pair[1] = n /\ x \in pair[2] BY <1>13
  <2>2. ClosureItems(c, x[1]) \X FollowingPredicts(first, x[1], x[2]) \subseteq looks[n] BY <1>10, <1>12, <2>1
  <2>3. ASSUME NEW e \in edges[n], DotBefore(x[1], e[1]) PROVE <<Advance(x[1]), x[2]>> \in looks[e[2]]
    <3> DEFINE goto == Lr1Goto(c, first, pair[2], e[1])
    <3>1. e[1] \in SymbolsAfterDots(CoresOf(pair[2])) BY <2>1, <2>3 DEF DotBefore, SymbolsAfterDots, CoresOf
    <3>2. e \in Elements(c.edges[pair[1]]) BY <1>7, <2>1
    <3>3. <<e[2], goto>> \in R BY <1>3, <1>10, <3>1, <3>2 DEF IsWalk
    <3>4. <<Advance(x[1]), x[2]>> \in goto
      <4>1. <<Advance(x[1]), x[2]>> \in Moved(pair[2], e[1]) BY <2>1, <2>3 DEF Moved
      <4>2. goto = Lr1Closure(c, first, Moved(pair[2], e[1])) BY DEF Lr1Goto, Moved
      <4>3. HasFirst(c, first) /\ HasProducers(c) BY <1>2, <1>3 DEF IsCore, HasFirst
      <4>4. Moved(pair[2], e[1]) \in SUBSET PairItems(c) BY <1>11, <2>1, <4>3, MovedPairs
      <4> QED BY <4>1, <4>2, <4>3, <4>4, Lr1ClosureEnds
    <3> HIDE DEF goto
    <3> QED BY <1>12, <3>3, <3>4
  <2> QED BY <2>2, <2>3
<1>19. Predicted(c, first, looks, edges) BY <1>14, <1>16, <1>17, <1>18 DEF Predicted
<1>20. Predicted(build, first, looks, edges) BY <1>3, <1>19, SamePredicted
<1> QED BY <1>14, <1>15, <1>20 DEF looks, facts, edges, c

LEMMA LooksAreClosed ==
  ASSUME NEW c, NEW edges, Framed(c, c.items, edges), FollowsEdges(c, edges), DOMAIN c.looks = StateSet(c),
         \A s \in StateSet(c) : CoresOf(c.looks[s]) \subseteq c.items[s], Predicted(c, c.first, c.looks, edges)
  PROVE  LookaheadsClosed(c)
<1>1. <<StartItem(c), EndMarker>> \in c.looks[0] BY DEF Predicted
<1>2. ASSUME NEW s \in StateSet(c), NEW x \in c.looks[s]
      PROVE  /\ ClosureItems(c, x[1]) \X FollowingPredicts(c.first, x[1], x[2]) \subseteq c.looks[s]
             /\ ~IsComplete(x[1]) => /\ AfterDot(x[1]) \in DOMAIN c.next[s]
                                     /\ <<Advance(x[1]), x[2]>> \in c.looks[c.next[s][AfterDot(x[1])]]
  <2>1. ClosureItems(c, x[1]) \X FollowingPredicts(c.first, x[1], x[2]) \subseteq c.looks[s] BY DEF Predicted
  <2>2. ASSUME ~IsComplete(x[1])
        PROVE  /\ AfterDot(x[1]) \in DOMAIN c.next[s]
               /\ <<Advance(x[1]), x[2]>> \in c.looks[c.next[s][AfterDot(x[1])]]
    <3>1. x[1] \in c.items[s] BY DEF CoresOf
    <3>2. PICK e \in edges[s] : e[1] = AfterDot(x[1]) BY <2>2, <3>1 DEF Framed, StateSet
    <3>3. AfterDot(x[1]) \in DOMAIN c.next[s] /\ c.next[s][AfterDot(x[1])] = e[2] BY <3>2 DEF FollowsEdges
    <3>4. DotBefore(x[1], e[1]) BY <2>2, <3>2 DEF DotBefore
    <3>5. <<Advance(x[1]), x[2]>> \in c.looks[e[2]] BY <3>2, <3>4 DEF Predicted
    <3> QED BY <3>3, <3>5
  <2> QED BY <2>1, <2>2
<1> QED BY <1>1, <1>2 DEF LookaheadsClosed

-----------------------------------------------------------------------------
(***************************************************************************)
(* The parser that is emitted is what ParserRuntime takes for granted.     *)
(***************************************************************************)
LEMMA ReadBack ==
  ASSUME FullInv, filling # "idle"
  PROVE  /\ States(automaton) = DOMAIN ReadItems /\ automaton.edges = ReadEdges
         /\ \A n \in States(automaton) : ItemsOf(automaton, n) = ReadItems[n]
<1>1. /\ CoreInv /\ PipelineInv /\ BuilderInv /\ building = "done" /\ converting \in {"idle", "done"}
      /\ automaton = Readable(ReadItems, ReadEdges) /\ ExactInv
  BY DEF FullInv, ExactInv, CoreInv, PipelineInv, FillsFrom
<1>2. (\E k \in Nat : DOMAIN ReadItems = 0 .. k) /\ \A n \in DOMAIN ReadItems : IsFiniteSet(ReadItems[n])
  <2>1. CASE converting = "done" BY <1>1, <2>1, MergedFit DEF ReadItems
  <2>2. CASE converting # "done" /\ build.canonical
    <3>1. ReadItems = nodes BY <2>2 DEF ReadItems
    <3> QED BY <1>1, <3>1, Built DEF Numbers
  <2>3. CASE converting # "done" /\ ~build.canonical
    <3>1. ReadItems = Propagated(HandedOver, MergedCanonical(HandedOver)) BY <2>3 DEF ReadItems
    <3>2. DOMAIN ReadItems = Numbers BY <1>1, <2>3, <3>1, PropagatedPredicts
    <3>3. \A n \in Numbers : IsFiniteSet(ReadItems[n]) BY <1>1, <2>3, <3>1, PropagatedFits
    <3> QED BY <1>1, <3>2, <3>3, Built
  <2> QED BY <2>1, <2>2, <2>3
<1>3. PICK k \in Nat : DOMAIN ReadItems = 0 .. k BY <1>2
<1>4. /\ automaton.states = Cardinality(0 .. k) /\ automaton.edges = ReadEdges
      /\ automaton.items = [n \in 0 .. k |-> Enumerate(ReadItems[n])]
  BY <1>1, <1>3 DEF Readable
<1>5. automaton.states = k + 1 BY <1>4, FS_Interval
<1>6. States(automaton) = 0 .. k BY <1>5 DEF States
<1>7. \A n \in 0 .. k : ItemsOf(automaton, n) = ReadItems[n] BY <1>2, <1>3, <1>4, EnumerateLists DEF ItemsOf
<1> QED BY <1>3, <1>4, <1>6, <1>7

\* The item sets and edges of the emitted parser, be it of the nodes or of the merged ones.
LEMMA ReadIsFramed ==
  ASSUME FullInv, filling # "idle"
  PROVE  LET cores == [s \in DOMAIN ReadItems |-> CoresOf((IF converting = "done" THEN merged ELSE nodes)[s])]
         IN  /\ Framed(build, cores, [s \in DOMAIN ReadItems |-> Elements(ReadEdges[s])])
             /\ \A s \in DOMAIN ReadItems : CoresOf(ReadItems[s]) \subseteq cores[s]
             /\ converting = "idle" =>
                  Predicted(build, first, ReadItems, [s \in DOMAIN ReadItems |-> Elements(ReadEdges[s])])
<1>1. ExactInv /\ Numbered /\ Received /\ building = "done" /\ converting \in {"idle", "done"}
  BY DEF FullInv, FillsFrom
<1> DEFINE cores == [s \in DOMAIN ReadItems |-> CoresOf((IF converting = "done" THEN merged ELSE nodes)[s])]
           edges == [s \in DOMAIN ReadItems |-> Elements(ReadEdges[s])]
<1>2. CASE converting = "done"
  <2>1. ReadItems = merged /\ ReadEdges = [n \in DOMAIN merged |-> MergedEdges(n)] BY <1>2 DEF ReadItems, ReadEdges
  <2>2. edges = [s \in DOMAIN merged |-> Elements(MergedEdges(s))] BY <2>1
  <2>3. cores = [s \in DOMAIN merged |-> CoresOf(merged[s])] BY <1>2, <2>1
  <2> HIDE DEF edges, cores
  <2>4. Framed(build, cores, edges) BY <1>1, <1>2, <2>2, <2>3, MergedIsFramed
  <2>5. \A s \in DOMAIN ReadItems : CoresOf(ReadItems[s]) \subseteq cores[s] BY <2>1, <2>3
  <2> QED BY <1>2, <2>4, <2>5 DEF edges, cores
<1>3. CASE converting = "idle"
  <2>1. ReadEdges = nodeEdges BY <1>3 DEF ReadEdges
  <2>2. /\ DOMAIN ReadItems = Numbers /\ \A s \in Numbers : CoresOf(ReadItems[s]) \subseteq CoresOf(nodes[s])
        /\ Predicted(build, first, ReadItems, [n \in Numbers |-> Elements(nodeEdges[n])])
    <3>1. CASE build.canonical
      <4>1. ReadItems = nodes BY <1>3, <3>1 DEF ReadItems
      <4> QED BY <1>1, <3>1, <4>1, CanonicalPredicts DEF Numbers
    <3>2. CASE ~build.canonical
      <4>1. ReadItems = Propagated(HandedOver, MergedCanonical(HandedOver)) BY <1>3, <3>2 DEF ReadItems
      <4> QED BY <1>1, <3>2, <4>1, PropagatedPredicts
    <3> QED BY <3>1, <3>2
  <2>3. edges = [n \in Numbers |-> Elements(nodeEdges[n])] BY <2>1, <2>2
  <2>4. cores = [n \in Numbers |-> CoresOf(nodes[n])] BY <1>3, <2>2
  <2> HIDE DEF edges, cores
  <2>5. Framed(build, cores, edges) BY <1>1, <2>3, <2>4, NodesAreFramed
  <2>6. \A s \in DOMAIN ReadItems : CoresOf(ReadItems[s]) \subseteq cores[s] BY <2>2, <2>4
  <2>7. Predicted(build, first, ReadItems, edges) BY <2>2, <2>3
  <2> QED BY <2>5, <2>6, <2>7 DEF edges, cores
<1> QED BY <1>1, <1>2, <1>3

LEMMA RowsOfStates ==
  ASSUME FilledSoFar, filling = "done", NEW s \in States(automaton)
  PROVE  RowExact(grammar, table[s], Elements(automaton.edges[s]), ItemsOf(automaton, s))
<1>1. SeenEdges(s) = Elements(automaton.edges[s]) /\ SeenItems(s) = ItemsOf(automaton, s)
  BY DEF SeenEdges, SeenItems, EdgeSeen, ItemSeen, Elements, ItemsOf
<1> QED BY <1>1 DEF FilledSoFar

LEMMA EmittedFacts ==
  ASSUME FullInv, filling = "done"
  PROVE  LET edges == [s \in States(automaton) |-> Elements(automaton.edges[s])]
         IN  /\ SameGrammar(grammar, Emitted) /\ IsReadable(grammar, automaton) /\ grammar \in Grammars
             /\ Emitted.first = first /\ StateSet(Emitted) = States(automaton)
             /\ Framed(Emitted, Emitted.items, edges) /\ FollowsEdges(Emitted, edges)
             /\ FilledBy(Emitted, grammar, table, edges)
             /\ DOMAIN Emitted.looks = StateSet(Emitted)
             /\ \A s \in StateSet(Emitted) : Emitted.looks[s] = ItemsOf(automaton, s)
             /\ converting = "idle" => Predicted(Emitted, first, Emitted.looks, edges)
<1> DEFINE c == Emitted
           S == States(automaton)
           edges == [s \in S |-> Elements(automaton.edges[s])]
           items == IF converting = "done" THEN merged ELSE nodes
<1>1. /\ CoreInv /\ FilledSoFar /\ Linked /\ IInv /\ grammar = input /\ building = "done"
      /\ IsReadable(grammar, automaton) /\ grammar \in Grammars
  BY DEF FullInv, ExactInv, CoreInv, PipelineInv, FillsFrom, FilledSoFar, IInv, TypeOK
<1>2. S = DOMAIN ReadItems /\ automaton.edges = ReadEdges /\ \A n \in S : ItemsOf(automaton, n) = ReadItems[n]
  BY ReadBack
<1>3. /\ c.nonterminals = grammar.nonterminals /\ c.producers = grammar.producers /\ c.start = grammar.start
      /\ c.first = first
      /\ c.items = [s \in S |-> CoresOf(items[s])] /\ c.looks = [s \in S |-> ItemsOf(automaton, s)]
      /\ c.next = [s \in S |-> [X \in {e[1] : e \in edges[s]} |-> (CHOOSE e \in edges[s] : e[1] = X)[2]]]
      /\ c.action = [s \in S |-> table[s].action] /\ c.goto = [s \in S |-> table[s].goto]
  BY DEF Emitted
<1> HIDE DEF c
<1>4. SameGrammar(grammar, c) /\ SameGrammar(build, c) BY <1>1, <1>3 DEF SameGrammar, Linked
<1>5. edges = [s \in DOMAIN ReadItems |-> Elements(ReadEdges[s])] BY <1>2
<1>6. c.items = [s \in DOMAIN ReadItems |-> CoresOf(items[s])] BY <1>2, <1>3
<1> HIDE DEF edges
<1>7. /\ Framed(build, c.items, edges) /\ \A s \in S : CoresOf(ReadItems[s]) \subseteq c.items[s]
      /\ converting = "idle" => Predicted(build, first, ReadItems, edges)
  BY <1>2, <1>5, <1>6, ReadIsFramed
<1>8. Framed(c, c.items, edges) BY <1>4, <1>7, SameFrame
<1>9. c.looks = [s \in S |-> ReadItems[s]] /\ StateSet(c) = S BY <1>2, <1>3 DEF StateSet
<1>10. converting = "idle" => Predicted(c, first, c.looks, edges)
  <2> SUFFICES ASSUME converting = "idle" PROVE Predicted(c, first, c.looks, edges) OBVIOUS
  <2>1. Predicted(c, first, ReadItems, edges) BY <1>4, <1>7, SamePredicted
  <2>2. 0 \in S BY <1>8, <1>9 DEF Framed, StateSet
  <2>3. ASSUME NEW s \in S, NEW e \in edges[s] PROVE e[2] \in S BY <1>8, <1>9 DEF Framed, StateSet
  <2>4. DOMAIN c.looks = S /\ \A s \in S : c.looks[s] = ReadItems[s] BY <1>9
  <2> QED BY <1>2, <2>1, <2>2, <2>3, <2>4 DEF Predicted
<1>11. FollowsEdges(c, edges)
  <2>1. DOMAIN c.next = StateSet(c) BY <1>3, <1>9
  <2>2. ASSUME NEW s \in S
        PROVE  DOMAIN c.next[s] = {e[1] : e \in edges[s]} /\ \A e \in edges[s] : c.next[s][e[1]] = e[2]
    <3>1. c.next[s] = [X \in {e[1] : e \in edges[s]} |-> (CHOOSE e \in edges[s] : e[1] = X)[2]] BY <1>3
    <3>2. ASSUME NEW e \in edges[s] PROVE c.next[s][e[1]] = e[2]
      <4> DEFINE d == CHOOSE f \in edges[s] : f[1] = e[1]
      <4>1. c.next[s][e[1]] = d[2] BY <3>1
      <4>2. d \in edges[s] /\ d[1] = e[1] OBVIOUS
      <4> HIDE DEF d
      <4>3. d[2] = e[2] BY <1>8, <1>9, <4>2 DEF Framed, StateSet
      <4> QED BY <4>1, <4>3
    <3> QED BY <3>1, <3>2
  <2> QED BY <1>9, <2>1, <2>2 DEF FollowsEdges
<1>12. FilledBy(c, grammar, table, edges)
  <2>1. ASSUME NEW s \in S
        PROVE  /\ c.action[s] = table[s].action /\ c.goto[s] = table[s].goto
               /\ RowExact(grammar, table[s], edges[s], c.looks[s])
               /\ CoresOf(c.looks[s]) \subseteq c.items[s]
    <3>1. RowExact(grammar, table[s], Elements(automaton.edges[s]), ItemsOf(automaton, s)) BY <1>1, RowsOfStates
    <3>2. edges[s] = Elements(automaton.edges[s]) /\ c.looks[s] = ItemsOf(automaton, s) BY <1>3 DEF edges
    <3> QED BY <1>3, <1>7, <1>9, <3>1, <3>2
  <2> QED BY <1>3, <1>4, <1>9, <2>1 DEF FilledBy
<1> QED BY <1>1, <1>3, <1>4, <1>8, <1>9, <1>10, <1>11, <1>12 DEF c, edges

LEMMA EmittedIsSound ==
  ASSUME FullInv, filling = "done"
  PROVE  AutomatonSound(Emitted) /\ TablesSound(Emitted)
<1> DEFINE c == Emitted
           edges == [s \in States(automaton) |-> Elements(automaton.edges[s])]
<1>1. /\ SameGrammar(grammar, c) /\ IsReadable(grammar, automaton) /\ grammar \in Grammars
      /\ Framed(c, c.items, edges) /\ FollowsEdges(c, edges) /\ FilledBy(c, grammar, table, edges)
  BY EmittedFacts
<1> HIDE DEF c, edges
<1>2. SameGrammar(c, grammar) BY <1>1 DEF SameGrammar
<1>3. HasRules(c) BY <1>1, <1>2, OwnOrForeign
<1>4. AutomatonSound(c) BY <1>1, FramesAreSound
<1>5. TablesSound(c) BY <1>1, <1>3, RowsAreSound
<1> QED BY <1>4, <1>5 DEF c

LEMMA EmittedIsComplete ==
  ASSUME FullInv, filling = "done", converting = "idle", Uncontested
  PROVE  TablesComplete(Emitted)
<1> DEFINE c == Emitted
           edges == [s \in States(automaton) |-> Elements(automaton.edges[s])]
<1>1. /\ SameGrammar(grammar, c) /\ IsReadable(grammar, automaton) /\ grammar \in Grammars
      /\ c.first = first /\ StateSet(c) = States(automaton)
      /\ Framed(c, c.items, edges) /\ FollowsEdges(c, edges) /\ FilledBy(c, grammar, table, edges)
      /\ DOMAIN c.looks = StateSet(c) /\ \A s \in StateSet(c) : c.looks[s] = ItemsOf(automaton, s)
      /\ Predicted(c, first, c.looks, edges)
  BY EmittedFacts
<1>2. /\ EndMarker \notin SymbolsIn(grammar) \cup grammar.nonterminals
      /\ \A s \in States(automaton) :
           /\ table[s].conflicts = {}
           /\ Accepts(ItemsOf(automaton, s), EndMarker) # {} => Reductions(grammar, ItemsOf(automaton, s), EndMarker) = {}
  BY DEF Uncontested
<1> HIDE DEF c, edges
<1>3. SameGrammar(c, grammar) BY <1>1 DEF SameGrammar
<1>4. /\ OwnSymbols(c) = {grammar.start} \cup SymbolsIn(grammar) /\ HasRules(c) /\ grammar.start \in grammar.nonterminals
      /\ {Epsilon, AugmentedStart} \cap (OwnSymbols(c) \cup c.nonterminals) = {}
  BY <1>1, <1>3, OwnOrForeign
<1>5. c.start = grammar.start /\ c.nonterminals = grammar.nonterminals /\ c.producers = grammar.producers
  BY <1>3 DEF SameGrammar
<1>6. EndMarker \notin OwnSymbols(c) \cup c.nonterminals BY <1>2, <1>4, <1>5
<1>7. /\ IInv /\ Linked /\ grammar = input /\ pc = "done" /\ build.first = first /\ IsBuild(build)
      /\ SameGrammar(build, c)
  <2>1. /\ IInv /\ Linked /\ BuilderInv /\ grammar = input /\ building = "done"
    BY DEF FullInv, ExactInv, CoreInv, PipelineInv, FillsFrom
  <2>2. IsBuild(build) BY <2>1 DEF BuilderInv
  <2> QED BY <1>5, <2>1, <2>2 DEF Linked, SameGrammar
<1>8. HasFirst(c, c.first) BY <1>1, <1>7, SameItems DEF IsBuild
<1>9. \A prod \in Elements(c.producers) :
        prod.left \in c.nonterminals /\ FirstOfSequence(c.first, prod.right, 1, Epsilon) \subseteq c.first[prod.left]
  <2>1. \A prod \in Elements(c.producers) : prod.left \in c.nonterminals BY <1>4 DEF HasRules
  <2>2. \A k \in 1 .. Len(input.producers) : FirstHolds(input, first, k) BY <1>7 DEF IInv, FirstClosed
  <2>3. input.producers \in Seq(Elements(input.producers)) BY <1>1, <1>7 DEF IsReadable
  <2>4. ASSUME NEW prod \in Elements(input.producers)
        PROVE  FirstOfSequence(first, prod.right, 1, Epsilon) \subseteq first[prod.left]
    <3>1. PICK k \in 1 .. Len(input.producers) : prod = input.producers[k] BY <2>3 DEF Elements
    <3>2. FirstGain(first, input.producers[k]) \subseteq first[input.producers[k].left] BY <2>2 DEF FirstHolds
    <3> QED BY <3>1, <3>2 DEF FirstGain
  <2> QED BY <1>1, <1>5, <1>7, <2>1, <2>4
<1>10. LookaheadsClosed(c)
  <2>1. \A s \in StateSet(c) : CoresOf(c.looks[s]) \subseteq c.items[s] BY <1>1 DEF FilledBy
  <2> QED BY <1>1, <2>1, LooksAreClosed
<1>11. CellsComplete(c)
  <2>1. ASSUME NEW s \in StateSet(c)
        PROVE  /\ GoodItems(c, c.looks[s]) /\ table[s].conflicts = {}
               /\ Accepts(c.looks[s], EndMarker) # {} => Reductions(grammar, c.looks[s], EndMarker) = {}
    BY <1>1, <1>2 DEF Predicted
  <2>2. AugmentedStart \notin OwnSymbols(c) BY <1>4
  <2> QED BY <1>1, <1>4, <1>6, <2>1, <2>2, RowsAreComplete
<1>12. c.start \in c.nonterminals /\ {Epsilon, EndMarker, AugmentedStart} \cap (OwnSymbols(c) \cup c.nonterminals) = {}
  BY <1>4, <1>5, <1>6
<1>13. TablesComplete(c) BY <1>8, <1>9, <1>10, <1>11, <1>12 DEF TablesComplete
<1> QED BY <1>13 DEF c

LEMMA AllPartsFit ==
  ASSUME FullInv
  PROVE  PartsFit
<1>1. CoreInv /\ ConversionInv /\ FilledSoFar BY DEF FullInv, ExactInv, CoreInv, PipelineInv
<1> QED BY <1>1, HandsOverCore, EmittedIsSound, EmittedIsComplete DEF PartsFit, ConversionInv, FilledSoFar

\* No part of the generator is called with arguments it cannot deal with: the propagation
\* gets the core automaton it takes for granted, the converter an automaton in which equal
\* cores have equal cores behind each symbol, the table builder one that it can read; and
\* yyparse gets tables that lead where the automaton does and reduce what is there, which
\* are complete, too, if no two entries competed for a cell and no states were merged.
THEOREM EachPartFitsTheNext == PipelineSpec => []PartsFit
<1>1. FullInv => PartsFit BY AllPartsFit
<1>2. FullInv /\ [PipelineNext]_pipelineVars => FullInv' BY FullKeeps
<1> QED BY <1>1, <1>2, FullStarts, PTL DEF PipelineSpec

\* Of every grammar, the loop of buildLR0Automaton and the one of buildCanonicalAutomaton find
\* every item set of the collection, no other, and each of them once, with every edge; what
\* the next part takes for granted of them holds.
THEOREM CollectionIsExact == PipelineSpec => []CollectionExact
<1>1. FullInv => CollectionExact
  <2> SUFFICES ASSUME FullInv, building = "done" PROVE CollectionExact BY DEF CollectionExact
  <2>1. CoreInv /\ SetsInv /\ NodesReached BY DEF FullInv, ExactInv
  <2>2. BuilderInv BY <2>1 DEF CoreInv, PipelineInv
  <2> QED BY <2>1, <2>2, AllPartsFit, DoneIsExact, NothingForgotten DEF CollectionExact
<1>2. FullInv /\ [PipelineNext]_pipelineVars => FullInv' BY FullKeeps
<1> QED BY <1>1, <1>2, FullStarts, PTL DEF PipelineSpec
=============================================================================
