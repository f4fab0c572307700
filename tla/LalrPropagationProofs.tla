----------------------- MODULE LalrPropagationProofs -----------------------
(***************************************************************************)
(* Proofs about LalrPropagation for every family of automata that IsCore   *)
(* admits: type correctness, no lost wake-up, closed lookaheads at the     *)
(* end, and that the detailed loops implement LalrLookaheads.              *)
(***************************************************************************)
EXTENDS LalrPropagation, GrammarLemmas

\* What IsCore gives for the automaton in use.
LEMMA CoreFacts ==
  ASSUME TypeOK
  PROVE  /\ core.states \in Nat /\ 0 \in States(core)
         /\ EndMarker \in core.tokens
         /\ <<0, StartItem(core)>> \in Slots(core)
         /\ \A s \in States(core) :
              /\ core.items[s] \in Seq(ItemsOf(core, s))
              /\ core.edges[s] \in Seq(Elements(core.edges[s]))
              /\ \A item \in ItemsOf(core, s) :
                   /\ <<s, item>> \in Slots(core)
                   /\ ClosureItems(core, item) \subseteq ItemsOf(core, s)
                   /\ \A a \in core.tokens : FollowingPredicts(core.first, item, a) \subseteq core.tokens
              /\ \A e \in 1 .. Len(core.edges[s]) :
                   /\ EdgeTarget(core, s, e) \in States(core)
                   /\ \A item \in ItemsOf(core, s) : DotBefore(item, EdgeSymbol(core, s, e)) =>
                        <<EdgeTarget(core, s, e), Advance(item)>> \in Slots(core)
  <1>1. IsCore(core)
    BY CoresAssumption DEF TypeOK, core
  <1>2. 0 \in States(core)
    BY <1>1 DEF IsCore, States
  <1>3. \A s \in States(core) : \A item \in ItemsOf(core, s) : <<s, item>> \in Slots(core)
    BY DEF Slots
  <1>4. QED
    BY <1>1, <1>2, <1>3 DEF IsCore

\* The item under the loop position is an item of the current state.
LEMMA ItemFacts ==
  ASSUME TypeOK, pos <= Len(core.items[current])
  PROVE  Item \in ItemsOf(core, current) /\ <<current, Item>> \in Slots(core)
  <1>1. core.items[current] \in Seq(ItemsOf(core, current)) /\ current \in States(core)
    BY CoreFacts DEF TypeOK
  <1>2. pos \in 1 .. Len(core.items[current])
    BY <1>1 DEF TypeOK
  <1>3. Item \in ItemsOf(core, current)
    BY <1>1, <1>2 DEF Item
  <1>4. QED
    BY <1>1, <1>3, CoreFacts

LEMMA TargetFacts ==
  ASSUME TypeOK, InEdge
  PROVE  edge \in 1 .. Len(core.edges[current]) /\ Target \in States(core)
  <1>1. current \in States(core) /\ core.edges[current] \in Seq(Elements(core.edges[current]))
    BY CoreFacts DEF TypeOK
  <1>2. edge \in 1 .. Len(core.edges[current])
    BY <1>1 DEF TypeOK, InEdge
  <1>3. QED
    BY <1>1, <1>2, CoreFacts DEF Target

-----------------------------------------------------------------------------
LEMMA InitTypeOK == Init => TypeOK
  <1> SUFFICES ASSUME Init PROVE TypeOK
    OBVIOUS
  <1>1. IsCore(core)
    BY CoresAssumption DEF Init, core
  <1>2. 0 \in States(core) /\ EndMarker \in core.tokens
    BY <1>1 DEF IsCore, States
  <1>3. lookaheads \in [Slots(core) -> SUBSET core.tokens]
    BY <1>2 DEF Init
  <1>4. work \in Seq(States(core))
    BY <1>2 DEF Init
  <1>5. queued \in [States(core) -> BOOLEAN]
    BY DEF Init
  <1>6. /\ input \in DOMAIN Cores /\ pc \in {"pop", "local", "edges", "done"}
        /\ current = 0 /\ edge \in Nat \ {0} /\ pos \in Nat \ {0}
    BY DEF Init
  <1>7. changed \in BOOLEAN
    BY DEF Init
  <1>8. QED
    BY <1>2, <1>3, <1>4, <1>5, <1>6, <1>7 DEF TypeOK

\* Everything the loops propagate is a token of the grammar.
LEMMA PredictsAreTokens ==
  ASSUME TypeOK, pos <= Len(core.items[current])
  PROVE  PropagatedPredicts(Item) \subseteq core.tokens
  <1>1. Item \in ItemsOf(core, current) /\ lookaheads[<<current, Item>>] \subseteq core.tokens
    BY ItemFacts DEF TypeOK
  <1>2. current \in States(core)
    BY DEF TypeOK
  <1>3. \A a \in core.tokens : FollowingPredicts(core.first, Item, a) \subseteq core.tokens
    BY <1>1, <1>2, CoreFacts
  <1>4. QED
    BY <1>1, <1>3 DEF PropagatedPredicts

LEMMA NextTypeOK == TypeOK /\ [Next]_vars => TypeOK'
  <1> SUFFICES ASSUME TypeOK, [Next]_vars PROVE TypeOK'
    OBVIOUS
  <1>1. CASE PopState
    <2>1. work \in Seq(States(core)) /\ work # <<>>
      BY <1>1 DEF PopState, TypeOK
    <2>2. Head(work) \in States(core) /\ Tail(work) \in Seq(States(core))
      BY <2>1
    <2>3. core' = core
      BY <1>1 DEF PopState, core
    <2>4. queued' \in [States(core) -> BOOLEAN]
      BY <1>1 DEF PopState, TypeOK
    <2>5. /\ current' = Head(work) /\ work' = Tail(work) /\ pc' = "local" /\ pos' = 1
          /\ UNCHANGED <<input, lookaheads, edge>>
      BY <1>1 DEF PopState
    <2>6. changed' \in BOOLEAN
      BY <1>1 DEF PopState
    <2>7. QED
      BY <2>2, <2>3, <2>4, <2>5, <2>6 DEF TypeOK
  <1>2. CASE PropagateInState
    <2>1. core' = core
      BY <1>2 DEF PropagateInState, core
    <2>2. PropagatedPredicts(Item) \subseteq core.tokens
      BY <1>2, PredictsAreTokens DEF PropagateInState
    <2>3. lookaheads' \in [Slots(core) -> SUBSET core.tokens]
      BY <1>2, <2>2 DEF PropagateInState, TypeOK
    <2>4. changed' \in BOOLEAN /\ pos' = pos + 1 /\ UNCHANGED <<input, work, queued, pc, current, edge>>
      BY <1>2 DEF PropagateInState, TypeOK
    <2>5. QED
      BY <2>1, <2>3, <2>4 DEF TypeOK
  <1>3. CASE RepeatPass
    <2>1. core' = core /\ pos' = 1 /\ UNCHANGED <<input, lookaheads, work, queued, pc, current, edge>>
      BY <1>3 DEF RepeatPass, core
    <2>2. changed' \in BOOLEAN
      BY <1>3 DEF RepeatPass
    <2>3. QED
      BY <2>1, <2>2 DEF TypeOK
  <1>4. CASE StartEdges
    BY <1>4 DEF StartEdges, TypeOK, core
  <1>5. CASE PropagateAcross
    <2>1. core' = core
      BY <1>5 DEF PropagateAcross, core
    <2>2. lookaheads' \in [Slots(core) -> SUBSET core.tokens] /\ changed' \in BOOLEAN
      <3>1. CASE DotBefore(Item, EdgeSymbol(core, current, edge))
        <4>1. <<current, Item>> \in Slots(core)
          BY <1>5, ItemFacts DEF PropagateAcross
        <4>2. lookaheads[<<current, Item>>] \subseteq core.tokens
          BY <4>1 DEF TypeOK
        <4>3. QED
          BY <1>5, <3>1, <4>2 DEF PropagateAcross, TypeOK
      <3>2. CASE ~DotBefore(Item, EdgeSymbol(core, current, edge))
        BY <1>5, <3>2 DEF PropagateAcross, TypeOK
      <3>3. QED
        BY <3>1, <3>2
    <2>3. QED
      BY <1>5, <2>1, <2>2 DEF PropagateAcross, TypeOK
  <1>6. CASE FinishEdge
    <2>1. core' = core /\ Target \in States(core)
      BY <1>6, TargetFacts DEF FinishEdge, core
    <2>2. work' \in Seq(States(core))
      BY <1>6, <2>1 DEF FinishEdge, TypeOK
    <2>3. queued' \in [States(core) -> BOOLEAN]
      <3>1. CASE changed /\ ~queued[Target]
        BY <1>6, <3>1 DEF FinishEdge, TypeOK
      <3>2. CASE ~(changed /\ ~queued[Target])
        BY <1>6, <3>2 DEF FinishEdge, TypeOK
      <3>3. QED
        BY <3>1, <3>2
    <2>4. edge' = edge + 1 /\ pos' = 1 /\ UNCHANGED <<input, lookaheads, pc, current>>
      BY <1>6 DEF FinishEdge
    <2>5. changed' \in BOOLEAN
      BY <1>6 DEF FinishEdge
    <2>6. QED
      BY <2>1, <2>2, <2>3, <2>4, <2>5 DEF TypeOK
  <1>7. CASE FinishState
    BY <1>7 DEF FinishState, TypeOK, core
  <1>8. CASE Finish
    BY <1>8 DEF Finish, TypeOK, core
  <1>9. CASE UNCHANGED vars
    BY <1>9 DEF vars, TypeOK, core
  <1>10. QED
    BY <1>1, <1>2, <1>3, <1>4, <1>5, <1>6, <1>7, <1>8, <1>9 DEF Next

\* Every variable keeps its type: in particular lookaheads are only ever recorded for
\* items the state has, so the final loop of buildLALRPDA drops none of them.
THEOREM TypeCorrect == Spec => []TypeOK
  BY InitTypeOK, NextTypeOK, PTL DEF Spec
-----------------------------------------------------------------------------
\* A state whose own lookaheads did not change stays settled when others grow.
LEMMA GrowthKeepsSettled ==
  ASSUME TypeOK, core' = core, NEW s \in States(core), Settled(s),
         \A item \in ItemsOf(core, s) : lookaheads'[<<s, item>>] = lookaheads[<<s, item>>],
         \A slot \in Slots(core) : lookaheads[slot] \subseteq lookaheads'[slot]
  PROVE  Settled(s)'
  <1> SUFFICES ASSUME NEW item \in ItemsOf(core, s)
               PROVE  /\ ClosedInState(s, item)'
                      /\ \A e \in 1 .. Len(core.edges[s]) : ClosedAcross(s, e, item)'
    BY DEF Settled
  <1>1. ClosedInState(s, item)'
    <2>1. ClosureItems(core, item) \subseteq ItemsOf(core, s)
      BY CoreFacts
    <2>2. ClosedInState(s, item)
      BY DEF Settled
    <2>3. QED
      BY <2>1, <2>2 DEF ClosedInState
  <1>2. ASSUME NEW e \in 1 .. Len(core.edges[s]) PROVE ClosedAcross(s, e, item)'
    <2>1. ClosedAcross(s, e, item)
      BY DEF Settled
    <2>2. DotBefore(item, EdgeSymbol(core, s, e)) =>
            <<EdgeTarget(core, s, e), Advance(item)>> \in Slots(core)
      BY CoreFacts
    <2>3. QED
      BY <2>1, <2>2 DEF ClosedAcross
  <1>3. QED
    BY <1>1, <1>2

LEMMA SameKeepsSettled ==
  ASSUME core' = core, lookaheads' = lookaheads, NEW s, Settled(s)
  PROVE  Settled(s)'
  BY DEF Settled, ClosedInState, ClosedAcross

LEMMA InitIInv == Init => IInv
  <1> SUFFICES ASSUME Init PROVE IInv
    OBVIOUS
  <1>1. TypeOK
    BY InitTypeOK
  <1>2. FlagsQueued
    <2>1. work[1] = 0 /\ 1 \in DOMAIN work
      BY DEF Init
    <2>2. QED
      BY <2>1 DEF Init, FlagsQueued, Elements
  <1>3. OthersSettled
    <2> SUFFICES ASSUME NEW s \in States(core), ~Pending(s) PROVE Settled(s)
      BY DEF OthersSettled
    <2>1. s # 0
      BY DEF Pending, Init
    <2>2. \A item \in ItemsOf(core, s) : <<s, item>> \in Slots(core)
      BY <1>1, CoreFacts
    <2>3. \A item \in ItemsOf(core, s) : lookaheads[<<s, item>>] = {}
      BY <2>1, <2>2 DEF Init
    <2>4. QED
      BY <2>3 DEF Settled, ClosedInState, ClosedAcross
  <1>4. PassProgress /\ EdgeProgress
    BY DEF Init, PassProgress, EdgeProgress
  <1>5. QED
    BY <1>1, <1>2, <1>3, <1>4 DEF IInv

LEMMA PopKeepsIInv == IInv /\ PopState => IInv'
  <1> SUFFICES ASSUME IInv, PopState PROVE IInv'
    OBVIOUS
  <1> USE DEF IInv
  <1>1. TypeOK'
    BY NextTypeOK DEF Next
  <1>2. core' = core /\ lookaheads' = lookaheads /\ pc = "pop" /\ pc' = "local" /\ pos' = 1
    BY DEF PopState, core
  <1>3. work \in Seq(States(core)) /\ work # <<>> /\ work' = Tail(work) /\ Head(work) = work[1]
    BY DEF PopState, TypeOK
  <1>4. queued' = [queued EXCEPT ![work[1]] = FALSE] /\ current' = work[1]
    BY <1>3 DEF PopState
  <1>5. \A s \in States(core) : queued'[s] => queued[s] /\ s # work[1]
    BY <1>4 DEF TypeOK
  <1>6. \A s \in States(core) : s # work[1] => queued'[s] = queued[s]
    BY <1>4 DEF TypeOK
  <1>7. FlagsQueued'
    <2> SUFFICES ASSUME NEW s \in States(core), queued'[s] PROVE s \in Elements(work')
      BY <1>2 DEF FlagsQueued
    <2>1. PICK k \in DOMAIN work : work[k] = s
      BY <1>5 DEF FlagsQueued, Elements
    <2>2. k \in 2 .. Len(work)
      BY <2>1, <1>3, <1>5
    <2>3. k - 1 \in DOMAIN work' /\ work'[k - 1] = s
      BY <2>1, <2>2, <1>3
    <2>4. QED
      BY <2>3 DEF Elements
  <1>8. OthersSettled'
    <2> SUFFICES ASSUME NEW s \in States(core), ~Pending(s)', (s = current => pc \in {"pop", "done"})'
                 PROVE  Settled(s)'
      BY <1>2 DEF OthersSettled
    <2>1. s # work[1]
      BY <1>2, <1>4
    <2>2. ~queued[s]
      BY <2>1, <1>6 DEF Pending
    <2>3. ~Pending(s)
      BY <2>2, <1>2 DEF Pending, InEdge
    <2>4. Settled(s)
      BY <2>3, <1>2 DEF OthersSettled
    <2>5. QED
      BY <2>4, <1>2, SameKeepsSettled
  <1>9. PassProgress'
    BY <1>2 DEF PassProgress
  <1>10. EdgeProgress'
    BY <1>2 DEF EdgeProgress
  <1>11. QED
    BY <1>1, <1>7, <1>8, <1>9, <1>10

LEMMA InStateKeepsIInv == IInv /\ PropagateInState => IInv'
  <1> SUFFICES ASSUME IInv, PropagateInState PROVE IInv'
    OBVIOUS
  <1> USE DEF IInv
  <1>1. TypeOK'
    BY NextTypeOK DEF Next
  <1>2. /\ core' = core /\ pc = "local" /\ pc' = "local" /\ pos' = pos + 1
        /\ current' = current /\ queued' = queued /\ work' = work
        /\ pos <= Len(core.items[current])
    BY DEF PropagateInState, core
  <1>3. current \in States(core) /\ Item \in ItemsOf(core, current)
    BY <1>2, ItemFacts DEF TypeOK
  <1>4. FlagsQueued'
    BY <1>2 DEF FlagsQueued
  <1> DEFINE grows(slot) == slot[1] = current /\ slot[2] \in ClosureItems(core, Item)
  <1>5. lookaheads' = [slot \in Slots(core) |->
           IF grows(slot) THEN lookaheads[slot] \cup PropagatedPredicts(Item) ELSE lookaheads[slot]]
    BY DEF PropagateInState
  <1>6. OthersSettled'
    <2> SUFFICES ASSUME NEW s \in States(core), ~Pending(s)', (s = current => pc \in {"pop", "done"})'
                 PROVE  Settled(s)'
      BY <1>2 DEF OthersSettled
    <2>1. s # current
      BY <1>2
    <2>2. ~Pending(s)
      BY <1>2 DEF Pending, InEdge
    <2>3. Settled(s)
      BY <2>1, <2>2 DEF OthersSettled
    <2>4. \A item \in ItemsOf(core, s) : <<s, item>> \in Slots(core)
      BY CoreFacts
    <2>5. \A item \in ItemsOf(core, s) : lookaheads'[<<s, item>>] = lookaheads[<<s, item>>]
      BY <1>5, <2>1, <2>4
    <2>6. \A slot \in Slots(core) : lookaheads[slot] \subseteq lookaheads'[slot]
      BY <1>5
    <2>7. QED
      BY <2>3, <2>5, <2>6, <1>2, GrowthKeepsSettled
  <1>7. PassProgress'
    <2> SUFFICES ASSUME ~changed', NEW k \in 1 .. Len(core.items[current]), k < pos + 1
                 PROVE  ClosedInState(current, core.items[current][k])'
      BY <1>2 DEF PassProgress
    <2>1. ~changed /\ \A item \in ClosureItems(core, Item) :
                         PropagatedPredicts(Item) \subseteq lookaheads[<<current, item>>]
      BY DEF PropagateInState
    <2>2. \A slot \in Slots(core) : lookaheads'[slot] = lookaheads[slot]
      <3> SUFFICES ASSUME NEW slot \in Slots(core) PROVE lookaheads'[slot] = lookaheads[slot]
        OBVIOUS
      <3>1. CASE grows(slot)
        <4>1. slot = <<current, slot[2]>>
          BY <3>1 DEF Slots
        <4>2. PropagatedPredicts(Item) \subseteq lookaheads[slot]
          BY <2>1, <3>1, <4>1
        <4>3. QED
          BY <1>5, <3>1, <4>2
      <3>2. CASE ~grows(slot)
        BY <1>5, <3>2
      <3>3. QED
        BY <3>1, <3>2
    <2>3. lookaheads' = lookaheads
      BY <1>5, <2>2 DEF TypeOK
    <2>4. ClosedInState(current, core.items[current][k])
      <3>1. CASE k < pos
        BY <1>2, <2>1, <3>1 DEF PassProgress
      <3>2. CASE k = pos
        BY <3>2, <2>1 DEF ClosedInState, PropagatedPredicts, Item
      <3>3. QED
        BY <3>1, <3>2 DEF TypeOK
    <2>5. QED
      BY <2>3, <2>4, <1>2 DEF ClosedInState
  <1>8. EdgeProgress'
    BY <1>2 DEF EdgeProgress
  <1>9. QED
    BY <1>1, <1>4, <1>6, <1>7, <1>8

LEMMA PassEndKeepsIInv == IInv /\ (RepeatPass \/ StartEdges) => IInv'
  <1> SUFFICES ASSUME IInv, RepeatPass \/ StartEdges PROVE IInv'
    OBVIOUS
  <1> USE DEF IInv
  <1>1. TypeOK'
    BY NextTypeOK DEF Next
  <1>2. /\ core' = core /\ pc = "local" /\ lookaheads' = lookaheads
        /\ current' = current /\ queued' = queued /\ work' = work
        /\ pc' \in {"local", "edges"} /\ pos' = 1
    BY DEF RepeatPass, StartEdges, core
  <1>3. ~changed'
    BY DEF RepeatPass, StartEdges
  <1>4. FlagsQueued'
    BY <1>2 DEF FlagsQueued
  <1>5. OthersSettled'
    <2> SUFFICES ASSUME NEW s \in States(core), ~Pending(s)', (s = current => pc \in {"pop", "done"})'
                 PROVE  Settled(s)'
      BY <1>2 DEF OthersSettled
    <2>1. s # current /\ ~Pending(s)
      BY <1>2 DEF Pending, InEdge
    <2>2. Settled(s)
      BY <2>1 DEF OthersSettled
    <2>3. QED
      BY <2>2, <1>2, SameKeepsSettled
  <1>6. PassProgress'
    BY <1>2 DEF PassProgress
  <1>7. EdgeProgress'
    <2> SUFFICES ASSUME pc' = "edges" PROVE EdgeProgress'
      BY DEF EdgeProgress
    <2>1. StartEdges
      BY <1>2 DEF RepeatPass
    <2>2. current \in States(core) /\ core.items[current] \in Seq(ItemsOf(core, current))
      BY CoreFacts DEF TypeOK
    <2>3. \A k \in 1 .. Len(core.items[current]) : ClosedInState(current, core.items[current][k])
      BY <1>2, <2>1, <2>2 DEF StartEdges, PassProgress, TypeOK
    <2>4. \A item \in ItemsOf(core, current) : ClosedInState(current, item)
      <3> SUFFICES ASSUME NEW item \in ItemsOf(core, current) PROVE ClosedInState(current, item)
        OBVIOUS
      <3>1. PICK k \in DOMAIN core.items[current] : item = core.items[current][k]
        BY DEF ItemsOf, Elements
      <3>2. QED
        BY <2>2, <2>3, <3>1
    <2>5. \A item \in ItemsOf(core, current) : ClosedInState(current, item)'
      BY <1>2, <2>4 DEF ClosedInState
    <2>6. edge' = 1
      BY <2>1 DEF StartEdges
    <2>7. \A e \in 1 .. Len(core.edges[current]) : \A k \in 1 .. Len(core.items[current]) :
            ~(e < edge' \/ (e = edge' /\ k < pos'))
      BY <1>2, <2>6
    <2>8. QED
      BY <1>2, <2>5, <2>7 DEF EdgeProgress
  <1>8. QED
    BY <1>1, <1>4, <1>5, <1>6, <1>7

\* One item sent along one edge.  Whatever grows is the target, which is Pending from then
\* on; whoever is not Pending has kept its own lookaheads.
LEMMA AcrossKeepsIInv == IInv /\ PropagateAcross => IInv'
  <1> SUFFICES ASSUME IInv, PropagateAcross PROVE IInv'
    OBVIOUS
  <1> USE DEF IInv
  <1>1. TypeOK'
    BY NextTypeOK DEF Next
  <1>2. /\ core' = core /\ InEdge /\ pc = "edges" /\ pc' = "edges" /\ pos' = pos + 1
        /\ current' = current /\ queued' = queued /\ work' = work /\ edge' = edge
        /\ pos <= Len(core.items[current]) /\ InEdge' /\ Target' = Target
    BY DEF PropagateAcross, InEdge, Target, core
  <1>3. current \in States(core) /\ Item \in ItemsOf(core, current) /\ <<current, Item>> \in Slots(core)
    BY <1>2, ItemFacts DEF TypeOK
  <1>4. FlagsQueued'
    BY <1>2 DEF FlagsQueued
  <1> DEFINE sends == DotBefore(Item, EdgeSymbol(core, current, edge))
             slot0 == <<Target, Advance(Item)>>
  <1>5. \A slot \in Slots(core) : lookaheads[slot] \subseteq lookaheads'[slot]
    <2>1. CASE sends
      BY <2>1 DEF PropagateAcross, TypeOK
    <2>2. CASE ~sends
      BY <2>2 DEF PropagateAcross
    <2>3. QED
      BY <2>1, <2>2
  <1>6. \A slot \in Slots(core) : slot # slot0 => lookaheads'[slot] = lookaheads[slot]
    <2>1. CASE sends
      BY <2>1 DEF PropagateAcross, TypeOK
    <2>2. CASE ~sends
      BY <2>2 DEF PropagateAcross
    <2>3. QED
      BY <2>1, <2>2
  <1>7. sends => slot0 \in Slots(core) /\ lookaheads[<<current, Item>>] \subseteq lookaheads'[slot0]
    <2> SUFFICES ASSUME sends
                 PROVE  slot0 \in Slots(core) /\ lookaheads[<<current, Item>>] \subseteq lookaheads'[slot0]
      OBVIOUS
    <2>1. slot0 \in Slots(core)
      BY <1>2, <1>3, TargetFacts, CoreFacts DEF Target
    <2>2. QED
      BY <2>1 DEF PropagateAcross, TypeOK
  <1>8. changed => changed'
    BY DEF PropagateAcross
  <1>9. ~changed' => lookaheads' = lookaheads
    <2>1. CASE sends
      <3> SUFFICES ASSUME ~changed' PROVE lookaheads' = lookaheads
        OBVIOUS
      <3>1. lookaheads[<<current, Item>>] \subseteq lookaheads[slot0]
        BY <2>1 DEF PropagateAcross
      <3>2. lookaheads[slot0] \cup lookaheads[<<current, Item>>] = lookaheads[slot0]
        BY <3>1
      <3>3. lookaheads' = [lookaheads EXCEPT ![slot0] = lookaheads[slot0] \cup lookaheads[<<current, Item>>]]
        BY <2>1 DEF PropagateAcross
      <3>4. QED
        BY <3>2, <3>3 DEF TypeOK
    <2>2. CASE ~sends
      BY <2>2 DEF PropagateAcross
    <2>3. QED
      BY <2>1, <2>2
  <1>10. \A s \in States(core) : ~Pending(s)' =>
           /\ ~Pending(s)
           /\ \A item \in ItemsOf(core, s) : lookaheads'[<<s, item>>] = lookaheads[<<s, item>>]
    <2> SUFFICES ASSUME NEW s \in States(core), ~Pending(s)'
                 PROVE  /\ ~Pending(s)
                        /\ \A item \in ItemsOf(core, s) : lookaheads'[<<s, item>>] = lookaheads[<<s, item>>]
      OBVIOUS
    <2>1. ~queued[s] /\ ~(changed' /\ s = Target)
      BY <1>2 DEF Pending
    <2>2. ~Pending(s)
      BY <2>1, <1>8 DEF Pending
    <2>3. CASE ~changed'
      BY <1>9, <2>2, <2>3
    <2>4. CASE s # Target
      <3>1. \A item \in ItemsOf(core, s) : <<s, item>> \in Slots(core) /\ <<s, item>> # slot0
        BY <2>4, CoreFacts
      <3>2. QED
        BY <3>1, <1>6, <2>2
    <2>5. QED
      BY <2>1, <2>3, <2>4
  <1>11. OthersSettled'
    <2> SUFFICES ASSUME NEW s \in States(core), ~Pending(s)', (s = current => pc \in {"pop", "done"})'
                 PROVE  Settled(s)'
      BY <1>2 DEF OthersSettled
    <2>1. s # current
      BY <1>2
    <2>2. Settled(s)
      BY <2>1, <1>10 DEF OthersSettled
    <2>3. \A item \in ItemsOf(core, s) : lookaheads'[<<s, item>>] = lookaheads[<<s, item>>]
      BY <1>10
    <2>4. QED
      BY <2>2, <2>3, <1>2, <1>5, GrowthKeepsSettled
  <1>12. PassProgress'
    BY <1>2 DEF PassProgress
  <1>13. EdgeProgress'
    <2> SUFFICES ASSUME ~Pending(current)' PROVE EdgeProgress'
      BY <1>2 DEF EdgeProgress
    <2>1. ~Pending(current)
      <3>1. (~Pending(current))' => ~Pending(current)'
        OBVIOUS
      <3>2. ~(queued[current] \/ (changed' /\ current = Target))
        BY <1>2 DEF Pending
      <3>3. QED
        BY <3>2, <1>8 DEF Pending
    <2>2. \A item \in ItemsOf(core, current) : lookaheads'[<<current, item>>] = lookaheads[<<current, item>>]
      <3>1. ~(changed' /\ current = Target)
        BY <1>2 DEF Pending
      <3>2. CASE ~changed'
        BY <1>9, <3>2
      <3>3. CASE current # Target
        BY <3>3, <1>3, <1>6, CoreFacts
      <3>4. QED
        BY <3>1, <3>2, <3>3
    <2>3. \A item \in ItemsOf(core, current) : ClosedInState(current, item)'
      <3> SUFFICES ASSUME NEW item \in ItemsOf(core, current) PROVE ClosedInState(current, item)'
        OBVIOUS
      <3>1. ClosureItems(core, item) \subseteq ItemsOf(core, current)
        BY <1>3, CoreFacts
      <3>2. ClosedInState(current, item)
        BY <1>2, <2>1 DEF EdgeProgress
      <3>3. QED
        BY <3>1, <3>2, <2>2, <1>2 DEF ClosedInState
    <2>4. ASSUME NEW e \in 1 .. Len(core.edges[current]), NEW k \in 1 .. Len(core.items[current]),
                 e < edge \/ (e = edge /\ k < pos + 1)
          PROVE  ClosedAcross(current, e, core.items[current][k])'
      <3> DEFINE item == core.items[current][k]
      <3>1. item \in ItemsOf(core, current)
        <4>1. core.items[current] \in Seq(ItemsOf(core, current))
          BY <1>3, CoreFacts
        <4>2. QED
          BY <4>1
      <3>2. CASE e < edge \/ (e = edge /\ k < pos)
        <4>1. ClosedAcross(current, e, item)
          BY <1>2, <2>1, <3>2 DEF EdgeProgress
        <4>2. DotBefore(item, EdgeSymbol(core, current, e)) =>
                <<EdgeTarget(core, current, e), Advance(item)>> \in Slots(core)
          BY <1>3, <3>1, CoreFacts
        <4>3. QED
          BY <4>1, <4>2, <3>1, <2>2, <1>2, <1>5 DEF ClosedAcross
      <3>3. CASE e = edge /\ k = pos
        <4>1. item = Item /\ EdgeTarget(core, current, e) = Target
          BY <3>3 DEF Item, Target
        <4>2. sends => lookaheads'[<<current, item>>] \subseteq lookaheads'[slot0]
          BY <4>1, <3>1, <1>7, <2>2
        <4>3. QED
          BY <3>3, <4>1, <4>2, <1>2 DEF ClosedAcross
      <3>4. QED
        BY <2>4, <3>2, <3>3 DEF TypeOK
    <2>5. QED
      BY <2>3, <2>4, <1>2 DEF EdgeProgress
  <1>14. QED
    BY <1>1, <1>4, <1>11, <1>12, <1>13

\* The end of one edge: a target that has grown is in the queue before the flag that
\* remembers its growth is reset.
LEMMA FinishEdgeKeepsIInv == IInv /\ FinishEdge => IInv'
  <1> SUFFICES ASSUME IInv, FinishEdge PROVE IInv'
    OBVIOUS
  <1> USE DEF IInv
  <1>1. TypeOK'
    BY NextTypeOK DEF Next
  <1>2. /\ core' = core /\ lookaheads' = lookaheads /\ InEdge /\ pc = "edges" /\ pc' = "edges"
        /\ current' = current /\ edge' = edge + 1 /\ pos' = 1
        /\ pos > Len(core.items[current]) /\ Target \in States(core)
    BY TargetFacts DEF FinishEdge, InEdge, core
  <1>3. ~changed'
    BY DEF FinishEdge
  <1>4. changed => queued'[Target]
    BY <1>2 DEF FinishEdge, TypeOK
  <1>5. \A s \in States(core) : queued[s] => queued'[s]
    BY <1>2 DEF FinishEdge, TypeOK
  <1>6. \A s \in States(core) : Pending(s) => queued'[s]
    BY <1>4, <1>5 DEF Pending
  <1>7. FlagsQueued'
    <2>1. CASE changed /\ ~queued[Target]
      <3>1. work \in Seq(States(core)) /\ work' = Append(work, Target)
        BY <2>1 DEF FinishEdge, TypeOK
      <3>2. queued' = [queued EXCEPT ![Target] = TRUE]
        BY <2>1 DEF FinishEdge
      <3> SUFFICES ASSUME NEW s \in States(core), queued'[s] PROVE s \in Elements(work')
        BY <1>2 DEF FlagsQueued
      <3>3. CASE s = Target
        <4>1. Len(work) + 1 \in DOMAIN work' /\ work'[Len(work) + 1] = s
          BY <3>1, <3>3, <1>2
        <4>2. QED
          BY <4>1 DEF Elements
      <3>4. CASE s # Target
        <4>1. queued[s]
          BY <3>2, <3>4 DEF TypeOK
        <4>2. PICK k \in DOMAIN work : work[k] = s
          BY <4>1 DEF FlagsQueued, Elements
        <4>3. k \in DOMAIN work' /\ work'[k] = s
          BY <3>1, <4>2, <1>2
        <4>4. QED
          BY <4>3 DEF Elements
      <3>5. QED
        BY <3>3, <3>4
    <2>2. CASE ~(changed /\ ~queued[Target])
      <3>1. work' = work /\ queued' = queued
        BY <2>2 DEF FinishEdge
      <3>2. QED
        BY <3>1, <1>2 DEF FlagsQueued
    <2>3. QED
      BY <2>1, <2>2
  <1>8. OthersSettled'
    <2> SUFFICES ASSUME NEW s \in States(core), ~Pending(s)', (s = current => pc \in {"pop", "done"})'
                 PROVE  Settled(s)'
      BY <1>2 DEF OthersSettled
    <2>1. s # current /\ ~queued'[s]
      BY <1>2 DEF Pending
    <2>2. Settled(s)
      BY <2>1, <1>6 DEF OthersSettled
    <2>3. QED
      BY <2>2, <1>2, SameKeepsSettled
  <1>9. PassProgress'
    BY <1>2 DEF PassProgress
  <1>10. EdgeProgress'
    <2> SUFFICES ASSUME ~Pending(current)' PROVE EdgeProgress'
      BY <1>2 DEF EdgeProgress
    <2>1. current \in States(core) /\ edge \in Nat /\ pos \in Nat
      BY DEF TypeOK
    <2>2. ~queued'[current]
      BY <1>2 DEF Pending
    <2>3. ~Pending(current)
      BY <2>1, <2>2, <1>6
    <2>4. \A item \in ItemsOf(core, current) : ClosedInState(current, item)
      BY <2>3, <1>2 DEF EdgeProgress
    <2>5. core.items[current] \in Seq(ItemsOf(core, current))
      BY <2>1, CoreFacts
    <2>6. \A e \in 1 .. Len(core.edges[current]) : \A k \in 1 .. Len(core.items[current]) :
            e < edge + 1 \/ (e = edge + 1 /\ k < 1) => ClosedAcross(current, e, core.items[current][k])
      <3> SUFFICES ASSUME NEW e \in 1 .. Len(core.edges[current]),
                          NEW k \in 1 .. Len(core.items[current]), e < edge + 1 \/ (e = edge + 1 /\ k < 1)
                   PROVE  ClosedAcross(current, e, core.items[current][k])
        OBVIOUS
      <3>1. e < edge \/ (e = edge /\ k < pos)
        BY <2>1, <2>5, <1>2
      <3>2. QED
        BY <3>1, <2>3, <1>2 DEF EdgeProgress
    <2>7. \A item : ClosedInState(current, item) => ClosedInState(current, item)'
      BY <1>2 DEF ClosedInState
    <2>8. \A item \in ItemsOf(core, current) : ClosedInState(current, item)'
      BY <2>4, <2>7
    <2>9. \A e \in 1 .. Len(core.edges[current]) : \A k \in 1 .. Len(core.items[current]) :
             e < edge + 1 \/ (e = edge + 1 /\ k < 1) => ClosedAcross(current, e, core.items[current][k])'
      BY <2>6, <1>2 DEF ClosedAcross
    <2>10. QED
      BY <2>8, <2>9, <1>2 DEF EdgeProgress
  <1>11. QED
    BY <1>1, <1>7, <1>8, <1>9, <1>10

\* The end of a state: its edges are exhausted, so it is settled unless it waits again.
LEMMA FinishStateKeepsIInv == IInv /\ FinishState => IInv'
  <1> SUFFICES ASSUME IInv, FinishState PROVE IInv'
    OBVIOUS
  <1> USE DEF IInv
  <1>1. TypeOK'
    BY NextTypeOK DEF Next
  <1>2. /\ core' = core /\ lookaheads' = lookaheads /\ pc = "edges" /\ pc' = "pop"
        /\ current' = current /\ queued' = queued /\ work' = work /\ edge > Len(core.edges[current])
    BY DEF FinishState, core
  <1>3. current \in States(core) /\ edge \in Nat
    BY DEF TypeOK
  <1>4. core.edges[current] \in Seq(Elements(core.edges[current]))
        /\ core.items[current] \in Seq(ItemsOf(core, current))
    BY <1>3, CoreFacts
  <1>5. ~InEdge
    BY <1>2, <1>3, <1>4 DEF InEdge
  <1>6. FlagsQueued'
    BY <1>2 DEF FlagsQueued
  <1>7. ~queued[current] => Settled(current)
    <2> SUFFICES ASSUME ~queued[current] PROVE Settled(current)
      OBVIOUS
    <2>1. ~Pending(current)
      BY <1>5 DEF Pending
    <2> SUFFICES ASSUME NEW item \in ItemsOf(core, current)
                 PROVE  /\ ClosedInState(current, item)
                        /\ \A e \in 1 .. Len(core.edges[current]) : ClosedAcross(current, e, item)
      BY DEF Settled
    <2>2. PICK k \in DOMAIN core.items[current] : item = core.items[current][k]
      BY DEF ItemsOf, Elements
    <2>3. k \in 1 .. Len(core.items[current])
      BY <1>4, <2>2
    <2>4. \A e \in 1 .. Len(core.edges[current]) : e < edge
      BY <1>2, <1>3, <1>4
    <2>5. QED
      BY <2>1, <2>2, <2>3, <2>4, <1>2 DEF EdgeProgress
  <1>8. OthersSettled'
    <2> SUFFICES ASSUME NEW s \in States(core), ~Pending(s)' PROVE Settled(s)'
      BY <1>2 DEF OthersSettled
    <2>1. ~queued[s]
      BY <1>2 DEF Pending
    <2>2. ~Pending(s)
      BY <2>1, <1>5 DEF Pending
    <2>3. Settled(s)
      BY <2>1, <2>2, <1>7 DEF OthersSettled
    <2>4. QED
      BY <2>3, <1>2, SameKeepsSettled
  <1>9. PassProgress' /\ EdgeProgress'
    BY <1>2 DEF PassProgress, EdgeProgress
  <1>10. QED
    BY <1>1, <1>6, <1>8, <1>9

LEMMA FinishKeepsIInv == IInv /\ Finish => IInv'
  <1> SUFFICES ASSUME IInv, Finish PROVE IInv'
    OBVIOUS
  <1> USE DEF IInv
  <1>1. TypeOK'
    BY NextTypeOK DEF Next
  <1>2. /\ core' = core /\ lookaheads' = lookaheads /\ pc = "pop" /\ pc' = "done"
        /\ current' = current /\ queued' = queued /\ work' = work
    BY DEF Finish, core
  <1>3. FlagsQueued'
    BY <1>2 DEF FlagsQueued
  <1>4. OthersSettled'
    <2> SUFFICES ASSUME NEW s \in States(core), ~Pending(s)' PROVE Settled(s)'
      BY <1>2 DEF OthersSettled
    <2>1. ~Pending(s)
      BY <1>2 DEF Pending, InEdge
    <2>2. Settled(s)
      BY <2>1, <1>2 DEF OthersSettled
    <2>3. QED
      BY <2>2, <1>2, SameKeepsSettled
  <1>5. PassProgress' /\ EdgeProgress'
    BY <1>2 DEF PassProgress, EdgeProgress
  <1>6. QED
    BY <1>1, <1>3, <1>4, <1>5

LEMMA StutterKeepsIInv == IInv /\ UNCHANGED vars => IInv'
  BY DEF vars, IInv, TypeOK, FlagsQueued, OthersSettled, PassProgress, EdgeProgress, core,
         Pending, InEdge, Target, Settled, ClosedInState, ClosedAcross

LEMMA NextIInv == IInv /\ [Next]_vars => IInv'
  BY PopKeepsIInv, InStateKeepsIInv, PassEndKeepsIInv, AcrossKeepsIInv, FinishEdgeKeepsIInv,
     FinishStateKeepsIInv, FinishKeepsIInv, StutterKeepsIInv DEF Next

\* The loop positions, the queue and the flags together remember every propagation that
\* buildLALRPDA still owes.
THEOREM Inductive == Spec => []IInv
  BY InitIInv, NextIInv, PTL DEF Spec

\* Between two iterations of the outer loop of buildLALRPDA a state that is not queued has
\* nothing left to tell its neighbours, for every automaton and every order of its states.
THEOREM NoWakeupIsLost == Spec => []NoLostWakeup
  <1>1. IInv => NoLostWakeup
    BY DEF IInv, NoLostWakeup, OthersSettled, Pending, InEdge
  <1>2. QED
    BY <1>1, Inductive, PTL

\* When buildLALRPDA leaves its loop the lookaheads are closed: the queue is empty, so no
\* flag is set, so every state is settled.
THEOREM ClosedAtTheEnd == Spec => []ClosedWhenDone
  <1> DEFINE Drained == pc = "done" => work = <<>>
  <1>1. Init => Drained
    BY DEF Init
  <1>2. Drained /\ [Next]_vars => Drained'
    BY DEF Next, PopState, PropagateInState, RepeatPass, StartEdges, PropagateAcross, InEdge,
           FinishEdge, FinishState, Finish, vars
  <1>3. IInv /\ Drained => ClosedWhenDone
    <2> SUFFICES ASSUME IInv, Drained, pc = "done", NEW s \in States(core) PROVE Settled(s)
      BY DEF ClosedWhenDone
    <2>1. ~queued[s]
      BY DEF IInv, FlagsQueued, Elements
    <2>2. QED
      BY <2>1 DEF IInv, OthersSettled, Pending, InEdge
  <1>4. QED
    BY <1>1, <1>2, <1>3, Inductive, PTL DEF Spec

(***************************************************************************)
(* The loops of buildLALRPDA implement the exploration of LalrLookaheads,  *)
(* for every automaton: each step adds direct consequences of known facts  *)
(* and nothing else, and the work ends on a closed set.  With the closure  *)
(* at the end this makes the lookaheads the least closed set: exactly the  *)
(* LALR(1) lookaheads.                                                     *)
(***************************************************************************)
LEMMA FactsMembers ==
  ASSUME TypeOK, NEW s, NEW item, NEW a
  PROVE  <<s, item, a>> \in Facts <=>
           /\ s \in States(core) /\ item \in ItemsOf(core, s)
           /\ a \in lookaheads[<<s, item>>]
  <1>1. <<s, item>> \in Slots(core) <=> s \in States(core) /\ item \in ItemsOf(core, s)
    BY DEF Slots
  <1>2. \A slot \in Slots(core) : slot = <<slot[1], slot[2]>>
    BY DEF Slots
  <1>3. <<s, item, a>> \in Facts <=> <<s, item>> \in Slots(core) /\ a \in lookaheads[<<s, item>>]
    BY <1>2 DEF Facts
  <1>4. QED
    BY <1>1, <1>3

LEMMA FactsAreTriples ==
  ASSUME TypeOK, NEW f \in Facts
  PROVE  /\ f = <<f[1], f[2], f[3]>>
         /\ f[1] \in States(core) /\ f[2] \in ItemsOf(core, f[1]) /\ f[3] \in lookaheads[<<f[1], f[2]>>]
         /\ f[3] \in core.tokens
  <1>1. PICK slot \in Slots(core) : \E a \in lookaheads[slot] : f = <<slot[1], slot[2], a>>
    BY DEF Facts
  <1>2. PICK a \in lookaheads[slot] : f = <<slot[1], slot[2], a>>
    BY <1>1
  <1>3. slot = <<slot[1], slot[2]>> /\ slot[1] \in States(core) /\ slot[2] \in ItemsOf(core, slot[1])
    BY DEF Slots
  <1>4. lookaheads[slot] \subseteq core.tokens
    BY DEF TypeOK
  <1>5. QED
    BY <1>2, <1>3, <1>4

\* Both specifications extend Grammar: the instance's copies of its operators are the same.
LEMMA SameVocabulary ==
  /\ Abstract!EndMarker = EndMarker
  /\ \A c : Abstract!StartItem(c) = StartItem(c)
  /\ \A c, item : Abstract!ClosureItems(c, item) = ClosureItems(c, item)
  /\ \A first, item, a : Abstract!FollowingPredicts(first, item, a) = FollowingPredicts(first, item, a)
  /\ \A item : Abstract!Advance(item) = Advance(item)
  /\ \A item, X : Abstract!DotBefore(item, X) = DotBefore(item, X)
  <1>1. /\ Abstract!EndMarker = EndMarker
        /\ \A c : Abstract!StartItem(c) = StartItem(c)
        /\ \A item : Abstract!Advance(item) = Advance(item)
    BY DEF Abstract!EndMarker, EndMarker, Abstract!StartItem, StartItem, Abstract!InitialItem,
           InitialItem, Abstract!AugmentedProduction, AugmentedProduction, Abstract!AugmentedStart,
           AugmentedStart, Abstract!Advance, Advance
  <1>2. \A item : Abstract!IsComplete(item) = IsComplete(item) /\ Abstract!AfterDot(item) = AfterDot(item)
    BY DEF Abstract!IsComplete, IsComplete, Abstract!AfterDot, AfterDot
  <1>3. \A item, X : Abstract!DotBefore(item, X) = DotBefore(item, X)
    BY <1>2 DEF Abstract!DotBefore, DotBefore
  <1>4. \A c, item : Abstract!ClosureItems(c, item) = ClosureItems(c, item)
    <2>1. \A c, X : Abstract!ProductionsOf(c, X) = ProductionsOf(c, X)
      BY DEF Abstract!ProductionsOf, ProductionsOf, Abstract!AllProductions, AllProductions,
             Abstract!AugmentedProduction, AugmentedProduction, Abstract!AugmentedStart, AugmentedStart,
             Abstract!Elements, Elements
    <2>2. \A c, X : Abstract!IsNonterminal(c, X) = IsNonterminal(c, X)
      BY DEF Abstract!IsNonterminal, IsNonterminal, Abstract!AugmentedStart, AugmentedStart
    <2>3. \A p : Abstract!InitialItem(p) = InitialItem(p)
      BY DEF Abstract!InitialItem, InitialItem
    <2>4. QED
      BY <1>2, <2>1, <2>2, <2>3 DEF Abstract!ClosureItems, ClosureItems
  <1>5. \A first, item, a : Abstract!FollowingPredicts(first, item, a) = FollowingPredicts(first, item, a)
    <2>1. \A first, X : Abstract!FirstOf(first, X) = FirstOf(first, X)
      BY DEF Abstract!FirstOf, FirstOf
    <2>2. \A first, X : Abstract!Nullable(first, X) = Nullable(first, X)
      BY <2>1 DEF Abstract!Nullable, Nullable, Abstract!Epsilon, Epsilon
    <2>3. \A first, seq, from, a :
            Abstract!FirstOfSequence(first, seq, from, a) = FirstOfSequence(first, seq, from, a)
      BY <2>1, <2>2 DEF Abstract!FirstOfSequence, FirstOfSequence, Abstract!Epsilon, Epsilon
    <2>4. QED
      BY <1>2, <2>3 DEF Abstract!FollowingPredicts, FollowingPredicts
  <1>6. QED
    BY <1>1, <1>3, <1>4, <1>5

\* The two kinds of consequence, member by member.
LEMMA ConsequenceMembers ==
  ASSUME NEW c, NEW s, NEW item, NEW a, NEW h
  PROVE  h \in Abstract!Consequences(c, <<s, item, a>>) <=>
           \/ h \in {s} \X ClosureItems(c, item) \X FollowingPredicts(c.first, item, a)
           \/ \E e \in DOMAIN c.edges[s] : DotBefore(item, c.edges[s][e][1])
                                           /\ h = <<c.edges[s][e][2], Advance(item), a>>
  <1>1. <<s, item, a>>[1] = s /\ <<s, item, a>>[2] = item /\ <<s, item, a>>[3] = a
    OBVIOUS
  <1>2. Abstract!Consequences(c, <<s, item, a>>) =
          ({s} \X ClosureItems(c, item) \X FollowingPredicts(c.first, item, a))
          \cup {<<c.edges[s][e][2], Advance(item), a>> :
                  e \in {d \in DOMAIN c.edges[s] : DotBefore(item, c.edges[s][d][1])}}
    BY <1>1, SameVocabulary DEF Abstract!Consequences
  <1>3. h \in {<<c.edges[s][e][2], Advance(item), a>> :
                 e \in {d \in DOMAIN c.edges[s] : DotBefore(item, c.edges[s][d][1])}}
        <=> \E e \in DOMAIN c.edges[s] : DotBefore(item, c.edges[s][e][1])
                                           /\ h = <<c.edges[s][e][2], Advance(item), a>>
    OBVIOUS
  <1>4. QED
    BY <1>2, <1>3, Zenon

LEMMA InitRefines == Init => Abstract!Init
  <1> SUFFICES ASSUME Init PROVE Abstract!Init
    OBVIOUS
  <1>1. TypeOK
    BY InitTypeOK
  <1>2. Facts \subseteq {<<0, StartItem(core), EndMarker>>}
    <2> SUFFICES ASSUME NEW f \in Facts PROVE f = <<0, StartItem(core), EndMarker>>
      OBVIOUS
    <2>1. f = <<f[1], f[2], f[3]>> /\ <<f[1], f[2]>> \in Slots(core) /\ f[3] \in lookaheads[<<f[1], f[2]>>]
      BY <1>1, FactsAreTriples DEF Slots
    <2>2. <<f[1], f[2]>> = <<0, StartItem(core)>> /\ f[3] = EndMarker
      BY <2>1 DEF Init
    <2>3. QED
      BY <2>1, <2>2
  <1>3. <<0, StartItem(core), EndMarker>> \in Facts
    <2>1. <<0, StartItem(core)>> \in Slots(core)
      BY <1>1, CoreFacts
    <2>2. 0 \in States(core) /\ StartItem(core) \in ItemsOf(core, 0)
      BY <2>1 DEF Slots
    <2>3. EndMarker \in lookaheads[<<0, StartItem(core)>>]
      BY <2>1 DEF Init
    <2>4. QED
      BY <1>1, <2>2, <2>3, FactsMembers
  <1>4. QED
    <2>1. Facts = {<<0, StartItem(core), EndMarker>>}
      BY <1>2, <1>3
    <2>2. input \in DOMAIN Cores /\ (pc = "done") = FALSE
      BY DEF Init
    <2>3. Facts = {Abstract!Root(Abstract!core)}
      BY <2>1, SameVocabulary DEF Abstract!Root, Abstract!core, core
    <2>4. QED
      BY <2>2, <2>3 DEF Abstract!Init

\* A step that keeps the automaton, loses no fact and adds only consequences is a Learn.
LEMMA LearnStep ==
  ASSUME input' = input, pc # "done", pc' # "done", Facts \subseteq Facts',
         \A f \in Facts' : f \in Facts \/ \E g \in Facts : f \in Abstract!Consequences(core, g)
  PROVE  Abstract!Learn
  BY DEF Abstract!Learn, Abstract!core, core

LEMMA SameFacts ==
  ASSUME core' = core, lookaheads' = lookaheads
  PROVE  Facts' = Facts
  BY DEF Facts

LEMMA InStateRefines == TypeOK /\ PropagateInState => Abstract!Learn
  <1> SUFFICES ASSUME TypeOK, PropagateInState PROVE Abstract!Learn
    OBVIOUS
  <1>1. /\ core' = core /\ input' = input /\ pc # "done" /\ pc' # "done" /\ TypeOK'
        /\ pos <= Len(core.items[current])
    BY NextTypeOK DEF PropagateInState, core, Next
  <1>2. Item \in ItemsOf(core, current) /\ current \in States(core)
    BY <1>1, ItemFacts DEF TypeOK
  <1>3. \A slot \in Slots(core) :
          /\ lookaheads[slot] \subseteq lookaheads'[slot]
          /\ \A a \in lookaheads'[slot] : a \in lookaheads[slot] \/
               (slot[1] = current /\ slot[2] \in ClosureItems(core, Item) /\ a \in PropagatedPredicts(Item))
    BY DEF PropagateInState
  <1>4. Facts \subseteq Facts'
    BY <1>1, <1>3 DEF Facts
  <1>5. \A f \in Facts' : f \in Facts \/ \E g \in Facts : f \in Abstract!Consequences(core, g)
    <2> SUFFICES ASSUME NEW f \in Facts', f \notin Facts
                 PROVE  \E g \in Facts : f \in Abstract!Consequences(core, g)
      OBVIOUS
    <2>1. PICK slot \in Slots(core) : \E a \in lookaheads'[slot] : f = <<slot[1], slot[2], a>>
      BY <1>1 DEF Facts
    <2>2. PICK a \in lookaheads'[slot] : f = <<slot[1], slot[2], a>>
      BY <2>1
    <2>3. a \notin lookaheads[slot]
      BY <2>2 DEF Facts
    <2>4. slot[1] = current /\ slot[2] \in ClosureItems(core, Item) /\ a \in PropagatedPredicts(Item)
      BY <1>3, <2>3
    <2>5. PICK b \in lookaheads[<<current, Item>>] : a \in FollowingPredicts(core.first, Item, b)
      BY <2>4 DEF PropagatedPredicts
    <2>6. <<current, Item, b>> \in Facts
      BY <1>2, <2>5, FactsMembers
    <2>7. f \in Abstract!Consequences(core, <<current, Item, b>>)
      BY <2>2, <2>4, <2>5, ConsequenceMembers
    <2>8. QED
      BY <2>6, <2>7
  <1>6. QED
    BY <1>1, <1>4, <1>5, LearnStep

LEMMA AcrossRefines == TypeOK /\ PropagateAcross => Abstract!Learn
  <1> SUFFICES ASSUME TypeOK, PropagateAcross PROVE Abstract!Learn
    OBVIOUS
  <1>1. /\ core' = core /\ input' = input /\ pc # "done" /\ pc' # "done" /\ TypeOK'
        /\ InEdge /\ pos <= Len(core.items[current])
    BY NextTypeOK DEF PropagateAcross, InEdge, core, Next
  <1>2. Item \in ItemsOf(core, current) /\ current \in States(core) /\ edge \in 1 .. Len(core.edges[current])
    BY <1>1, ItemFacts, TargetFacts DEF TypeOK
  <1>3. core.edges[current] \in Seq(Elements(core.edges[current]))
    BY <1>2, CoreFacts
  <1> DEFINE sends == DotBefore(Item, EdgeSymbol(core, current, edge))
             slot0 == <<Target, Advance(Item)>>
  <1>4. \A slot \in Slots(core) :
          /\ lookaheads[slot] \subseteq lookaheads'[slot]
          /\ \A a \in lookaheads'[slot] : a \in lookaheads[slot] \/
               (sends /\ slot = slot0 /\ a \in lookaheads[<<current, Item>>])
    <2>1. CASE sends
      BY <2>1 DEF PropagateAcross, TypeOK
    <2>2. CASE ~sends
      BY <2>2 DEF PropagateAcross
    <2>3. QED
      BY <2>1, <2>2
  <1>5. Facts \subseteq Facts'
    BY <1>1, <1>4 DEF Facts
  <1>6. \A f \in Facts' : f \in Facts \/ \E g \in Facts : f \in Abstract!Consequences(core, g)
    <2> SUFFICES ASSUME NEW f \in Facts', f \notin Facts
                 PROVE  \E g \in Facts : f \in Abstract!Consequences(core, g)
      OBVIOUS
    <2>1. PICK slot \in Slots(core) : \E a \in lookaheads'[slot] : f = <<slot[1], slot[2], a>>
      BY <1>1 DEF Facts
    <2>2. PICK a \in lookaheads'[slot] : f = <<slot[1], slot[2], a>>
      BY <2>1
    <2>3. a \notin lookaheads[slot]
      BY <2>2 DEF Facts
    <2>4. sends /\ slot = slot0 /\ a \in lookaheads[<<current, Item>>]
      BY <1>4, <2>3
    <2>5. <<current, Item, a>> \in Facts
      BY <1>2, <2>4, FactsMembers
    <2>6. f = <<core.edges[current][edge][2], Advance(Item), a>>
      BY <2>2, <2>4 DEF Target, EdgeTarget
    <2>7. edge \in DOMAIN core.edges[current] /\ DotBefore(Item, core.edges[current][edge][1])
      BY <1>2, <1>3, <2>4 DEF EdgeSymbol
    <2>8. f \in Abstract!Consequences(core, <<current, Item, a>>)
      BY <2>6, <2>7, ConsequenceMembers
    <2>9. QED
      BY <2>5, <2>8
  <1>7. QED
    BY <1>1, <1>5, <1>6, LearnStep

\* Settled everywhere is closed under consequences.
LEMMA SettledIsClosed ==
  ASSUME TypeOK, \A s \in States(core) : Settled(s)
  PROVE  Abstract!IsClosed(core, Facts)
  <1> SUFFICES ASSUME NEW f \in Facts, NEW h \in Abstract!Consequences(core, f) PROVE h \in Facts
    BY DEF Abstract!IsClosed
  <1> DEFINE s == f[1]
             item == f[2]
             a == f[3]
  <1>1. s \in States(core) /\ item \in ItemsOf(core, s) /\ a \in lookaheads[<<s, item>>]
    BY FactsAreTriples
  <1>2. Settled(s)
    BY <1>1
  <1>3. CASE h \in {s} \X ClosureItems(core, item) \X FollowingPredicts(core.first, item, a)
    <2>1. h = <<s, h[2], h[3]>> /\ h[2] \in ClosureItems(core, item)
          /\ h[3] \in FollowingPredicts(core.first, item, a)
      BY <1>3
    <2>2. h[3] \in lookaheads[<<s, h[2]>>]
      BY <1>1, <1>2, <2>1 DEF Settled, ClosedInState
    <2>3. h[2] \in ItemsOf(core, s)
      BY <1>1, <2>1, CoreFacts
    <2>4. QED
      BY <1>1, <2>1, <2>2, <2>3, FactsMembers
  <1>4. CASE \E e \in DOMAIN core.edges[s] : DotBefore(item, core.edges[s][e][1])
                                              /\ h = <<core.edges[s][e][2], Advance(item), a>>
    <2>1. PICK e \in DOMAIN core.edges[s] : DotBefore(item, core.edges[s][e][1])
                                              /\ h = <<core.edges[s][e][2], Advance(item), a>>
      BY <1>4
    <2>2. e \in 1 .. Len(core.edges[s])
      BY <1>1, <2>1, CoreFacts
    <2>3. a \in lookaheads[<<EdgeTarget(core, s, e), Advance(item)>>]
      BY <1>1, <1>2, <2>1, <2>2 DEF Settled, ClosedAcross, EdgeSymbol
    <2>4. <<EdgeTarget(core, s, e), Advance(item)>> \in Slots(core)
      BY <1>1, <2>1, <2>2, CoreFacts DEF EdgeSymbol
    <2>5. EdgeTarget(core, s, e) \in States(core) /\ Advance(item) \in ItemsOf(core, EdgeTarget(core, s, e))
      BY <2>4 DEF Slots
    <2>6. QED
      BY <2>1, <2>3, <2>5, FactsMembers DEF EdgeTarget
  <1>5. QED
    <2>1. f = <<s, item, a>>
      BY FactsAreTriples
    <2>2. h \in Abstract!Consequences(core, <<s, item, a>>)
      BY <2>1
    <2>3. QED
      BY <2>2, <1>3, <1>4, ConsequenceMembers

LEMMA FinishRefines == IInv /\ Finish => Abstract!Stop
  <1> SUFFICES ASSUME IInv, Finish PROVE Abstract!Stop
    OBVIOUS
  <1>1. \A s \in States(core) : Settled(s)
    <2> SUFFICES ASSUME NEW s \in States(core) PROVE Settled(s)
      OBVIOUS
    <2>1. ~queued[s]
      BY DEF IInv, FlagsQueued, Elements, Finish
    <2>2. QED
      BY <2>1 DEF IInv, OthersSettled, Pending, InEdge, Finish
  <1>2. Abstract!IsClosed(core, Facts)
    BY <1>1, SettledIsClosed DEF IInv
  <1>3. core' = core /\ input' = input /\ lookaheads' = lookaheads /\ pc = "pop" /\ pc' = "done"
    BY DEF Finish, core
  <1>4. Facts' = Facts
    BY <1>3, SameFacts
  <1>5. QED
    BY <1>2, <1>3, <1>4 DEF Abstract!Stop, Abstract!core, core

LEMMA StepRefines == IInv /\ [Next]_vars => [Abstract!Next]_(Abstract!vars)
  <1> SUFFICES ASSUME IInv, [Next]_vars PROVE Abstract!Next \/ UNCHANGED Abstract!vars
    OBVIOUS
  <1>1. CASE PropagateInState \/ PropagateAcross
    BY <1>1, InStateRefines, AcrossRefines DEF IInv, Abstract!Next
  <1>2. CASE Finish
    BY <1>2, FinishRefines DEF Abstract!Next
  <1>3. CASE PopState \/ RepeatPass \/ StartEdges \/ FinishEdge \/ FinishState \/ UNCHANGED vars
    <2>1. input' = input /\ lookaheads' = lookaheads /\ (pc' = "done" <=> pc = "done")
      BY <1>3 DEF PopState, RepeatPass, StartEdges, FinishEdge, InEdge, FinishState, vars
    <2>2. Facts' = Facts
      BY <2>1, SameFacts DEF core
    <2>3. QED
      BY <2>1, <2>2 DEF Abstract!vars
  <1>4. QED
    BY <1>1, <1>2, <1>3 DEF Next

\* The work-list loops of buildLALRPDA implement the abstract exploration.
THEOREM Refinement == Spec => ImplementsExploration
  BY InitRefines, StepRefines, Inductive, PTL DEF Spec, ImplementsExploration, Abstract!Spec

\* Nothing is invented: whatever set of facts contains the start fact and is closed under
\* the consequences contains every lookahead buildLALRPDA ever records.  With
\* ClosedAtTheEnd, the result is the least such set.
THEOREM NothingInvented ==
  ASSUME NEW CONSTANT F,
         \A n \in DOMAIN Cores : Abstract!Root(Cores[n]) \in F[n] /\ Abstract!IsClosed(Cores[n], F[n])
  PROVE  Spec => [](Facts \subseteq F[input])
  <1>1. Abstract!Init => Facts \subseteq F[input]
    BY DEF Abstract!Init, Abstract!core
  <1>2. TypeOK /\ Facts \subseteq F[input] /\ [Abstract!Next]_(Abstract!vars) => (Facts \subseteq F[input])'
    BY DEF TypeOK, Abstract!Next, Abstract!Learn, Abstract!Stop, Abstract!vars, Abstract!IsClosed, Abstract!core
  <1>3. QED
    BY <1>1, <1>2, Refinement, TypeCorrect, PTL DEF ImplementsExploration, Abstract!Spec

-----------------------------------------------------------------------------
(***************************************************************************)
(* The result is LALR(1) by its definition: the facts are those of the     *)
(* canonical LR(1) states, merged along the walk through both automata.    *)
(***************************************************************************)
\* A set of facts that is closed inside a state holds the facts of a closure when it holds
\* those of the kernel.
LEMMA ClosureFacts ==
  ASSUME NEW c, IsCore(c), NEW F, Abstract!IsClosed(c, F), NEW s, NEW K \in SUBSET PairItems(c),
         \A x \in K : <<s, x[1], x[2]>> \in F
  PROVE  \A x \in Lr1Closure(c, c.first, K) : <<s, x[1], x[2]>> \in F
<1> DEFINE Z == {x \in Pairs(c, K) : <<s, x[1], x[2]>> \in F}
           new(x) == ClosureItems(c, x[1]) \X FollowingPredicts(c.first, x[1], x[2])
<1>1. HasFirst(c, c.first) /\ HasProducers(c) BY DEF IsCore, HasFirst
<1>2. K \subseteq Lr1Closure(c, c.first, K) /\ Lr1Closure(c, c.first, K) \subseteq Pairs(c, K) BY <1>1, Lr1ClosureEnds
<1>3. K \subseteq Z BY <1>2
<1>4. \A x \in Z : new(x) \subseteq Z
  <2> SUFFICES ASSUME NEW x \in Z, NEW z \in new(x) PROVE z \in Z OBVIOUS
  <2>1. x \in Pairs(c, K) /\ <<s, x[1], x[2]>> \in F /\ x[1] \in AnyItems(c) /\ x[2] \in LookaheadsOf(K) \cup OwnSymbols(c)
    BY DEF Pairs
  <2>2. z[1] \in ClosureItems(c, x[1]) /\ z[2] \in FollowingPredicts(c.first, x[1], x[2]) /\ z = <<z[1], z[2]>>
    OBVIOUS
  <2>3. <<s, z[1], z[2]>> \in {s} \X ClosureItems(c, x[1]) \X FollowingPredicts(c.first, x[1], x[2]) BY <2>2
  <2>4. <<s, z[1], z[2]>> \in Abstract!Consequences(c, <<s, x[1], x[2]>>) BY <2>3, ConsequenceMembers
  <2>5. <<s, z[1], z[2]>> \in F BY <2>1, <2>4 DEF Abstract!IsClosed
  <2>6. z[1] \in AnyItems(c) BY <1>1, <2>2, AddedItems, CoreItemsShape
  <2>7. FollowingPredicts(c.first, x[1], x[2]) \subseteq OwnSymbols(c) \cup {x[2]} BY <1>1, <2>1, AddedPredicts
  <2>8. z \in Pairs(c, K) BY <2>1, <2>2, <2>6, <2>7 DEF Pairs
  <2> QED BY <2>5, <2>8
<1>5. Z \in SUBSET Pairs(c, K) OBVIOUS
<1> HIDE DEF Z
<1>6. Lr1Closure(c, c.first, K) \subseteq Z BY <1>1, <1>3, <1>4, <1>5, Lr1ClosureEnds
<1> QED BY <1>6 DEF Z

\* Whatever set of facts holds the start fact and is closed under the consequences holds the
\* merged lookaheads.
LEMMA MergedIsContained ==
  ASSUME NEW c, IsCore(c), NEW F, Abstract!IsClosed(c, F), <<0, StartItem(c), EndMarker>> \in F
  PROVE  MergedCanonical(c) \subseteq F
<1> DEFINE Z == {pair \in States(c) \X SUBSET PairItems(c) : \A x \in pair[2] : <<pair[1], x[1], x[2]>> \in F}
<1>1. HasFirst(c, c.first) /\ HasProducers(c) /\ c.states \in Nat \ {0} BY DEF IsCore, HasFirst
<1>2. <<0, Lr1Start(c, c.first)>> \in Z
  <2> DEFINE K == {<<StartItem(c), EndMarker>>}
  <2>1. K \in SUBSET PairItems(c) /\ \A x \in K : <<0, x[1], x[2]>> \in F BY <1>1, StartPair
  <2>2. Lr1Start(c, c.first) = Lr1Closure(c, c.first, K) BY DEF Lr1Start
  <2> HIDE DEF K
  <2>3. \A x \in Lr1Closure(c, c.first, K) : <<0, x[1], x[2]>> \in F BY <2>1, ClosureFacts
  <2>4. 0 \in States(c) /\ Lr1Start(c, c.first) \in SUBSET PairItems(c) BY <1>1, Lr1Sets DEF States
  <2> QED BY <2>2, <2>3, <2>4
<1>3. ASSUME NEW pair \in Z, NEW e \in Elements(c.edges[pair[1]])
      PROVE  <<e[2], Lr1Goto(c, c.first, pair[2], e[1])>> \in Z
  <2> DEFINE s == pair[1]
             K == Moved(pair[2], e[1])
  <2>1. s \in States(c) /\ pair[2] \in SUBSET PairItems(c) /\ \A x \in pair[2] : <<s, x[1], x[2]>> \in F OBVIOUS
  <2>2. c.edges[s] \in Seq(Elements(c.edges[s])) BY <2>1 DEF IsCore
  <2>3. PICK k \in 1 .. Len(c.edges[s]) : e = c.edges[s][k] BY <2>2 DEF Elements
  <2>4. e[2] \in States(c) BY <2>1, <2>3 DEF IsCore, EdgeTarget
  <2>5. K \in SUBSET PairItems(c) BY <1>1, <2>1, MovedPairs
  <2>6. \A x \in K : <<e[2], x[1], x[2]>> \in F
    <3> SUFFICES ASSUME NEW y \in pair[2], DotBefore(y[1], e[1]) PROVE <<e[2], Advance(y[1]), y[2]>> \in F
      BY DEF Moved
    <3>1. <<e[2], Advance(y[1]), y[2]>> \in Abstract!Consequences(c, <<s, y[1], y[2]>>)
      <4>1. k \in DOMAIN c.edges[s] BY <2>2
      <4> QED BY <2>3, <4>1, ConsequenceMembers
    <3>2. <<s, y[1], y[2]>> \in F BY <2>1
    <3> QED BY <3>1, <3>2 DEF Abstract!IsClosed
  <2>7. Lr1Goto(c, c.first, pair[2], e[1]) = Lr1Closure(c, c.first, K) BY DEF Lr1Goto, Moved
  <2> HIDE DEF K
  <2>8. \A x \in Lr1Closure(c, c.first, K) : <<e[2], x[1], x[2]>> \in F BY <2>5, <2>6, ClosureFacts
  <2>9. Lr1Goto(c, c.first, pair[2], e[1]) \in SUBSET PairItems(c) BY <1>1, <2>1, Lr1Sets
  <2> QED BY <2>4, <2>7, <2>8, <2>9
<1>4. IsWalk(c, Z)
  <2>1. Z \in SUBSET (States(c) \X SUBSET PairItems(c)) OBVIOUS
  <2> HIDE DEF Z
  <2> QED BY <1>2, <1>3, <2>1 DEF IsWalk
<1>5. PICK R : /\ MergedCanonical(c) = FactsOf(R) /\ IsWalk(c, R)
               /\ \A Y : IsWalk(c, Y) => R \subseteq Y
  BY MergedCanonicalIsLeast
<1>6. R \subseteq Z
  <2> HIDE DEF Z
  <2> QED BY <1>4, <1>5
<1> QED BY <1>5, <1>6 DEF FactsOf

\* The merged lookaheads hold the start fact and are closed under the consequences.
LEMMA MergedIsClosed ==
  ASSUME NEW c, IsCore(c)
  PROVE  Abstract!Root(c) \in MergedCanonical(c) /\ Abstract!IsClosed(c, MergedCanonical(c))
<1> DEFINE IsFull(items) == \A x \in items :
             ClosureItems(c, x[1]) \X FollowingPredicts(c.first, x[1], x[2]) \subseteq items
<1>1. HasFirst(c, c.first) /\ HasProducers(c) BY DEF IsCore, HasFirst
<1>2. PICK R : /\ MergedCanonical(c) = FactsOf(R) /\ IsWalk(c, R)
               /\ \A Y : IsWalk(c, Y) => R \subseteq Y
  BY MergedCanonicalIsLeast
<1> DEFINE Z == {pair \in R : IsFull(pair[2])}
<1>3. \A K \in SUBSET PairItems(c) : K \subseteq Lr1Closure(c, c.first, K) /\ IsFull(Lr1Closure(c, c.first, K))
  BY <1>1, Lr1ClosureEnds
<1>4. {<<StartItem(c), EndMarker>>} \in SUBSET PairItems(c) BY <1>1, StartPair
<1>5. <<StartItem(c), EndMarker>> \in Lr1Start(c, c.first) /\ IsFull(Lr1Start(c, c.first))
  <2> HIDE DEF IsFull
  <2> QED BY <1>3, <1>4 DEF Lr1Start
<1>6. ASSUME NEW items \in SUBSET PairItems(c), NEW X
      PROVE  Moved(items, X) \subseteq Lr1Goto(c, c.first, items, X) /\ IsFull(Lr1Goto(c, c.first, items, X))
  <2>1. Lr1Goto(c, c.first, items, X) = Lr1Closure(c, c.first, Moved(items, X)) BY DEF Lr1Goto, Moved
  <2>2. Moved(items, X) \in SUBSET PairItems(c) BY <1>1, MovedPairs
  <2> HIDE DEF IsFull
  <2> QED BY <1>3, <2>1, <2>2
<1> HIDE DEF IsFull
<1>7. R \in SUBSET (States(c) \X SUBSET PairItems(c)) BY <1>2 DEF IsWalk
<1>8. \A pair \in R : pair[2] \in SUBSET PairItems(c) BY <1>7
<1>9. IsWalk(c, Z)
  <2>1. <<0, Lr1Start(c, c.first)>> \in Z BY <1>2, <1>5 DEF IsWalk
  <2>2. ASSUME NEW pair \in Z, NEW e \in Elements(c.edges[pair[1]]), e[1] \in SymbolsAfterDots(CoresOf(pair[2]))
        PROVE  <<e[2], Lr1Goto(c, c.first, pair[2], e[1])>> \in Z
    <3>1. <<e[2], Lr1Goto(c, c.first, pair[2], e[1])>> \in R BY <1>2, <2>2 DEF IsWalk
    <3> QED BY <1>6, <1>8, <3>1
  <2>3. Z \in SUBSET (States(c) \X SUBSET PairItems(c)) BY <1>7
  <2> HIDE DEF Z
  <2> QED BY <2>1, <2>2, <2>3 DEF IsWalk
<1>10. R \subseteq Z
  <2> HIDE DEF Z
  <2> QED BY <1>2, <1>9
<1>11. \A pair \in R : IsFull(pair[2]) BY <1>10
<1>12. \A pair \in R : \A x \in pair[2] : <<pair[1], x[1], x[2]>> \in MergedCanonical(c) BY <1>2 DEF FactsOf
<1>13. Abstract!Root(c) \in MergedCanonical(c)
  <2>1. <<0, Lr1Start(c, c.first)>> \in R BY <1>2 DEF IsWalk
  <2>2. <<0, StartItem(c), EndMarker>> \in MergedCanonical(c) BY <1>5, <1>12, <2>1
  <2> QED BY <2>2, SameVocabulary DEF Abstract!Root
<1>14. ASSUME NEW pair \in R, NEW x \in pair[2], NEW h \in Abstract!Consequences(c, <<pair[1], x[1], x[2]>>)
       PROVE  h \in MergedCanonical(c)
  <2> DEFINE s == pair[1]
  <2>1. CASE h \in {s} \X ClosureItems(c, x[1]) \X FollowingPredicts(c.first, x[1], x[2])
    <3>1. h = <<s, h[2], h[3]>> /\ <<h[2], h[3]>> \in ClosureItems(c, x[1]) \X FollowingPredicts(c.first, x[1], x[2])
      BY <2>1
    <3>2. <<h[2], h[3]>> \in pair[2] BY <1>11, <3>1 DEF IsFull
    <3> QED BY <1>12, <3>1, <3>2
  <2>2. CASE \E e \in DOMAIN c.edges[s] : DotBefore(x[1], c.edges[s][e][1])
                                          /\ h = <<c.edges[s][e][2], Advance(x[1]), x[2]>>
    <3>1. PICK k \in DOMAIN c.edges[s] : DotBefore(x[1], c.edges[s][k][1])
                                          /\ h = <<c.edges[s][k][2], Advance(x[1]), x[2]>>
      BY <2>2
    <3> DEFINE e == c.edges[s][k]
               goto == Lr1Goto(c, c.first, pair[2], e[1])
    <3>2. e \in Elements(c.edges[pair[1]]) BY DEF Elements
    <3>3. e[1] \in SymbolsAfterDots(CoresOf(pair[2])) BY <3>1 DEF DotBefore, SymbolsAfterDots, CoresOf
    <3>4. <<e[2], goto>> \in R BY <1>2, <3>2, <3>3 DEF IsWalk
    <3>5. <<Advance(x[1]), x[2]>> \in goto
      <4>1. <<Advance(x[1]), x[2]>> \in Moved(pair[2], e[1]) BY <3>1 DEF Moved
      <4> QED BY <1>6, <1>8, <4>1
    <3>6. h = <<e[2], Advance(x[1]), x[2]>> BY <3>1
    <3> HIDE DEF e, goto
    <3> QED BY <1>12, <3>4, <3>5, <3>6
  <2> QED BY <1>14, <2>1, <2>2, ConsequenceMembers
<1>15. Abstract!IsClosed(c, MergedCanonical(c))
  <2> SUFFICES ASSUME NEW f \in MergedCanonical(c), NEW h \in Abstract!Consequences(c, f) PROVE h \in MergedCanonical(c)
    BY DEF Abstract!IsClosed
  <2>1. PICK pair \in R : \E x \in pair[2] : f = <<pair[1], x[1], x[2]>> BY <1>2 DEF FactsOf
  <2>2. PICK x \in pair[2] : f = <<pair[1], x[1], x[2]>> BY <2>1
  <2> QED BY <1>14, <2>2
<1> QED BY <1>13, <1>15

\* When the loops of buildLALRPDA end, every item has exactly the lookaheads that it has in
\* the canonical LR(1) states merged by core: no valid program is rejected for one that is
\* missing, and no error is found late for one too many.
THEOREM LookaheadsExact == Spec => []ExactlyLalr
<1> DEFINE Between == Abstract!Root(core) \in Facts /\ Facts \subseteq MergedCanonical(core)
<1>1. Abstract!Init => Between
  <2> SUFFICES ASSUME Abstract!Init PROVE Between OBVIOUS
  <2>1. IsCore(core) /\ Facts = {Abstract!Root(core)}
    BY CoresAssumption DEF Abstract!Init, Abstract!core, core
  <2> QED BY <2>1, MergedIsClosed
<1>2. TypeOK /\ Between /\ [Abstract!Next]_(Abstract!vars) => Between'
  <2> SUFFICES ASSUME TypeOK, Between, [Abstract!Next]_(Abstract!vars) PROVE Between' OBVIOUS
  <2>1. IsCore(core) BY CoresAssumption DEF TypeOK, core
  <2>2. Abstract!IsClosed(core, MergedCanonical(core)) BY <2>1, MergedIsClosed
  <2>3. core' = core BY DEF Abstract!Next, Abstract!Learn, Abstract!Stop, Abstract!vars, core
  <2>4. Facts \subseteq Facts' BY DEF Abstract!Next, Abstract!Learn, Abstract!Stop, Abstract!vars
  <2>5. Facts' \subseteq Facts \cup UNION {Abstract!Consequences(core, f) : f \in Facts}
    BY DEF Abstract!Next, Abstract!Learn, Abstract!Stop, Abstract!vars, Abstract!core, core
  <2>6. Facts' \subseteq MergedCanonical(core) BY <2>2, <2>5 DEF Abstract!IsClosed
  <2> QED BY <2>3, <2>4, <2>6
<1>3. TypeOK /\ ClosedWhenDone /\ Between => ExactlyLalr
  <2> SUFFICES ASSUME TypeOK, ClosedWhenDone, Between, pc = "done"
               PROVE  Facts = MergedCanonical(core)
    BY DEF ExactlyLalr
  <2>1. IsCore(core) BY CoresAssumption DEF TypeOK, core
  <2>2. Abstract!IsClosed(core, Facts) BY SettledIsClosed DEF ClosedWhenDone
  <2>3. <<0, StartItem(core), EndMarker>> \in Facts BY SameVocabulary DEF Abstract!Root
  <2>4. MergedCanonical(core) \subseteq Facts BY <2>1, <2>2, <2>3, MergedIsContained
  <2> QED BY <2>4
<1> QED BY <1>1, <1>2, <1>3, Refinement, TypeCorrect, ClosedAtTheEnd, PTL DEF ImplementsExploration, Abstract!Spec
=============================================================================
