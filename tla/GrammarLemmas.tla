---------------------------- MODULE GrammarLemmas ----------------------------
(***************************************************************************)
(* Lemmas about the vocabulary of Grammar and the references of            *)
(* GrammarReference, for every grammar: loops that grow a set until        *)
(* nothing is new, the FIRST sets of sequences, the closures of item sets, *)
(* the spans of words, and what is alive behind a stack.  The proofs about *)
(* the propagation, the pipeline and the generated parser use them.        *)
(***************************************************************************)
EXTENDS GrammarReference, FiniteSetTheorems, WellFoundedInduction, TLAPS

\* A set of numbers has a least one.
LEMMA LeastOf ==
  ASSUME NEW T \in SUBSET Nat, T # {}
  PROVE  \E m \in T : \A k \in T : m <= k
<1>1. PICK m \in T : \A k \in T : ~(<<k, m>> \in OpToRel(<, Nat))
  BY WFMin, NatLessThanWellFounded, Zenon
<1>2. \A k \in T : ~(k < m) BY <1>1 DEF OpToRel
<1>3. \A k \in T : m <= k BY <1>2
<1> QED BY <1>3

-----------------------------------------------------------------------------
(***************************************************************************)
(* Growing a set until nothing is new, as the closures of item sets do.    *)
(* F adds what one round adds; g is the loop around it.                    *)
(***************************************************************************)
Adds(F, V) ==
  /\ F \in [SUBSET V -> SUBSET V]
  /\ \A S \in SUBSET V : S \subseteq F[S]
  /\ \A S, T \in SUBSET V : S \subseteq T => F[S] \subseteq F[T]

Grows(g, F, V) == g = [S \in SUBSET V |-> IF F[S] = S THEN S ELSE g[F[S]]]

\* There is such a loop: the least set above S that F adds nothing to does not change when
\* S is replaced by F[S].
LEMMA GrowthExists ==
  ASSUME NEW V, NEW F, Adds(F, V)
  PROVE  \E g : Grows(g, F, V)
<1> DEFINE Above(S) == {Z \in SUBSET V : S \subseteq Z /\ F[Z] = Z}
           g == [S \in SUBSET V |-> {x \in V : \A Z \in Above(S) : x \in Z}]
<1>1. ASSUME NEW S \in SUBSET V PROVE g[S] = IF F[S] = S THEN S ELSE g[F[S]]
  <2>1. F[S] \in SUBSET V BY DEF Adds
  <2>2. CASE F[S] = S
    <3>1. S \in Above(S) BY <2>2
    <3>2. g[S] \subseteq S BY <3>1
    <3>3. S \subseteq g[S] OBVIOUS
    <3> QED BY <2>2, <3>2, <3>3
  <2>3. CASE F[S] # S
    <3>1. Above(F[S]) = Above(S)
      <4>1. \A Z \in SUBSET V : F[Z] = Z => (S \subseteq Z <=> F[S] \subseteq Z) BY DEF Adds
      <4> QED BY <4>1
    <3> QED BY <2>1, <2>3, <3>1
  <2> QED BY <2>2, <2>3
<1> HIDE DEF Above
<1>2. DOMAIN g = SUBSET V OBVIOUS
<1>3. g = [S \in SUBSET V |-> g[S]] OBVIOUS
<1> HIDE DEF g
<1>4. g = [S \in SUBSET V |-> IF F[S] = S THEN S ELSE g[F[S]]] BY <1>1, <1>3
<1> QED BY <1>4 DEF Grows

\* Inside a finite set that F does not leave, the loop ends, in the least set above the one
\* it began with that F adds nothing to.
LEMMA GrowthEnds ==
  ASSUME NEW V, NEW F, Adds(F, V), NEW g, Grows(g, F, V),
         NEW U \in SUBSET V, IsFiniteSet(U), \A S \in SUBSET U : F[S] \subseteq U,
         NEW K \in SUBSET U
  PROVE  /\ K \subseteq g[K] /\ g[K] \subseteq U /\ F[g[K]] = g[K]
         /\ \A Z \in SUBSET V : K \subseteq Z /\ F[Z] = Z => g[K] \subseteq Z
<1> DEFINE Good(S) == /\ S \subseteq g[S] /\ g[S] \subseteq U /\ F[g[S]] = g[S]
                      /\ \A Z \in SUBSET V : S \subseteq Z /\ F[Z] = Z => g[S] \subseteq Z
           Bad  == {S \in SUBSET U : ~Good(S)}
           Left == {Cardinality(U \ S) : S \in Bad}
<1>1. \A S \in SUBSET U : IsFiniteSet(U \ S) /\ Cardinality(U \ S) \in Nat
  BY FS_Subset, FS_CardinalityType
<1>2. Bad = {}
  <2> SUFFICES ASSUME Bad # {} PROVE FALSE OBVIOUS
  <2>1. Left \in SUBSET Nat /\ Left # {}
    <3> HIDE DEF Good
    <3> QED BY <1>1
  <2>2. PICK m \in Left : \A k \in Left : m <= k BY <2>1, LeastOf
  <2>3. PICK S \in Bad : m = Cardinality(U \ S) BY <2>2
  <2>4. S \in SUBSET U /\ S \in SUBSET V /\ ~Good(S) BY <2>3
  <2>5. g[S] = IF F[S] = S THEN S ELSE g[F[S]] BY <2>4 DEF Grows
  <2>6. F[S] # S
    <3> SUFFICES ASSUME F[S] = S PROVE FALSE OBVIOUS
    <3>1. g[S] = S BY <2>5
    <3>2. Good(S) BY <2>4, <3>1
    <3> QED BY <2>4, <3>2
  <2>7. S \subseteq F[S] /\ F[S] \in SUBSET U BY <2>4 DEF Adds
  <2>8. Cardinality(U \ F[S]) < Cardinality(U \ S)
    <3>1. (U \ F[S]) \in SUBSET (U \ S) /\ U \ F[S] # U \ S BY <2>4, <2>6, <2>7
    <3>2. Cardinality(U \ F[S]) <= Cardinality(U \ S) /\ Cardinality(U \ F[S]) # Cardinality(U \ S)
      BY <1>1, <2>4, <3>1, FS_Subset
    <3>3. Cardinality(U \ F[S]) \in Nat /\ Cardinality(U \ S) \in Nat BY <1>1, <2>4, <2>7
    <3> QED BY <3>2, <3>3
  <2>9. F[S] \notin Bad
    <3> SUFFICES ASSUME F[S] \in Bad PROVE FALSE OBVIOUS
    <3>1. m <= Cardinality(U \ F[S])
      <4> HIDE DEF Good, Bad
      <4> QED BY <2>2
    <3>2. Cardinality(U \ F[S]) \in Nat /\ Cardinality(U \ S) \in Nat BY <1>1, <2>4, <2>7
    <3> QED BY <2>3, <2>8, <3>1, <3>2
  <2>10. Good(F[S]) BY <2>7, <2>9
  <2>11. g[S] = g[F[S]] BY <2>5, <2>6
  <2>12. \A Z \in SUBSET V : S \subseteq Z /\ F[Z] = Z => F[S] \subseteq Z BY <2>4 DEF Adds
  <2>13. Good(S) BY <2>7, <2>10, <2>11, <2>12
  <2> QED BY <2>4, <2>13
<1> QED BY <1>2

LEMMA ImageIsFinite ==
  ASSUME NEW S, IsFiniteSet(S), NEW f, DOMAIN f = S
  PROVE  IsFiniteSet({f[x] : x \in S})
<1> DEFINE T == {f[x] : x \in S}
           g == [x \in S |-> f[x]]
<1>1. g \in [S -> T] /\ \A y \in T : \E x \in S : g[x] = y OBVIOUS
<1> HIDE DEF T, g
<1>2. g \in Surjection(S, T) BY <1>1 DEF Surjection
<1>3. IsFiniteSet(T) BY <1>2, FS_Surjection
<1> QED BY <1>3 DEF T

-----------------------------------------------------------------------------
(***************************************************************************)
(* FIRST of a sequence.                                                    *)
(***************************************************************************)
\* FIRST of a sequence holds symbols of the grammar, the lookahead, and nothing else.
LEMMA SequenceType ==
  ASSUME NEW T, NEW names, NEW fst \in [names -> SUBSET (T \cup {Epsilon})],
         NEW seq \in Seq(T), NEW from \in Nat \ {0}, NEW la
  PROVE  FirstOfSequence(fst, seq, from, la) \subseteq T \cup {la}
  <1>1. \A k \in from .. Len(seq) : FirstOf(fst, seq[k]) \subseteq T \cup {Epsilon}
    <2> SUFFICES ASSUME NEW k \in from .. Len(seq) PROVE FirstOf(fst, seq[k]) \subseteq T \cup {Epsilon}
      OBVIOUS
    <2>1. seq[k] \in T
      OBVIOUS
    <2>2. QED
      BY <2>1 DEF FirstOf
  <1>2. QED
    BY <1>1 DEF FirstOfSequence

\* FIRST of a sequence grows with the FIRST sets.
LEMMA SequenceGrows ==
  ASSUME NEW names, NEW S, NEW fst \in [names -> SUBSET S], NEW more \in [names -> SUBSET S],
         \A A \in names : fst[A] \subseteq more[A],
         NEW seq, NEW from, NEW la
  PROVE  FirstOfSequence(fst, seq, from, la) \subseteq FirstOfSequence(more, seq, from, la)
  <1>1. \A X : FirstOf(fst, X) \subseteq FirstOf(more, X)
    BY DEF FirstOf
  <1>2. \A X : Nullable(fst, X) => Nullable(more, X)
    BY <1>1 DEF Nullable
  <1>3. QED
    BY <1>1, <1>2 DEF FirstOfSequence

-----------------------------------------------------------------------------
(***************************************************************************)
(* The items of a grammar, and the closures of item sets: they end, and    *)
(* add just what they must.                                                *)
(***************************************************************************)
\* Everything that looks like a core item; CoreItems(b) is a finite part of it.
AnyItems(b) == [left : {prod.left : prod \in AllProductions(b)},
                right : {prod.right : prod \in AllProductions(b)}, dot : Nat]

LEMMA ProductionShape ==
  ASSUME NEW b, HasProducers(b)
  PROVE  /\ IsFiniteSet(AllProductions(b)) /\ IsFiniteSet(OwnSymbols(b))
         /\ \A prod \in AllProductions(b) : prod.right \in Seq(OwnSymbols(b))
<1>1. AugmentedProduction(b).right \in Seq(OwnSymbols(b))
  <2>1. AugmentedProduction(b).right = <<b.start>> BY DEF AugmentedProduction
  <2>2. Elements(<<b.start>>) = {b.start} BY DEF Elements
  <2>3. b.start \in OwnSymbols(b) BY <2>1, <2>2 DEF OwnSymbols, AllProductions
  <2> QED BY <2>1, <2>3
<1>2. ASSUME NEW prod \in Elements(b.producers) PROVE prod.right \in Seq(OwnSymbols(b))
  <2>1. Elements(prod.right) \subseteq OwnSymbols(b) BY DEF OwnSymbols, AllProductions
  <2>2. prod.right \in Seq(Elements(prod.right)) BY DEF HasProducers
  <2> QED BY <2>1, <2>2
<1>3. IsFiniteSet(Elements(b.producers))
  <2>1. DOMAIN b.producers = 1 .. Len(b.producers) /\ Len(b.producers) \in Nat BY DEF HasProducers
  <2>2. IsFiniteSet(1 .. Len(b.producers))
    <3> DEFINE n == Len(b.producers)
    <3>1. n \in Int BY <2>1
    <3> HIDE DEF n
    <3>2. IsFiniteSet(1 .. n) BY <3>1, FS_Interval
    <3> QED BY <3>2 DEF n
  <2> QED BY <2>1, <2>2, ImageIsFinite DEF Elements
<1>4. IsFiniteSet({AugmentedProduction(b)}) BY FS_Singleton
<1>5. IsFiniteSet(AllProductions(b)) BY <1>3, <1>4, FS_Union DEF AllProductions
<1>6. IsFiniteSet(OwnSymbols(b))
  <2> DEFINE f == [prod \in AllProductions(b) |-> Elements(prod.right)]
             T == {f[prod] : prod \in AllProductions(b)}
  <2>1. DOMAIN f = AllProductions(b) /\ OwnSymbols(b) = UNION T BY DEF OwnSymbols
  <2>2. \A prod \in AllProductions(b) : IsFiniteSet(f[prod])
    <3> SUFFICES ASSUME NEW prod \in AllProductions(b) PROVE IsFiniteSet(Elements(prod.right)) OBVIOUS
    <3>1. prod.right \in Seq(OwnSymbols(b)) BY <1>1, <1>2 DEF AllProductions
    <3>2. DOMAIN prod.right = 1 .. Len(prod.right) /\ Len(prod.right) \in Nat BY <3>1
    <3>3. IsFiniteSet(1 .. Len(prod.right)) BY <3>2, FS_Interval
    <3> QED BY <3>2, <3>3, ImageIsFinite DEF Elements
  <2> HIDE DEF f
  <2>3. IsFiniteSet(T) BY <1>5, <2>1, ImageIsFinite
  <2>4. \A s \in T : IsFiniteSet(s) BY <2>2
  <2> HIDE DEF T
  <2> QED BY <2>1, <2>3, <2>4, FS_UNION
<1> QED BY <1>1, <1>2, <1>5, <1>6 DEF AllProductions

LEMMA CoreItemsShape ==
  ASSUME NEW b, HasProducers(b)
  PROVE  /\ IsFiniteSet(CoreItems(b)) /\ CoreItems(b) \subseteq AnyItems(b)
         /\ \A item \in CoreItems(b) : /\ item.right \in Seq(OwnSymbols(b)) /\ item.dot \in 0 .. Len(item.right)
                                       /\ \E prod \in AllProductions(b) : item \in ItemsFrom(prod)
<1>1. ASSUME NEW prod \in AllProductions(b)
      PROVE  IsFiniteSet(ItemsFrom(prod)) /\ ItemsFrom(prod) \subseteq AnyItems(b)
  <2>1. Len(prod.right) \in Nat BY ProductionShape
  <2>2. IsFiniteSet(0 .. Len(prod.right)) BY <2>1, FS_Interval
  <2> DEFINE f == [d \in 0 .. Len(prod.right) |-> [left |-> prod.left, right |-> prod.right, dot |-> d]]
  <2>3. ItemsFrom(prod) = {f[d] : d \in 0 .. Len(prod.right)} BY DEF ItemsFrom
  <2>4. DOMAIN f = 0 .. Len(prod.right) OBVIOUS
  <2> HIDE DEF f
  <2>5. IsFiniteSet(ItemsFrom(prod)) BY <2>2, <2>3, <2>4, ImageIsFinite
  <2>6. ItemsFrom(prod) \subseteq AnyItems(b) BY <2>1 DEF ItemsFrom, AnyItems
  <2> QED BY <2>5, <2>6
<1>2. IsFiniteSet({ItemsFrom(prod) : prod \in AllProductions(b)})
  <2> DEFINE f == [prod \in AllProductions(b) |-> ItemsFrom(prod)]
  <2>1. {ItemsFrom(prod) : prod \in AllProductions(b)} = {f[prod] : prod \in AllProductions(b)} OBVIOUS
  <2>2. DOMAIN f = AllProductions(b) OBVIOUS
  <2> HIDE DEF f
  <2> QED BY <2>1, <2>2, ProductionShape, ImageIsFinite
<1>3. IsFiniteSet(CoreItems(b)) BY <1>1, <1>2, FS_UNION DEF CoreItems
<1>4. CoreItems(b) \subseteq AnyItems(b) BY <1>1 DEF CoreItems
<1>5. ASSUME NEW item \in CoreItems(b)
      PROVE  /\ item.right \in Seq(OwnSymbols(b)) /\ item.dot \in 0 .. Len(item.right)
             /\ \E prod \in AllProductions(b) : item \in ItemsFrom(prod)
  <2>1. PICK prod \in AllProductions(b) : item \in ItemsFrom(prod) BY DEF CoreItems
  <2>2. prod.right \in Seq(OwnSymbols(b)) BY ProductionShape
  <2>3. item.right = prod.right /\ item.dot \in 0 .. Len(prod.right) BY <2>1 DEF ItemsFrom
  <2> QED BY <2>1, <2>2, <2>3
<1> QED BY <1>3, <1>4, <1>5

LEMMA StartIsAnItem ==
  ASSUME NEW b, HasProducers(b)
  PROVE  StartItem(b) \in CoreItems(b)
<1>1. AugmentedProduction(b) \in AllProductions(b) BY DEF AllProductions
<1>2. 0 \in 0 .. Len(AugmentedProduction(b).right) BY <1>1, ProductionShape
<1>3. StartItem(b) \in ItemsFrom(AugmentedProduction(b)) BY <1>2 DEF StartItem, InitialItem, ItemsFrom
<1> QED BY <1>1, <1>3 DEF CoreItems

LEMMA AdvancedItem ==
  ASSUME NEW b, HasProducers(b), NEW item \in CoreItems(b), NEW X, DotBefore(item, X)
  PROVE  Advance(item) \in CoreItems(b)
<1>1. PICK prod \in AllProductions(b) : item \in ItemsFrom(prod) BY CoreItemsShape
<1>2. PICK d \in 0 .. Len(prod.right) : item = [left |-> prod.left, right |-> prod.right, dot |-> d]
  BY <1>1 DEF ItemsFrom
<1>3. Len(prod.right) \in Nat BY ProductionShape
<1>4. d + 1 \in 0 .. Len(prod.right) BY <1>2, <1>3 DEF DotBefore, IsComplete
<1>5. Advance(item) = [left |-> prod.left, right |-> prod.right, dot |-> d + 1] BY <1>2 DEF Advance
<1> QED BY <1>4, <1>5 DEF CoreItems, ItemsFrom

\* What a closure adds are initial items of the grammar.
LEMMA AddedItems ==
  ASSUME NEW b, HasProducers(b), NEW item
  PROVE  ClosureItems(b, item) \subseteq CoreItems(b)
<1> SUFFICES ASSUME NEW added \in ClosureItems(b, item) PROVE added \in CoreItems(b) OBVIOUS
<1>1. PICK prod \in AllProductions(b) : added = InitialItem(prod) BY DEF ClosureItems, ProductionsOf
<1>2. 0 \in 0 .. Len(prod.right) BY ProductionShape
<1>3. added \in ItemsFrom(prod) BY <1>1, <1>2 DEF InitialItem, ItemsFrom
<1> QED BY <1>3 DEF CoreItems

LEMMA AddedPredicts ==
  ASSUME NEW b, NEW fst, HasFirst(b, fst), NEW item \in AnyItems(b), NEW la
  PROVE  FollowingPredicts(fst, item, la) \subseteq OwnSymbols(b) \cup {la}
<1>1. item.right \in Seq(OwnSymbols(b)) /\ item.dot \in Nat BY ProductionShape DEF AnyItems, HasFirst
<1>2. item.dot + 2 \in Nat \ {0} BY <1>1
<1>3. fst \in [Names(b) -> SUBSET (OwnSymbols(b) \cup {Epsilon})] BY DEF HasFirst
<1>4. FirstOfSequence(fst, item.right, item.dot + 2, la) \subseteq OwnSymbols(b) \cup {la}
  BY <1>1, <1>2, <1>3, SequenceType
<1> QED BY <1>4 DEF FollowingPredicts

\* Whether anything can follow does not depend on the lookahead.
LEMMA FollowedAnyway ==
  ASSUME NEW fst, NEW item, NEW la, NEW other, FollowingPredicts(fst, item, la) # {}
  PROVE  FollowingPredicts(fst, item, other) # {}
BY DEF FollowingPredicts, FirstOfSequence

\* One round of each closure.
Lr0Round(b) == [items \in SUBSET AnyItems(b) |-> items \cup UNION {ClosureItems(b, item) : item \in items}]

Pairs(b, kernel) == AnyItems(b) \X (LookaheadsOf(kernel) \cup OwnSymbols(b))

Lr1Round(b, fst, kernel) ==
  [items \in SUBSET Pairs(b, kernel) |->
     items \cup UNION {ClosureItems(b, x[1]) \X FollowingPredicts(fst, x[1], x[2]) : x \in items}]

LEMMA Lr0ClosureEnds ==
  ASSUME NEW b, HasProducers(b), NEW kernel \in SUBSET CoreItems(b)
  PROVE  /\ kernel \subseteq Lr0Closure(b, kernel) /\ Lr0Closure(b, kernel) \subseteq CoreItems(b)
         /\ \A item \in Lr0Closure(b, kernel) : ClosureItems(b, item) \subseteq Lr0Closure(b, kernel)
         /\ \A Z \in SUBSET AnyItems(b) :
              kernel \subseteq Z /\ (\A item \in Z : ClosureItems(b, item) \subseteq Z) => Lr0Closure(b, kernel) \subseteq Z
<1> DEFINE V == AnyItems(b)
           F == Lr0Round(b)
           grow == CHOOSE g : g = [items \in SUBSET V |->
                     LET more == items \cup UNION {ClosureItems(b, item) : item \in items}
                     IN  IF more = items THEN items ELSE g[more]]
<1>1. Lr0Closure(b, kernel) = grow[kernel] BY DEF Lr0Closure, AnyItems
<1>2. \A item : ClosureItems(b, item) \subseteq CoreItems(b) BY AddedItems
<1>3. CoreItems(b) \subseteq V /\ IsFiniteSet(CoreItems(b)) BY CoreItemsShape
<1>4. \A S \in SUBSET V : F[S] = S \cup UNION {ClosureItems(b, item) : item \in S} BY DEF Lr0Round
<1>5. F \in [SUBSET V -> SUBSET V]
  <2>1. \A S \in SUBSET V : S \cup UNION {ClosureItems(b, item) : item \in S} \in SUBSET V BY <1>2, <1>3
  <2> QED BY <2>1 DEF Lr0Round
<1> HIDE DEF V, F
<1>6. Adds(F, V)
  <2>1. \A S, T \in SUBSET V : S \subseteq T => F[S] \subseteq F[T] BY <1>4
  <2> QED BY <1>4, <1>5, <2>1 DEF Adds
<1>7. \A g : Grows(g, F, V) <=> g = [items \in SUBSET V |->
                     LET more == items \cup UNION {ClosureItems(b, item) : item \in items}
                     IN  IF more = items THEN items ELSE g[more]]
  <2> TAKE g
  <2>1. [S \in SUBSET V |-> IF F[S] = S THEN S ELSE g[F[S]]] =
          [items \in SUBSET V |->
                     LET more == items \cup UNION {ClosureItems(b, item) : item \in items}
                     IN  IF more = items THEN items ELSE g[more]]
    BY <1>4
  <2> QED BY <2>1 DEF Grows
<1>8. \E g : Grows(g, F, V) BY <1>6, GrowthExists
<1>9. Grows(grow, F, V) BY <1>7, <1>8
<1> HIDE DEF grow
<1>10. \A S \in SUBSET CoreItems(b) : F[S] \subseteq CoreItems(b) BY <1>2, <1>3, <1>4
<1> DEFINE U == CoreItems(b)
<1>11. U \in SUBSET V /\ IsFiniteSet(U) /\ kernel \in SUBSET U /\ \A S \in SUBSET U : F[S] \subseteq U BY <1>3, <1>10
<1> HIDE DEF U
<1>12. /\ kernel \subseteq grow[kernel] /\ grow[kernel] \subseteq U /\ F[grow[kernel]] = grow[kernel]
       /\ \A Z \in SUBSET V : kernel \subseteq Z /\ F[Z] = Z => grow[kernel] \subseteq Z
  BY <1>6, <1>9, <1>11, GrowthEnds
<1>13. grow[kernel] \in SUBSET V BY <1>11, <1>12
<1>14. \A item \in grow[kernel] : ClosureItems(b, item) \subseteq grow[kernel] BY <1>4, <1>12, <1>13
<1>15. \A Z \in SUBSET V : kernel \subseteq Z /\ (\A item \in Z : ClosureItems(b, item) \subseteq Z)
                           => grow[kernel] \subseteq Z
  <2> SUFFICES ASSUME NEW Z \in SUBSET V, kernel \subseteq Z, \A item \in Z : ClosureItems(b, item) \subseteq Z
               PROVE  grow[kernel] \subseteq Z
    OBVIOUS
  <2>1. UNION {ClosureItems(b, item) : item \in Z} \subseteq Z OBVIOUS
  <2>2. F[Z] = Z \cup UNION {ClosureItems(b, item) : item \in Z} BY <1>4
  <2>3. F[Z] = Z BY <2>1, <2>2
  <2> QED BY <1>12, <2>3
<1> QED BY <1>1, <1>12, <1>14, <1>15 DEF U, V

LEMMA Lr1ClosureEnds ==
  ASSUME NEW b, NEW fst, HasFirst(b, fst), NEW kernel \in SUBSET PairItems(b)
  PROVE  LET closure == Lr1Closure(b, fst, kernel)
         IN  /\ kernel \subseteq closure /\ closure \subseteq PairItems(b) /\ closure \subseteq Pairs(b, kernel)
             /\ \A x \in closure : ClosureItems(b, x[1]) \X FollowingPredicts(fst, x[1], x[2]) \subseteq closure
             /\ \A Z \in SUBSET Pairs(b, kernel) :
                  /\ kernel \subseteq Z
                  /\ \A x \in Z : ClosureItems(b, x[1]) \X FollowingPredicts(fst, x[1], x[2]) \subseteq Z
                  => closure \subseteq Z
<1> DEFINE V == Pairs(b, kernel)
           F == Lr1Round(b, fst, kernel)
           U == PairItems(b)
           new(x) == ClosureItems(b, x[1]) \X FollowingPredicts(fst, x[1], x[2])
           grow == CHOOSE g : g = [items \in SUBSET V |->
                     LET more == items \cup UNION {new(x) : x \in items}
                     IN  IF more = items THEN items ELSE g[more]]
<1>1. Lr1Closure(b, fst, kernel) = grow[kernel] BY DEF Lr1Closure, AnyItems, Pairs, OwnSymbols
<1>2. \A item : ClosureItems(b, item) \subseteq CoreItems(b) BY AddedItems DEF HasFirst
<1>3. CoreItems(b) \subseteq AnyItems(b) /\ IsFiniteSet(U \cap V) /\ kernel \subseteq V
  <2>1. CoreItems(b) \subseteq AnyItems(b) /\ IsFiniteSet(CoreItems(b)) BY CoreItemsShape DEF HasFirst
  <2>2. IsFiniteSet(OwnSymbols(b) \cup {EndMarker})
    <3>1. IsFiniteSet({EndMarker}) BY FS_Singleton
    <3> QED BY <3>1, ProductionShape, FS_Union DEF HasFirst
  <2>3. IsFiniteSet(U) BY <2>1, <2>2, FS_Product DEF PairItems
  <2>4. IsFiniteSet(U \cap V) BY <2>3, FS_Subset
  <2>5. kernel \subseteq V BY <2>1 DEF PairItems, Pairs, LookaheadsOf
  <2> QED BY <2>1, <2>4, <2>5
<1>4. \A S \in SUBSET V : F[S] = S \cup UNION {new(x) : x \in S} BY DEF Lr1Round
<1>5. \A x \in V : new(x) \subseteq V
  <2> SUFFICES ASSUME NEW x \in V PROVE new(x) \subseteq V OBVIOUS
  <2> DEFINE las == LookaheadsOf(kernel) \cup OwnSymbols(b)
  <2>1. x[1] \in AnyItems(b) /\ x[2] \in las BY DEF Pairs
  <2>2. FollowingPredicts(fst, x[1], x[2]) \subseteq las
    <3>1. FollowingPredicts(fst, x[1], x[2]) \subseteq OwnSymbols(b) \cup {x[2]} BY <2>1, AddedPredicts
    <3> QED BY <2>1, <3>1
  <2>3. ClosureItems(b, x[1]) \subseteq AnyItems(b) BY <1>2, <1>3
  <2> QED BY <2>2, <2>3 DEF Pairs
<1>6. \A x \in U : new(x) \subseteq U
  <2> SUFFICES ASSUME NEW x \in U PROVE new(x) \subseteq U OBVIOUS
  <2>1. x[1] \in AnyItems(b) /\ x[2] \in OwnSymbols(b) \cup {EndMarker} BY <1>3 DEF PairItems
  <2>2. FollowingPredicts(fst, x[1], x[2]) \subseteq OwnSymbols(b) \cup {EndMarker}
    <3>1. FollowingPredicts(fst, x[1], x[2]) \subseteq OwnSymbols(b) \cup {x[2]} BY <2>1, AddedPredicts
    <3> QED BY <2>1, <3>1
  <2>3. ClosureItems(b, x[1]) \subseteq CoreItems(b) BY <1>2
  <2> QED BY <2>2, <2>3 DEF PairItems
<1>7. F \in [SUBSET V -> SUBSET V]
  <2>1. \A S \in SUBSET V : S \cup UNION {new(x) : x \in S} \in SUBSET V
    <3> HIDE DEF new, V
    <3> QED BY <1>5
  <2>2. F = [S \in SUBSET V |-> S \cup UNION {new(x) : x \in S}] BY DEF Lr1Round
  <2> HIDE DEF new, V, F
  <2> QED BY <2>1, <2>2
<1> HIDE DEF V, F, U, new
<1>8. Adds(F, V)
  <2>1. \A S, T \in SUBSET V : S \subseteq T => F[S] \subseteq F[T] BY <1>4
  <2> QED BY <1>4, <1>7, <2>1 DEF Adds
<1>9. \A g : Grows(g, F, V) <=> g = [items \in SUBSET V |->
                     LET more == items \cup UNION {new(x) : x \in items}
                     IN  IF more = items THEN items ELSE g[more]]
  <2> TAKE g
  <2>1. [S \in SUBSET V |-> IF F[S] = S THEN S ELSE g[F[S]]] =
          [items \in SUBSET V |->
                     LET more == items \cup UNION {new(x) : x \in items}
                     IN  IF more = items THEN items ELSE g[more]]
    BY <1>4
  <2> QED BY <2>1 DEF Grows
<1>10. \E g : Grows(g, F, V) BY <1>8, GrowthExists
<1>11. Grows(grow, F, V) BY <1>9, <1>10
<1> HIDE DEF grow
<1> DEFINE W == U \cap V
<1>12. \A S \in SUBSET W : F[S] \subseteq W
  <2> SUFFICES ASSUME NEW S \in SUBSET W PROVE F[S] \subseteq W OBVIOUS
  <2>1. F[S] = S \cup UNION {new(x) : x \in S} BY <1>4
  <2>2. \A x \in S : new(x) \subseteq W BY <1>5, <1>6
  <2> QED BY <2>1, <2>2
<1>13. W \in SUBSET V /\ IsFiniteSet(W) /\ kernel \in SUBSET W BY <1>3 DEF U
<1> HIDE DEF W
<1>14. /\ kernel \subseteq grow[kernel] /\ grow[kernel] \subseteq W /\ F[grow[kernel]] = grow[kernel]
       /\ \A Z \in SUBSET V : kernel \subseteq Z /\ F[Z] = Z => grow[kernel] \subseteq Z
  BY <1>8, <1>11, <1>12, <1>13, GrowthEnds
<1>15. grow[kernel] \in SUBSET V BY <1>13, <1>14
<1>16. \A x \in grow[kernel] : new(x) \subseteq grow[kernel] BY <1>4, <1>14, <1>15
<1>17. \A Z \in SUBSET V : kernel \subseteq Z /\ (\A x \in Z : new(x) \subseteq Z) => grow[kernel] \subseteq Z
  <2> SUFFICES ASSUME NEW Z \in SUBSET V, kernel \subseteq Z, \A x \in Z : new(x) \subseteq Z
               PROVE  grow[kernel] \subseteq Z
    OBVIOUS
  <2>1. UNION {new(x) : x \in Z} \subseteq Z OBVIOUS
  <2>2. F[Z] = Z \cup UNION {new(x) : x \in Z} BY <1>4
  <2>3. F[Z] = Z BY <2>1, <2>2
  <2> QED BY <1>14, <2>3
<1> QED BY <1>1, <1>14, <1>16, <1>17 DEF U, V, new, W

\* The items with their dot before a symbol, moved over it.
Moved(items, X) == {<<Advance(x[1]), x[2]>> : x \in {y \in items : DotBefore(y[1], X)}}

LEMMA MovedCores ==
  ASSUME NEW items, NEW X
  PROVE  CoresOf(Moved(items, X)) = {Advance(item) : item \in {it \in CoresOf(items) : DotBefore(it, X)}}
<1>1. ASSUME NEW x \in items, DotBefore(x[1], X)
      PROVE  Advance(x[1]) \in {Advance(item) : item \in {it \in CoresOf(items) : DotBefore(it, X)}}
  <2>1. x[1] \in {it \in CoresOf(items) : DotBefore(it, X)} BY <1>1 DEF CoresOf
  <2> QED BY <2>1
<1>2. ASSUME NEW item \in CoresOf(items), DotBefore(item, X)
      PROVE  Advance(item) \in CoresOf(Moved(items, X))
  <2>1. PICK x \in items : x[1] = item BY DEF CoresOf
  <2>2. <<Advance(item), x[2]>> \in Moved(items, X) BY <1>2, <2>1 DEF Moved
  <2> QED BY <2>2 DEF CoresOf
<1> QED BY <1>1, <1>2 DEF CoresOf, Moved

-----------------------------------------------------------------------------
(***************************************************************************)
(* Two records with the same grammar in them have the same items and the   *)
(* same closures.                                                          *)
(***************************************************************************)
SameGrammar(g, b) == g.nonterminals = b.nonterminals /\ g.producers = b.producers /\ g.start = b.start

LEMMA SameItems ==
  ASSUME NEW g, NEW b, SameGrammar(g, b)
  PROVE  /\ AllProductions(g) = AllProductions(b) /\ Names(g) = Names(b) /\ OwnSymbols(g) = OwnSymbols(b)
         /\ AnyItems(g) = AnyItems(b) /\ CoreItems(g) = CoreItems(b) /\ PairItems(g) = PairItems(b)
         /\ StartItem(g) = StartItem(b) /\ \A item : ClosureItems(g, item) = ClosureItems(b, item)
         /\ HasProducers(g) => HasProducers(b)
         /\ \A fst : HasFirst(g, fst) => HasFirst(b, fst)
<1>1. AllProductions(g) = AllProductions(b) /\ Names(g) = Names(b) /\ StartItem(g) = StartItem(b)
  BY DEF SameGrammar, AllProductions, AugmentedProduction, Names, StartItem
<1>2. OwnSymbols(g) = OwnSymbols(b) BY <1>1 DEF OwnSymbols
<1>3. AnyItems(g) = AnyItems(b) /\ CoreItems(g) = CoreItems(b) BY <1>1 DEF AnyItems, CoreItems
<1>4. PairItems(g) = PairItems(b) BY <1>2, <1>3 DEF PairItems
<1>5. \A item : ClosureItems(g, item) = ClosureItems(b, item)
  BY <1>1 DEF ClosureItems, IsNonterminal, ProductionsOf, SameGrammar
<1>6. HasProducers(g) => HasProducers(b) BY DEF HasProducers, SameGrammar
<1>7. \A fst : HasFirst(g, fst) => HasFirst(b, fst) BY <1>1, <1>2, <1>6 DEF HasFirst
<1> QED BY <1>1, <1>2, <1>3, <1>4, <1>5, <1>6, <1>7

LEMMA Lr0ClosureWithin ==
  ASSUME NEW g, NEW b, SameGrammar(g, b), HasProducers(g), HasProducers(b), NEW K \in SUBSET CoreItems(g)
  PROVE  Lr0Closure(g, K) \subseteq Lr0Closure(b, K)
<1> DEFINE C == Lr0Closure(b, K)
<1>1. K \in SUBSET CoreItems(b) BY SameItems
<1>2. K \subseteq C /\ C \subseteq CoreItems(b) /\ \A item \in C : ClosureItems(b, item) \subseteq C
  BY <1>1, Lr0ClosureEnds
<1> HIDE DEF C
<1>3. \A item \in C : ClosureItems(g, item) \subseteq C BY <1>2, SameItems
<1>4. C \in SUBSET AnyItems(g)
  <2>1. CoreItems(g) \subseteq AnyItems(g) BY CoreItemsShape
  <2> QED BY <1>2, <2>1, SameItems
<1>5. Lr0Closure(g, K) \subseteq C BY <1>2, <1>3, <1>4, Lr0ClosureEnds
<1> QED BY <1>5 DEF C

LEMMA Lr1ClosureWithin ==
  ASSUME NEW g, NEW b, NEW fst, SameGrammar(g, b), HasFirst(g, fst), HasFirst(b, fst), NEW K \in SUBSET PairItems(g)
  PROVE  Lr1Closure(g, fst, K) \subseteq Lr1Closure(b, fst, K)
<1> DEFINE C == Lr1Closure(b, fst, K)
           new(x) == ClosureItems(b, x[1]) \X FollowingPredicts(fst, x[1], x[2])
<1>1. K \in SUBSET PairItems(b) BY SameItems
<1>2. K \subseteq C /\ C \subseteq Pairs(b, K) /\ \A x \in C : new(x) \subseteq C
  BY <1>1, Lr1ClosureEnds
<1>3. Pairs(b, K) = Pairs(g, K) BY SameItems DEF Pairs
<1> HIDE DEF C
<1>4. \A x \in C : ClosureItems(g, x[1]) \X FollowingPredicts(fst, x[1], x[2]) \subseteq C BY <1>2, SameItems
<1>5. C \in SUBSET Pairs(g, K) BY <1>2, <1>3
<1>6. Lr1Closure(g, fst, K) \subseteq C BY <1>2, <1>4, <1>5, Lr1ClosureEnds
<1> QED BY <1>6 DEF C

LEMMA SameClosures ==
  ASSUME NEW g, NEW b, NEW fst, SameGrammar(g, b), HasFirst(g, fst)
  PROVE  /\ \A K \in SUBSET CoreItems(g) : Lr0Closure(g, K) = Lr0Closure(b, K)
         /\ \A K \in SUBSET PairItems(g) : Lr1Closure(g, fst, K) = Lr1Closure(b, fst, K)
<1>1. SameGrammar(b, g) BY DEF SameGrammar
<1>2. HasFirst(b, fst) /\ HasProducers(g) /\ HasProducers(b) BY SameItems DEF HasFirst
<1>3. CoreItems(g) = CoreItems(b) /\ PairItems(g) = PairItems(b) BY SameItems
<1>4. ASSUME NEW K \in SUBSET CoreItems(g) PROVE Lr0Closure(g, K) = Lr0Closure(b, K)
  <2>1. Lr0Closure(g, K) \subseteq Lr0Closure(b, K) BY <1>2, Lr0ClosureWithin
  <2>2. Lr0Closure(b, K) \subseteq Lr0Closure(g, K) BY <1>1, <1>2, <1>3, Lr0ClosureWithin
  <2> QED BY <2>1, <2>2
<1>5. ASSUME NEW K \in SUBSET PairItems(g) PROVE Lr1Closure(g, fst, K) = Lr1Closure(b, fst, K)
  <2>1. Lr1Closure(g, fst, K) \subseteq Lr1Closure(b, fst, K) BY <1>2, Lr1ClosureWithin
  <2>2. Lr1Closure(b, fst, K) \subseteq Lr1Closure(g, fst, K) BY <1>1, <1>2, <1>3, Lr1ClosureWithin
  <2> QED BY <2>1, <2>2
<1> QED BY <1>4, <1>5

-----------------------------------------------------------------------------
(***************************************************************************)
(* The collections of item sets: closed under the gotos, and the least     *)
(* that are.                                                               *)
(***************************************************************************)
IsLr0Collection(g, Z) ==
  /\ Z \in SUBSET SUBSET CoreItems(g) /\ Lr0Start(g) \in Z
  /\ \A items \in Z : \A X \in SymbolsAfterDots(items) : Lr0Goto(g, items, X) \in Z
IsLr1Collection(g, fst, Z) ==
  /\ Z \in SUBSET SUBSET PairItems(g) /\ Lr1Start(g, fst) \in Z
  /\ \A items \in Z : \A X \in SymbolsAfterDots(CoresOf(items)) : Lr1Goto(g, fst, items, X) \in Z

LEMMA Lr0Sets ==
  ASSUME NEW g, HasProducers(g)
  PROVE  /\ Lr0Start(g) \in SUBSET CoreItems(g)
         /\ \A items \in SUBSET CoreItems(g) : \A X : Lr0Goto(g, items, X) \in SUBSET CoreItems(g)
<1>1. Lr0Start(g) \in SUBSET CoreItems(g)
  <2>1. {StartItem(g)} \in SUBSET CoreItems(g) BY StartIsAnItem
  <2> QED BY <2>1, Lr0ClosureEnds DEF Lr0Start
<1>2. ASSUME NEW items \in SUBSET CoreItems(g), NEW X PROVE Lr0Goto(g, items, X) \in SUBSET CoreItems(g)
  <2> DEFINE kernel == {Advance(item) : item \in {it \in items : DotBefore(it, X)}}
  <2>1. kernel \in SUBSET CoreItems(g) BY AdvancedItem
  <2>2. Lr0Goto(g, items, X) = Lr0Closure(g, kernel) BY DEF Lr0Goto
  <2> HIDE DEF kernel
  <2> QED BY <2>1, <2>2, Lr0ClosureEnds
<1> QED BY <1>1, <1>2

LEMMA MovedPairs ==
  ASSUME NEW g, HasProducers(g), NEW items \in SUBSET PairItems(g), NEW X
  PROVE  Moved(items, X) \in SUBSET PairItems(g)
<1> SUFFICES ASSUME NEW x \in items, DotBefore(x[1], X) PROVE <<Advance(x[1]), x[2]>> \in PairItems(g)
  BY DEF Moved
<1>1. x[1] \in CoreItems(g) /\ x[2] \in OwnSymbols(g) \cup {EndMarker} BY DEF PairItems
<1>2. Advance(x[1]) \in CoreItems(g) BY <1>1, AdvancedItem
<1> QED BY <1>1, <1>2 DEF PairItems

LEMMA StartPair ==
  ASSUME NEW g, HasProducers(g)
  PROVE  {<<StartItem(g), EndMarker>>} \in SUBSET PairItems(g)
BY StartIsAnItem DEF PairItems

LEMMA Lr1Sets ==
  ASSUME NEW g, NEW fst, HasFirst(g, fst)
  PROVE  /\ Lr1Start(g, fst) \in SUBSET PairItems(g)
         /\ \A items \in SUBSET PairItems(g) : \A X : Lr1Goto(g, fst, items, X) \in SUBSET PairItems(g)
<1>0. HasProducers(g) BY DEF HasFirst
<1>1. Lr1Start(g, fst) \in SUBSET PairItems(g)
  <2>1. {<<StartItem(g), EndMarker>>} \in SUBSET PairItems(g) BY <1>0, StartPair
  <2> QED BY <2>1, Lr1ClosureEnds DEF Lr1Start
<1>2. ASSUME NEW items \in SUBSET PairItems(g), NEW X PROVE Lr1Goto(g, fst, items, X) \in SUBSET PairItems(g)
  <2>1. Moved(items, X) \in SUBSET PairItems(g) BY <1>0, MovedPairs
  <2>2. Lr1Goto(g, fst, items, X) = Lr1Closure(g, fst, Moved(items, X)) BY DEF Lr1Goto, Moved
  <2> QED BY <2>1, <2>2, Lr1ClosureEnds
<1> QED BY <1>1, <1>2

\* A growth by the successors next[x] of what is there.
Round(next, V) == [S \in SUBSET V |-> S \cup UNION {next[x] : x \in S}]

LEMMA SuccessorsAdd ==
  ASSUME NEW V, NEW next \in [V -> SUBSET V]
  PROVE  /\ Adds(Round(next, V), V) /\ \A S \in SUBSET V : Round(next, V)[S] = S \cup UNION {next[x] : x \in S}
         /\ \A S \in SUBSET V : Round(next, V)[S] = S <=> \A x \in S : next[x] \subseteq S
<1> DEFINE F == Round(next, V)
<1>1. \A S \in SUBSET V : F[S] = S \cup UNION {next[x] : x \in S} BY DEF Round
<1>2. \A S \in SUBSET V : S \cup UNION {next[x] : x \in S} \in SUBSET V OBVIOUS
<1>3. F \in [SUBSET V -> SUBSET V] BY <1>2 DEF Round
<1> HIDE DEF F
<1>4. \A S, T \in SUBSET V : S \subseteq T => F[S] \subseteq F[T] BY <1>1
<1>5. ASSUME NEW S \in SUBSET V PROVE F[S] = S <=> \A x \in S : next[x] \subseteq S
  <2>1. UNION {next[x] : x \in S} \subseteq S <=> \A x \in S : next[x] \subseteq S OBVIOUS
  <2>2. F[S] = S <=> UNION {next[x] : x \in S} \subseteq S BY <1>1
  <2> QED BY <2>1, <2>2
<1>6. \A S \in SUBSET V : S \subseteq F[S] BY <1>1
<1>7. Adds(F, V) BY <1>3, <1>4, <1>6 DEF Adds
<1> QED BY <1>1, <1>5, <1>7 DEF F

\* The loop around it, as it is written in the references, ends in the least set that holds
\* K and the successors of its members.
Explores(grow, next, V) ==
  grow = [S \in SUBSET V |-> IF S \cup UNION {next[x] : x \in S} = S THEN S
                             ELSE grow[S \cup UNION {next[x] : x \in S}]]
IsExplored(R, next, K) == K \subseteq R /\ \A x \in R : next[x] \subseteq R

LEMMA ExplorationEnds ==
  ASSUME NEW V, IsFiniteSet(V), NEW next \in [V -> SUBSET V], NEW K \in SUBSET V
  PROVE  /\ \E grow : Explores(grow, next, V)
         /\ \A grow : Explores(grow, next, V) =>
              /\ grow[K] \in SUBSET V /\ IsExplored(grow[K], next, K)
              /\ \A Z \in SUBSET V : IsExplored(Z, next, K) => grow[K] \subseteq Z
<1> DEFINE F == Round(next, V)
<1>2. /\ Adds(F, V) /\ \A S \in SUBSET V : F[S] = S \cup UNION {next[x] : x \in S}
      /\ \A S \in SUBSET V : F[S] = S <=> \A x \in S : next[x] \subseteq S
  BY SuccessorsAdd
<1> HIDE DEF F
<1>3. ASSUME NEW grow PROVE Explores(grow, next, V) <=> Grows(grow, F, V)
  <2>1. [S \in SUBSET V |-> IF F[S] = S THEN S ELSE grow[F[S]]] =
          [S \in SUBSET V |-> IF S \cup UNION {next[x] : x \in S} = S THEN S
                              ELSE grow[S \cup UNION {next[x] : x \in S}]]
    BY <1>2
  <2> QED BY <2>1 DEF Explores, Grows
<1>4. \E grow : Explores(grow, next, V) BY <1>2, <1>3, GrowthExists
<1>5. ASSUME NEW grow, Explores(grow, next, V)
      PROVE  /\ grow[K] \in SUBSET V /\ IsExplored(grow[K], next, K)
             /\ \A Z \in SUBSET V : IsExplored(Z, next, K) => grow[K] \subseteq Z
  <2>1. Grows(grow, F, V) BY <1>3, <1>5
  <2>2. V \in SUBSET V /\ \A S \in SUBSET V : F[S] \subseteq V BY <1>2 DEF Adds
  <2>3. /\ K \subseteq grow[K] /\ grow[K] \subseteq V /\ F[grow[K]] = grow[K]
        /\ \A Z \in SUBSET V : K \subseteq Z /\ F[Z] = Z => grow[K] \subseteq Z
    BY <1>2, <2>1, <2>2, GrowthEnds
  <2>4. grow[K] \in SUBSET V BY <2>3
  <2> QED BY <1>2, <2>3, <2>4 DEF IsExplored
<1> QED BY <1>4, <1>5

LEMMA ItemsAreFinitelyMany ==
  ASSUME NEW g, HasProducers(g)
  PROVE  /\ IsFiniteSet(CoreItems(g)) /\ IsFiniteSet(PairItems(g))
         /\ IsFiniteSet(SUBSET CoreItems(g)) /\ IsFiniteSet(SUBSET PairItems(g))
<1>1. IsFiniteSet(CoreItems(g)) BY CoreItemsShape
<1>2. IsFiniteSet(OwnSymbols(g) \cup {EndMarker})
  <2>1. IsFiniteSet({EndMarker}) BY FS_Singleton
  <2> QED BY <2>1, ProductionShape, FS_Union
<1>3. IsFiniteSet(PairItems(g)) BY <1>1, <1>2, FS_Product DEF PairItems
<1> QED BY <1>1, <1>3, FS_SUBSET

LEMMA Lr0StatesAreLeast ==
  ASSUME NEW g, HasProducers(g)
  PROVE  /\ IsLr0Collection(g, Lr0States(g))
         /\ \A Z : IsLr0Collection(g, Z) => Lr0States(g) \subseteq Z
<1> DEFINE V == SUBSET CoreItems(g)
           after(items) == {Lr0Goto(g, items, X) : X \in SymbolsAfterDots(items)}
           next == [items \in V |-> after(items)]
           K == {Lr0Start(g)}
           grow == CHOOSE h : h = [found \in SUBSET V |->
                     LET more == found \cup UNION {after(items) : items \in found}
                     IN  IF more = found THEN found ELSE h[more]]
<1>1. Lr0States(g) = grow[K] BY DEF Lr0States
<1>2. IsFiniteSet(V) /\ K \in SUBSET V BY ItemsAreFinitelyMany, Lr0Sets
<1>3. next \in [V -> SUBSET V] BY Lr0Sets
<1>4. \A items \in V : next[items] = after(items) OBVIOUS
<1>5. \A Z \in SUBSET V : IsExplored(Z, next, K) <=> IsLr0Collection(g, Z)
  BY <1>4 DEF IsExplored, IsLr0Collection
<1>6. \A Z : IsLr0Collection(g, Z) => Z \in SUBSET V BY DEF IsLr0Collection
<1> HIDE DEF V, after, next, K
<1>7. \A h : Explores(h, next, V) <=> h = [found \in SUBSET V |->
                     LET more == found \cup UNION {after(items) : items \in found}
                     IN  IF more = found THEN found ELSE h[more]]
  <2> TAKE h
  <2>1. \A found \in SUBSET V : UNION {next[items] : items \in found} = UNION {after(items) : items \in found}
    BY <1>4
  <2>2. [found \in SUBSET V |-> IF found \cup UNION {next[items] : items \in found} = found THEN found
                                ELSE h[found \cup UNION {next[items] : items \in found}]] =
          [found \in SUBSET V |->
                     LET more == found \cup UNION {after(items) : items \in found}
                     IN  IF more = found THEN found ELSE h[more]]
    BY <2>1
  <2> QED BY <2>2 DEF Explores
<1>8. \E h : Explores(h, next, V) BY <1>2, <1>3, ExplorationEnds
<1>9. Explores(grow, next, V) BY <1>7, <1>8
<1> HIDE DEF grow
<1>10. /\ grow[K] \in SUBSET V /\ IsExplored(grow[K], next, K)
      /\ \A Z \in SUBSET V : IsExplored(Z, next, K) => grow[K] \subseteq Z
  BY <1>2, <1>3, <1>9, ExplorationEnds
<1> QED BY <1>1, <1>5, <1>6, <1>10

LEMMA Lr1StatesAreLeast ==
  ASSUME NEW g, NEW fst, HasFirst(g, fst)
  PROVE  /\ IsLr1Collection(g, fst, Lr1States(g, fst))
         /\ \A Z : IsLr1Collection(g, fst, Z) => Lr1States(g, fst) \subseteq Z
<1> DEFINE V == SUBSET PairItems(g)
           after(items) == {Lr1Goto(g, fst, items, X) : X \in SymbolsAfterDots(CoresOf(items))}
           next == [items \in V |-> after(items)]
           K == {Lr1Start(g, fst)}
           grow == CHOOSE h : h = [found \in SUBSET V |->
                     LET more == found \cup UNION {after(items) : items \in found}
                     IN  IF more = found THEN found ELSE h[more]]
<1>1. Lr1States(g, fst) = grow[K] BY DEF Lr1States
<1>2. IsFiniteSet(V) /\ K \in SUBSET V BY ItemsAreFinitelyMany, Lr1Sets DEF HasFirst
<1>3. next \in [V -> SUBSET V] BY Lr1Sets
<1>4. \A items \in V : next[items] = after(items) OBVIOUS
<1>5. \A Z \in SUBSET V : IsExplored(Z, next, K) <=> IsLr1Collection(g, fst, Z)
  BY <1>4 DEF IsExplored, IsLr1Collection
<1>6. \A Z : IsLr1Collection(g, fst, Z) => Z \in SUBSET V BY DEF IsLr1Collection
<1> HIDE DEF V, after, next, K
<1>7. \A h : Explores(h, next, V) <=> h = [found \in SUBSET V |->
                     LET more == found \cup UNION {after(items) : items \in found}
                     IN  IF more = found THEN found ELSE h[more]]
  <2> TAKE h
  <2>1. \A found \in SUBSET V : UNION {next[items] : items \in found} = UNION {after(items) : items \in found}
    BY <1>4
  <2>2. [found \in SUBSET V |-> IF found \cup UNION {next[items] : items \in found} = found THEN found
                                ELSE h[found \cup UNION {next[items] : items \in found}]] =
          [found \in SUBSET V |->
                     LET more == found \cup UNION {after(items) : items \in found}
                     IN  IF more = found THEN found ELSE h[more]]
    BY <2>1
  <2> QED BY <2>2 DEF Explores
<1>8. \E h : Explores(h, next, V) BY <1>2, <1>3, ExplorationEnds
<1>9. Explores(grow, next, V) BY <1>7, <1>8
<1> HIDE DEF grow
<1>10. /\ grow[K] \in SUBSET V /\ IsExplored(grow[K], next, K)
      /\ \A Z \in SUBSET V : IsExplored(Z, next, K) => grow[K] \subseteq Z
  BY <1>2, <1>3, <1>9, ExplorationEnds
<1> QED BY <1>1, <1>5, <1>6, <1>10

-----------------------------------------------------------------------------
(***************************************************************************)
(* The walk of MergedCanonical through the LR(0) and the canonical         *)
(* automaton: the least set of pairs that follows every edge.              *)
(***************************************************************************)
IsWalk(c, Z) ==
  /\ Z \in SUBSET (States(c) \X SUBSET PairItems(c)) /\ <<0, Lr1Start(c, c.first)>> \in Z
  /\ \A pair \in Z : \A e \in Elements(c.edges[pair[1]]) :
       e[1] \in SymbolsAfterDots(CoresOf(pair[2])) => <<e[2], Lr1Goto(c, c.first, pair[2], e[1])>> \in Z
FactsOf(pairs) == UNION {{<<pair[1], x[1], x[2]>> : x \in pair[2]} : pair \in pairs}

LEMMA MergedCanonicalIsLeast ==
  ASSUME NEW c, IsCore(c)
  PROVE  \E R : /\ MergedCanonical(c) = FactsOf(R) /\ IsWalk(c, R)
                /\ \A Z : IsWalk(c, Z) => R \subseteq Z
<1> DEFINE V == States(c) \X SUBSET PairItems(c)
           after(pair) == {<<e[2], Lr1Goto(c, c.first, pair[2], e[1])>> :
                             e \in {d \in Elements(c.edges[pair[1]]) : d[1] \in SymbolsAfterDots(CoresOf(pair[2]))}}
           next == [pair \in V |-> after(pair)]
           K == {<<0, Lr1Start(c, c.first)>>}
           grow == CHOOSE h : h = [found \in SUBSET V |->
                     LET more == found \cup UNION {after(pair) : pair \in found}
                     IN  IF more = found THEN found ELSE h[more]]
<1>1. MergedCanonical(c) = FactsOf(grow[K]) BY DEF MergedCanonical, FactsOf
<1>2. HasFirst(c, c.first) /\ c.states \in Nat \ {0} BY DEF IsCore
<1>3. IsFiniteSet(V) /\ K \in SUBSET V
  <2>1. 0 \in States(c) BY <1>2 DEF States
  <2>2. IsFiniteSet(States(c)) BY <1>2, FS_Interval DEF States
  <2>3. IsFiniteSet(SUBSET PairItems(c)) BY <1>2, ItemsAreFinitelyMany DEF HasFirst
  <2>4. IsFiniteSet(V) BY <2>2, <2>3, FS_Product
  <2>5. Lr1Start(c, c.first) \in SUBSET PairItems(c) BY <1>2, Lr1Sets
  <2> QED BY <2>1, <2>4, <2>5
<1>4. next \in [V -> SUBSET V]
  <2> SUFFICES ASSUME NEW pair \in V, NEW e \in Elements(c.edges[pair[1]])
               PROVE  <<e[2], Lr1Goto(c, c.first, pair[2], e[1])>> \in V
    OBVIOUS
  <2>1. pair[1] \in States(c) /\ pair[2] \in SUBSET PairItems(c) OBVIOUS
  <2>2. c.edges[pair[1]] \in Seq(Elements(c.edges[pair[1]])) BY <2>1 DEF IsCore
  <2>3. PICK k \in 1 .. Len(c.edges[pair[1]]) : e = c.edges[pair[1]][k] BY <2>2 DEF Elements
  <2>4. e[2] \in States(c) BY <2>1, <2>3 DEF IsCore, EdgeTarget
  <2>5. Lr1Goto(c, c.first, pair[2], e[1]) \in SUBSET PairItems(c) BY <1>2, <2>1, Lr1Sets
  <2> QED BY <2>4, <2>5
<1>5. \A pair \in V : next[pair] = after(pair) OBVIOUS
<1>6. ASSUME NEW Z \in SUBSET V PROVE IsExplored(Z, next, K) <=> IsWalk(c, Z)
  <2>1. ASSUME NEW pair \in Z
        PROVE  next[pair] \subseteq Z <=>
                 \A e \in Elements(c.edges[pair[1]]) :
                   e[1] \in SymbolsAfterDots(CoresOf(pair[2])) => <<e[2], Lr1Goto(c, c.first, pair[2], e[1])>> \in Z
    <3>1. next[pair] = after(pair) BY <1>5
    <3> QED BY <3>1
  <2>2. K \subseteq Z <=> <<0, Lr1Start(c, c.first)>> \in Z OBVIOUS
  <2> HIDE DEF next, K
  <2> QED BY <2>1, <2>2 DEF IsExplored, IsWalk
<1>7. \A Z : IsWalk(c, Z) => Z \in SUBSET V BY DEF IsWalk
<1> HIDE DEF V, after, next, K
<1>8. \A h : Explores(h, next, V) <=> h = [found \in SUBSET V |->
                     LET more == found \cup UNION {after(pair) : pair \in found}
                     IN  IF more = found THEN found ELSE h[more]]
  <2> TAKE h
  <2>1. \A found \in SUBSET V : UNION {next[pair] : pair \in found} = UNION {after(pair) : pair \in found}
    BY <1>5
  <2>2. [found \in SUBSET V |-> IF found \cup UNION {next[pair] : pair \in found} = found THEN found
                                ELSE h[found \cup UNION {next[pair] : pair \in found}]] =
          [found \in SUBSET V |->
                     LET more == found \cup UNION {after(pair) : pair \in found}
                     IN  IF more = found THEN found ELSE h[more]]
    BY <2>1
  <2> QED BY <2>2 DEF Explores
<1>9. \E h : Explores(h, next, V) BY <1>3, <1>4, ExplorationEnds
<1>10. Explores(grow, next, V) BY <1>8, <1>9
<1> HIDE DEF grow
<1>11. /\ grow[K] \in SUBSET V /\ IsExplored(grow[K], next, K)
       /\ \A Z \in SUBSET V : IsExplored(Z, next, K) => grow[K] \subseteq Z
  BY <1>3, <1>4, <1>10, ExplorationEnds
<1>12. IsWalk(c, grow[K]) /\ \A Z : IsWalk(c, Z) => grow[K] \subseteq Z BY <1>6, <1>7, <1>11
<1> QED BY <1>1, <1>12

-----------------------------------------------------------------------------
(***************************************************************************)
(* The references of FIRST and FOLLOW: the nonterminals that vanish, and   *)
(* reachability along a set of edges, are least sets.                      *)
(***************************************************************************)
\* The rules are rules of nonterminals.
HasRules(g) == HasProducers(g) /\ \A q \in Elements(g.producers) : q.left \in g.nonterminals

\* A set that holds the left-hand side of every rule whose right-hand side it holds.
IsVanishing(g, Z) == \A q \in Elements(g.producers) : Elements(q.right) \subseteq Z => q.left \in Z

LEMMA NullableIsLeast ==
  ASSUME NEW g, HasRules(g)
  PROVE  /\ NullableSet(g) \subseteq g.nonterminals /\ IsVanishing(g, NullableSet(g))
         /\ \A Z : IsVanishing(g, Z) => NullableSet(g) \subseteq Z
<1> DEFINE V == g.nonterminals
           new(found) == {q.left : q \in {r \in Elements(g.producers) : Elements(r.right) \subseteq found}}
           F == [found \in SUBSET V |-> found \cup new(found)]
           U == {q.left : q \in Elements(g.producers)}
           grow == CHOOSE h : h = [found \in SUBSET V |->
                     LET more == found \cup new(found)
                     IN  IF more = found THEN found ELSE h[more]]
<1>1. NullableSet(g) = grow[{}] BY DEF NullableSet
<1>2. \A found : new(found) \subseteq U /\ U \subseteq V BY DEF HasRules
<1>3. IsFiniteSet(U)
  <2> DEFINE f == [q \in Elements(g.producers) |-> q.left]
  <2>1. U = {f[q] : q \in Elements(g.producers)} /\ DOMAIN f = Elements(g.producers) OBVIOUS
  <2>2. IsFiniteSet(Elements(g.producers))
    <3>1. Elements(g.producers) \subseteq AllProductions(g) BY DEF AllProductions
    <3> QED BY <3>1, ProductionShape, FS_Subset DEF HasRules
  <2> HIDE DEF f, U
  <2> QED BY <2>1, <2>2, ImageIsFinite
<1>4. \A S, T : S \subseteq T => new(S) \subseteq new(T) OBVIOUS
<1>5. \A Z : new(Z) \subseteq Z <=> IsVanishing(g, Z) BY DEF IsVanishing
<1>6. \A Z : IsVanishing(g, Z) => IsVanishing(g, Z \cap V) BY DEF IsVanishing, HasRules
<1> HIDE DEF U, new
<1>7. \A S \in SUBSET V : S \cup new(S) \in SUBSET V BY <1>2
<1>8. F \in [SUBSET V -> SUBSET V] /\ \A S \in SUBSET V : F[S] = S \cup new(S) BY <1>7
<1> HIDE DEF F
<1>9. Adds(F, V)
  <2>1. \A S \in SUBSET V : S \subseteq F[S] BY <1>8
  <2>2. \A S, T \in SUBSET V : S \subseteq T => F[S] \subseteq F[T] BY <1>4, <1>8
  <2> QED BY <1>8, <2>1, <2>2 DEF Adds
<1>10. \A h : Grows(h, F, V) <=> h = [found \in SUBSET V |->
                     LET more == found \cup new(found)
                     IN  IF more = found THEN found ELSE h[more]]
  <2> TAKE h
  <2>1. [S \in SUBSET V |-> IF F[S] = S THEN S ELSE h[F[S]]] =
          [found \in SUBSET V |->
                     LET more == found \cup new(found)
                     IN  IF more = found THEN found ELSE h[more]]
    BY <1>8
  <2> QED BY <2>1 DEF Grows
<1>11. \E h : Grows(h, F, V) BY <1>9, GrowthExists
<1>12. Grows(grow, F, V) BY <1>10, <1>11
<1> HIDE DEF grow, V
<1> DEFINE none == {}
<1>13. U \in SUBSET V /\ (\A S \in SUBSET U : F[S] \subseteq U) /\ none \in SUBSET U BY <1>2, <1>8
<1> HIDE DEF none
<1>14. /\ grow[none] \subseteq U /\ F[grow[none]] = grow[none]
       /\ \A Z \in SUBSET V : none \subseteq Z /\ F[Z] = Z => grow[none] \subseteq Z
  BY <1>3, <1>9, <1>12, <1>13, GrowthEnds
<1>15. grow[none] \in SUBSET V BY <1>13, <1>14
<1>16. IsVanishing(g, grow[none]) BY <1>5, <1>8, <1>14, <1>15
<1>17. ASSUME NEW Z, IsVanishing(g, Z) PROVE grow[none] \subseteq Z
  <2> DEFINE W == Z \cap V
  <2>1. W \in SUBSET V /\ new(W) \subseteq W BY <1>5, <1>6, <1>17
  <2>2. none \subseteq W BY DEF none
  <2>3. grow[none] \subseteq W BY <1>8, <1>14, <2>1, <2>2
  <2> QED BY <2>3
<1> QED BY <1>1, <1>15, <1>16, <1>17 DEF none, V

\* A set that holds X and, with the beginning of an edge, its end.
IsReached(edges, X, Z) == X \in Z /\ \A e \in edges : e[1] \in Z => e[2] \in Z

LEMMA ReachableIsLeast ==
  ASSUME NEW edges, IsFiniteSet(edges), NEW X
  PROVE  /\ Reachable(edges, X) \subseteq {X} \cup {e[2] : e \in edges} /\ IsReached(edges, X, Reachable(edges, X))
         /\ \A Z : IsReached(edges, X, Z) => Reachable(edges, X) \subseteq Z
<1> DEFINE V == {X} \cup {e[2] : e \in edges}
           after(found) == {e[2] : e \in {d \in edges : d[1] \in found}}
           next == [Y \in V |-> after({Y})]
           K == {X}
           grow == CHOOSE h : h = [found \in SUBSET V |->
                     LET more == found \cup after(found)
                     IN  IF more = found THEN found ELSE h[more]]
<1>1. Reachable(edges, X) = grow[K] BY DEF Reachable
<1>2. IsFiniteSet(V) /\ K \in SUBSET V
  <2> DEFINE f == [e \in edges |-> e[2]]
             T == {f[e] : e \in edges}
  <2>1. V = K \cup T /\ DOMAIN f = edges OBVIOUS
  <2> HIDE DEF f
  <2>2. IsFiniteSet(T) BY <2>1, ImageIsFinite
  <2>3. IsFiniteSet(K) BY FS_Singleton
  <2> HIDE DEF V, K, T
  <2>4. IsFiniteSet(V) BY <2>1, <2>2, <2>3, FS_Union
  <2> QED BY <2>1, <2>4
<1>3. next \in [V -> SUBSET V] OBVIOUS
<1>4. ASSUME NEW found \in SUBSET V PROVE after(found) = UNION {next[Y] : Y \in found}
  <2>1. \A Y \in found : next[Y] = after({Y}) OBVIOUS
  <2>2. \A y : y \in after(found) <=> \E Y \in found : y \in after({Y}) OBVIOUS
  <2> HIDE DEF after, next, V
  <2> QED BY <2>1, <2>2
<1>5. ASSUME NEW Z \in SUBSET V PROVE IsExplored(Z, next, K) <=> IsReached(edges, X, Z)
  <2>1. (\A Y \in Z : next[Y] \subseteq Z) <=> \A e \in edges : e[1] \in Z => e[2] \in Z OBVIOUS
  <2>2. K \subseteq Z <=> X \in Z OBVIOUS
  <2> HIDE DEF next, K, V
  <2> QED BY <2>1, <2>2 DEF IsExplored, IsReached
<1>6. \A Z : IsReached(edges, X, Z) => IsReached(edges, X, Z \cap V) BY DEF IsReached
<1> HIDE DEF V, after, next, K
<1>7. \A h : Explores(h, next, V) <=> h = [found \in SUBSET V |->
                     LET more == found \cup after(found)
                     IN  IF more = found THEN found ELSE h[more]]
  <2> TAKE h
  <2>1. [found \in SUBSET V |-> IF found \cup UNION {next[Y] : Y \in found} = found THEN found
                                ELSE h[found \cup UNION {next[Y] : Y \in found}]] =
          [found \in SUBSET V |->
                     LET more == found \cup after(found)
                     IN  IF more = found THEN found ELSE h[more]]
    BY <1>4
  <2> QED BY <2>1 DEF Explores
<1>8. \E h : Explores(h, next, V) BY <1>2, <1>3, ExplorationEnds
<1>9. Explores(grow, next, V) BY <1>7, <1>8
<1> HIDE DEF grow
<1>10. /\ grow[K] \in SUBSET V /\ IsExplored(grow[K], next, K)
       /\ \A Z \in SUBSET V : IsExplored(Z, next, K) => grow[K] \subseteq Z
  BY <1>2, <1>3, <1>9, ExplorationEnds
<1>11. \A Z \in SUBSET V : IsReached(edges, X, Z) => grow[K] \subseteq Z BY <1>5, <1>10
<1>12. ASSUME NEW Z, IsReached(edges, X, Z) PROVE grow[K] \subseteq Z
  <2>1. grow[K] \subseteq Z \cap V BY <1>6, <1>11, <1>12
  <2> QED BY <2>1
<1> QED BY <1>1, <1>5, <1>10, <1>12 DEF V

\* What is reached from what is reached is reached.
LEMMA ReachedOnwards ==
  ASSUME NEW edges, IsFiniteSet(edges), NEW X, NEW Y \in Reachable(edges, X)
  PROVE  Reachable(edges, Y) \subseteq Reachable(edges, X)
<1>1. IsReached(edges, Y, Reachable(edges, X)) BY ReachableIsLeast DEF IsReached
<1> QED BY <1>1, ReachableIsLeast

\* The symbols of the rules; those of the augmented production are not among the edges.
SymbolsOfRules(g) == UNION {Elements(q.right) : q \in Elements(g.producers)}

LEMMA SymbolsOfRulesFacts ==
  ASSUME NEW g, HasRules(g)
  PROVE  /\ OwnSymbols(g) = SymbolsOfRules(g) \cup {g.start} /\ SymbolsOfRules(g) \subseteq OwnSymbols(g)
         /\ \A q \in Elements(g.producers) : \A k \in DOMAIN q.right : q.right[k] \in SymbolsOfRules(g)
<1>1. AugmentedProduction(g).right = <<g.start>> BY DEF AugmentedProduction
<1>2. Elements(<<g.start>>) = {g.start} BY DEF Elements
<1>3. OwnSymbols(g) = SymbolsOfRules(g) \cup {g.start} BY <1>1, <1>2 DEF OwnSymbols, AllProductions, SymbolsOfRules
<1>4. \A q \in Elements(g.producers) : \A k \in DOMAIN q.right : q.right[k] \in SymbolsOfRules(g)
  BY DEF SymbolsOfRules, Elements
<1> QED BY <1>3, <1>4

\* The edges of BeginsWith and EndsWith, by their rules and positions.
LEMMA BeginsAndEnds ==
  ASSUME NEW g, HasRules(g), NEW edges \in {BeginsWith(g), EndsWith(g)}
  PROVE  IsFiniteSet(edges) /\ edges \subseteq g.nonterminals \X SymbolsOfRules(g)
<1> DEFINE L == {q.left : q \in AllProductions(g)}
<1>1. edges \subseteq L \X OwnSymbols(g) /\ edges \subseteq g.nonterminals \X SymbolsOfRules(g)
  <2> SUFFICES ASSUME NEW e \in edges PROVE e \in L \X OwnSymbols(g) /\ e \in g.nonterminals \X SymbolsOfRules(g)
    OBVIOUS
  <2>1. PICK q \in Elements(g.producers) : \E k \in DOMAIN q.right : e = <<q.left, q.right[k]>>
    BY DEF BeginsWith, EndsWith
  <2>2. q.left \in g.nonterminals /\ q \in AllProductions(g) BY DEF HasRules, AllProductions
  <2> QED BY <2>1, <2>2, SymbolsOfRulesFacts
<1>2. IsFiniteSet(L)
  <2> DEFINE f == [q \in AllProductions(g) |-> q.left]
  <2>1. L = {f[q] : q \in AllProductions(g)} /\ DOMAIN f = AllProductions(g) OBVIOUS
  <2>2. IsFiniteSet(AllProductions(g)) BY ProductionShape DEF HasRules
  <2> HIDE DEF f, L
  <2> QED BY <2>1, <2>2, ImageIsFinite
<1> HIDE DEF L
<1>3. IsFiniteSet(OwnSymbols(g)) BY ProductionShape DEF HasRules
<1>4. IsFiniteSet(L \X OwnSymbols(g)) BY <1>2, <1>3, FS_Product
<1>5. IsFiniteSet(edges) BY <1>1, <1>4, FS_Subset
<1> QED BY <1>1, <1>5

LEMMA FirstTableType ==
  ASSUME NEW g, HasRules(g)
  PROVE  /\ HasFirst(g, FirstTable(g))
         /\ FirstTable(g) \in [Names(g) -> SUBSET (SymbolsOfRules(g) \cup {Epsilon})]
<1> DEFINE S == SymbolsOfRules(g) \cup {Epsilon}
           edges == BeginsWith(g)
<1>1. IsFiniteSet(edges) /\ edges \subseteq g.nonterminals \X SymbolsOfRules(g) BY BeginsAndEnds
<1>2. FirstTable(g) = [A \in Names(g) |-> IF A \in g.nonterminals THEN FirstByReach(g)[A] ELSE {}]
  BY DEF FirstTable
<1>3. \A A \in g.nonterminals :
        FirstByReach(g)[A] = (Reachable(edges, A) \ g.nonterminals) \cup {e \in {Epsilon} : A \in NullableSet(g)}
  BY DEF FirstByReach
<1> HIDE DEF edges
<1>4. ASSUME NEW A \in g.nonterminals PROVE FirstByReach(g)[A] \in SUBSET S
  <2>1. Reachable(edges, A) \subseteq {A} \cup {e[2] : e \in edges} BY <1>1, ReachableIsLeast
  <2>2. {e[2] : e \in edges} \subseteq SymbolsOfRules(g) BY <1>1
  <2> QED BY <1>3, <2>1, <2>2
<1>5. \A A \in Names(g) : (IF A \in g.nonterminals THEN FirstByReach(g)[A] ELSE {}) \in SUBSET S BY <1>4
<1>6. FirstTable(g) \in [Names(g) -> SUBSET S] BY <1>2, <1>5
<1>7. S \subseteq OwnSymbols(g) \cup {Epsilon} BY SymbolsOfRulesFacts
<1>8. FirstTable(g) \in [Names(g) -> SUBSET (OwnSymbols(g) \cup {Epsilon})]
  <2>1. SUBSET S \subseteq SUBSET (OwnSymbols(g) \cup {Epsilon}) BY <1>7
  <2> HIDE DEF S
  <2> QED BY <1>6, <2>1
<1> QED BY <1>6, <1>8 DEF HasFirst, HasRules


-----------------------------------------------------------------------------
(***************************************************************************)
(* The language of a grammar: the spans are the least set closed under the *)
(* productions.                                                            *)
(***************************************************************************)
Places(word) == 1 .. Len(word) + 1

\* The symbols of right from the place from on cover a piece of the word, one behind the other;
\* cut holds the places between them.
IsCut(g, word, found, right, from, cut) ==
  /\ cut \in [from .. Len(right) + 1 -> Places(word)]
  /\ \A k \in from .. Len(right) : cut[k + 1] \in SymbolEnds(g, word, found, cut[k], right[k])
Covered(g, word, found, right, from, i, j) ==
  \E cut : IsCut(g, word, found, right, from, cut) /\ cut[from] = i /\ cut[Len(right) + 1] = j

\* There is the sequence of what one step after the other makes of a.
AreSteps(st, N, D)   == N \in Nat /\ st \in [1 .. N -> [D -> D]]
NextStep(f, a, st, N, D) == f \in [0 .. N -> D] /\ f[0] = a /\ \A n \in 1 .. N : f[n] = st[n][f[n - 1]]

LEMMA StepsExist ==
  ASSUME NEW D, NEW N, NEW a \in D, NEW st, AreSteps(st, N, D)
  PROVE  \E f : NextStep(f, a, st, N, D)
<1>0. N \in Nat /\ st \in [1 .. N -> [D -> D]] BY DEF AreSteps
<1> DEFINE Good(m) == \E f \in [0 .. m -> D] : f[0] = a /\ \A n \in 1 .. m : f[n] = st[n][f[n - 1]]
           Bad == {m \in 0 .. N : ~Good(m)}
<1>1. Bad = {}
  <2> SUFFICES ASSUME Bad # {} PROVE FALSE OBVIOUS
  <2>1. Bad \in SUBSET Nat BY <1>0
  <2>2. PICK m \in Bad : \A k \in Bad : m <= k
    <3> HIDE DEF Bad
    <3> QED BY <2>1, LeastOf
  <2>3. m \in 0 .. N /\ ~Good(m) BY <2>2
  <2>4. CASE m = 0
    <3> DEFINE f == [n \in 0 .. 0 |-> a]
    <3>1. f \in [0 .. m -> D] /\ f[0] = a /\ \A n \in 1 .. m : f[n] = st[n][f[n - 1]] BY <2>4
    <3> QED BY <2>3, <3>1
  <2>5. CASE m # 0
    <3>1. m - 1 \in 0 .. N /\ ~(m <= m - 1) BY <1>0, <2>3, <2>5
    <3>2. Good(m - 1)
      <4>1. m - 1 \notin Bad
        <5> HIDE DEF Bad
        <5> QED BY <2>2, <3>1
      <4> HIDE DEF Good
      <4> QED BY <3>1, <4>1
    <3>3. PICK f \in [0 .. m - 1 -> D] : f[0] = a /\ \A n \in 1 .. m - 1 : f[n] = st[n][f[n - 1]] BY <3>2
    <3> DEFINE h == [n \in 0 .. m |-> IF n = m THEN st[m][f[m - 1]] ELSE f[n]]
    <3>4. f[m - 1] \in D /\ m \in 1 .. N /\ m - 1 \in 0 .. m - 1 BY <1>0, <2>3, <2>5, <3>3
    <3>5. st[m][f[m - 1]] \in D BY <1>0, <3>4
    <3>6. h \in [0 .. m -> D] /\ h[0] = a /\ h[m] = st[m][f[m - 1]] /\ \A n \in 0 .. m - 1 : h[n] = f[n]
      BY <1>0, <2>3, <2>5, <3>3, <3>4, <3>5
    <3> HIDE DEF h
    <3>7. ASSUME NEW n \in 1 .. m PROVE h[n] = st[n][h[n - 1]]
      <4>1. CASE n = m BY <3>4, <3>6, <4>1
      <4>2. CASE n # m
        <5>1. n \in 1 .. m - 1 /\ n \in 0 .. m - 1 /\ n - 1 \in 0 .. m - 1 BY <1>0, <2>3, <2>5, <4>2
        <5> QED BY <3>3, <3>6, <5>1
      <4> QED BY <4>1, <4>2
    <3> QED BY <2>3, <3>6, <3>7
  <2> QED BY <2>4, <2>5
<1>2. N \in 0 .. N BY <1>0
<1>3. Good(N)
  <2> HIDE DEF Good
  <2> QED BY <1>1, <1>2
<1> QED BY <1>3 DEF NextStep

LEMMA SymbolEndsWithin ==
  ASSUME NEW g, NEW word, Len(word) \in Nat, NEW found, NEW i \in Places(word), NEW X
  PROVE  SymbolEnds(g, word, found, i, X) \in SUBSET Places(word)
BY DEF SymbolEnds, Places

\* Where a right-hand side that begins at i can end.
LEMMA EndsAreCovered ==
  ASSUME NEW g, NEW word, Len(word) \in Nat, NEW found, NEW right, Len(right) \in Nat, NEW i \in Places(word)
  PROVE  Ends(g, word, found, right, i) = {j \in Places(word) : Covered(g, word, found, right, 1, i, j)}
<1> DEFINE N == Len(right)
           P == Places(word)
           D == SUBSET P
           step(n, T) == UNION {SymbolEnds(g, word, found, k, right[n]) : k \in T}
           st == [n \in 1 .. N |-> [T \in D |-> step(n, T)]]
           b == CHOOSE h : h = [n \in 0 .. N |-> IF n = 0 THEN {i} ELSE step(n, h[n - 1])]
<1>1. Ends(g, word, found, right, i) = b[N] BY DEF Ends
<1>2. \A n, T : T \in D => step(n, T) \in D BY SymbolEndsWithin
<1>3. {i} \in D OBVIOUS
<1>4. st \in [1 .. N -> [D -> D]] BY <1>2
<1>5. \A n \in 1 .. N : \A T \in D : st[n][T] = step(n, T) OBVIOUS
<1>0. N \in Nat OBVIOUS
<1> HIDE DEF N, D, st, step
<1> DEFINE one == {i}
<1>6. PICK f \in [0 .. N -> D] : f[0] = one /\ \A n \in 1 .. N : f[n] = st[n][f[n - 1]]
  <2>1. one \in D BY <1>3
  <2> HIDE DEF one
  <2>2. AreSteps(st, N, D) BY <1>0, <1>4 DEF AreSteps
  <2>3. \E f : NextStep(f, one, st, N, D) BY <2>1, <2>2, StepsExist
  <2> QED BY <2>3 DEF NextStep
<1>7. f = [n \in 0 .. N |-> IF n = 0 THEN {i} ELSE step(n, f[n - 1])]
  <2>1. ASSUME NEW n \in 0 .. N PROVE f[n] = IF n = 0 THEN {i} ELSE step(n, f[n - 1])
    <3>1. CASE n = 0 BY <1>6, <3>1
    <3>2. CASE n # 0
      <4>1. n \in 1 .. N /\ n - 1 \in 0 .. N BY <1>0, <3>2
      <4>2. f[n - 1] \in D BY <1>6, <4>1
      <4> QED BY <1>5, <1>6, <3>2, <4>1, <4>2
    <3> QED BY <3>1, <3>2
  <2>2. f = [n \in 0 .. N |-> f[n]] BY <1>6
  <2> QED BY <2>1, <2>2
<1>8. b = [n \in 0 .. N |-> IF n = 0 THEN {i} ELSE step(n, b[n - 1])] BY <1>7
<1> HIDE DEF b
<1>9. b[0] = {i} /\ \A n \in 1 .. N : b[n] = step(n, b[n - 1])
  <2>1. \A n \in 0 .. N : b[n] = IF n = 0 THEN {i} ELSE step(n, b[n - 1]) BY <1>8
  <2>2. 0 \in 0 .. N /\ \A n \in 1 .. N : n \in 0 .. N /\ n # 0 BY <1>0
  <2> QED BY <2>1, <2>2
<1> DEFINE Reach(n, j) == \E cut \in [1 .. n + 1 -> P] :
                            /\ cut[1] = i /\ cut[n + 1] = j
                            /\ \A k \in 1 .. n : cut[k + 1] \in SymbolEnds(g, word, found, cut[k], right[k])
           Good(n) == b[n] = {j \in P : Reach(n, j)}
           Bad == {n \in 0 .. N : ~Good(n)}
<1>10. Bad = {}
  <2> SUFFICES ASSUME Bad # {} PROVE FALSE OBVIOUS
  <2>1. Bad \in SUBSET Nat BY <1>0
  <2>2. PICK m \in Bad : \A k \in Bad : m <= k
    <3> HIDE DEF Bad
    <3> QED BY <2>1, LeastOf
  <2>3. m \in 0 .. N /\ ~Good(m) BY <2>2
  <2>4. CASE m = 0
    <3>1. Reach(0, i)
      <4> DEFINE cut == [k \in 1 .. 1 |-> i]
      <4>1. cut \in [1 .. 0 + 1 -> P] /\ cut[1] = i /\ cut[0 + 1] = i /\ 1 .. 0 = {} OBVIOUS
      <4> QED BY <4>1
    <3>2. \A j \in P : Reach(0, j) => j = i OBVIOUS
    <3> HIDE DEF Reach
    <3>3. b[0] = {j \in P : Reach(0, j)} BY <1>9, <3>1, <3>2
    <3> QED BY <2>3, <2>4, <3>3
  <2>5. CASE m # 0
    <3>1. m - 1 \in 0 .. N /\ ~(m <= m - 1) /\ m \in 1 .. N /\ m \in Nat BY <1>0, <2>3, <2>5
    <3>2. Good(m - 1)
      <4>1. m - 1 \notin Bad
        <5> HIDE DEF Bad
        <5> QED BY <2>2, <3>1
      <4> HIDE DEF Good
      <4> QED BY <3>1, <4>1
    <3>3. b[m] = step(m, b[m - 1]) BY <1>9, <3>1
    <3>4. ASSUME NEW j \in b[m] PROVE j \in P /\ Reach(m, j)
      <4>1. PICK k \in b[m - 1] : j \in SymbolEnds(g, word, found, k, right[m]) BY <3>3 DEF step
      <4>2. k \in P /\ Reach(m - 1, k) BY <3>2
      <4>3. j \in P BY <4>1, <4>2, SymbolEndsWithin
      <4>4. PICK cut \in [1 .. (m - 1) + 1 -> P] :
              /\ cut[1] = i /\ cut[(m - 1) + 1] = k
              /\ \A l \in 1 .. m - 1 : cut[l + 1] \in SymbolEnds(g, word, found, cut[l], right[l])
        BY <4>2
      <4> DEFINE new == [l \in 1 .. m + 1 |-> IF l = m + 1 THEN j ELSE cut[l]]
      <4>5. (m - 1) + 1 = m BY <3>1
      <4>6. new \in [1 .. m + 1 -> P] /\ new[m + 1] = j /\ \A l \in 1 .. m : new[l] = cut[l]
        BY <3>1, <4>3, <4>4, <4>5
      <4> HIDE DEF new
      <4>7. ASSUME NEW l \in 1 .. m PROVE new[l + 1] \in SymbolEnds(g, word, found, new[l], right[l])
        <5>1. CASE l = m BY <4>1, <4>4, <4>5, <4>6, <5>1
        <5>2. CASE l # m
          <6>1. l \in 1 .. m - 1 /\ l + 1 \in 1 .. m BY <3>1, <5>2
          <6> QED BY <4>4, <4>6, <6>1
        <5> QED BY <5>1, <5>2
      <4>8. new[1] = i BY <3>1, <4>4, <4>6
      <4> QED BY <4>3, <4>6, <4>7, <4>8
    <3>5. ASSUME NEW j \in P, Reach(m, j) PROVE j \in b[m]
      <4>1. PICK cut \in [1 .. m + 1 -> P] :
              /\ cut[1] = i /\ cut[m + 1] = j
              /\ \A l \in 1 .. m : cut[l + 1] \in SymbolEnds(g, word, found, cut[l], right[l])
        BY <3>5
      <4> DEFINE less == [l \in 1 .. m |-> cut[l]]
      <4>2. (m - 1) + 1 = m /\ m \in 1 .. m BY <3>1
      <4>3. less \in [1 .. (m - 1) + 1 -> P] /\ less[1] = i /\ less[(m - 1) + 1] = cut[m]
        BY <3>1, <4>1, <4>2
      <4>4. \A l \in 1 .. m - 1 : less[l + 1] \in SymbolEnds(g, word, found, less[l], right[l])
        <5>1. \A l \in 1 .. m - 1 : l \in 1 .. m /\ l + 1 \in 1 .. m BY <3>1
        <5> QED BY <4>1, <5>1
      <4> HIDE DEF less
      <4>5. Reach(m - 1, cut[m]) BY <4>3, <4>4
      <4>6. cut[m] \in P BY <3>1, <4>1
      <4>7. cut[m] \in b[m - 1]
        <5> HIDE DEF Reach
        <5> QED BY <3>2, <4>5, <4>6
      <4>8. j \in SymbolEnds(g, word, found, cut[m], right[m]) BY <4>1, <4>2
      <4> QED BY <3>3, <4>7, <4>8 DEF step
    <3> HIDE DEF Reach
    <3>6. b[m] = {j \in P : Reach(m, j)} BY <3>4, <3>5
    <3> QED BY <2>3, <3>6
  <2> QED BY <2>4, <2>5
<1>11. Good(N)
  <2>1. N \in 0 .. N BY <1>0
  <2> HIDE DEF Good
  <2> QED BY <1>10, <2>1
<1>12. \A j \in P : Reach(N, j) <=> Covered(g, word, found, right, 1, i, j) BY DEF Covered, IsCut, N
<1> HIDE DEF Reach
<1> QED BY <1>1, <1>11, <1>12


LEMMA CoveredGrows ==
  ASSUME NEW g, NEW word, NEW found, NEW more, found \subseteq more, NEW right, NEW from, NEW i, NEW j,
         Covered(g, word, found, right, from, i, j)
  PROVE  Covered(g, word, more, right, from, i, j)
<1>1. \A k, X : SymbolEnds(g, word, found, k, X) \subseteq SymbolEnds(g, word, more, k, X) BY DEF SymbolEnds
<1>2. PICK cut : IsCut(g, word, found, right, from, cut) /\ cut[from] = i /\ cut[Len(right) + 1] = j
  BY DEF Covered
<1>3. IsCut(g, word, more, right, from, cut) BY <1>1, <1>2 DEF IsCut
<1> QED BY <1>2, <1>3 DEF Covered

\* A set of spans that holds the left-hand side wherever it holds the right-hand side.
IsSpanning(g, word, Z) ==
  \A prod \in Elements(g.producers) : \A i, j \in Places(word) :
    Covered(g, word, Z, prod.right, 1, i, j) => <<prod.left, i, j>> \in Z
LeftSpans(g, word) == {prod.left : prod \in Elements(g.producers)} \X Places(word) \X Places(word)

LEMMA SpansIsLeast ==
  ASSUME NEW g, HasProducers(g), NEW word, Len(word) \in Nat
  PROVE  /\ Spans(g, word) \in SUBSET LeftSpans(g, word) /\ IsSpanning(g, word, Spans(g, word))
         /\ \A Z : IsSpanning(g, word, Z) => Spans(g, word) \subseteq Z
<1> DEFINE P == Places(word)
           R == Elements(g.producers)
           V == LeftSpans(g, word)
           new(found) == UNION {{<<prod.left, i, j>> : j \in Ends(g, word, found, prod.right, i)} :
                                  prod \in Elements(g.producers), i \in 1 .. Len(word) + 1}
           F == [found \in SUBSET V |-> found \cup new(found)]
           grow == CHOOSE h : h = [found \in SUBSET V |->
                     LET more == found \cup new(found)
                     IN  IF more = found THEN found ELSE h[more]]
<1>1. Spans(g, word) = grow[{}] BY DEF Spans, LeftSpans, Places
<1>2. ASSUME NEW found, NEW prod \in R, NEW i \in P
      PROVE  Ends(g, word, found, prod.right, i) = {j \in P : Covered(g, word, found, prod.right, 1, i, j)}
  <2>1. Len(prod.right) \in Nat BY DEF HasProducers
  <2> QED BY <2>1, EndsAreCovered
<1>3. ASSUME NEW found, NEW x
      PROVE  x \in new(found) <=> \E prod \in R : \E i, j \in P :
               x = <<prod.left, i, j>> /\ Covered(g, word, found, prod.right, 1, i, j)
  <2> DEFINE row(prod, i) == {<<prod.left, i, j>> : j \in Ends(g, word, found, prod.right, i)}
  <2>1. new(found) = UNION {row(prod, i) : prod \in R, i \in P} BY DEF Places
  <2>2. \A prod \in R : \A i \in P : x \in row(prod, i) <=>
          \E j \in P : x = <<prod.left, i, j>> /\ Covered(g, word, found, prod.right, 1, i, j)
    <3> TAKE prod \in R
    <3> TAKE i \in P
    <3>1. x \in row(prod, i) <=> \E j \in Ends(g, word, found, prod.right, i) : x = <<prod.left, i, j>> OBVIOUS
    <3> HIDE DEF row, P, R
    <3> QED BY <1>2, <3>1
  <2> HIDE DEF new, R, P, row
  <2>3. x \in new(found) <=> \E prod \in R : \E i \in P : x \in row(prod, i) BY <2>1
  <2> QED BY <2>2, <2>3
<1>4. IsFiniteSet(V)
  <2> DEFINE L == {prod.left : prod \in R}
             f == [q \in R |-> q.left]
  <2>1. L = {f[q] : q \in R} /\ DOMAIN f = R OBVIOUS
  <2>2. IsFiniteSet(R)
    <3>1. R \subseteq AllProductions(g) BY DEF AllProductions
    <3> QED BY <3>1, ProductionShape, FS_Subset
  <2>3. IsFiniteSet(P) BY FS_Interval DEF Places
  <2>4. V = L \X P \X P BY DEF LeftSpans
  <2> DEFINE LP == L \X P
             h == [t \in LP \X P |-> <<t[1][1], t[1][2], t[2]>>]
  <2>5. V = {h[t] : t \in LP \X P} /\ DOMAIN h = LP \X P
    <3>1. \A A \in L, i, j \in P : <<<<A, i>>, j>> \in LP \X P /\ h[<<<<A, i>>, j>>] = <<A, i, j>> OBVIOUS
    <3>2. \A t \in LP \X P : h[t] \in L \X P \X P OBVIOUS
    <3>3. \A x \in L \X P \X P : \E A \in L, i, j \in P : x = <<A, i, j>> OBVIOUS
    <3> HIDE DEF h, LP, L, P, V
    <3>4. ASSUME NEW x \in V PROVE \E t \in LP \X P : h[t] = x
      <4>1. PICK A \in L, i \in P, j \in P : x = <<A, i, j>> BY <2>4, <3>3
      <4>2. <<<<A, i>>, j>> \in LP \X P /\ h[<<<<A, i>>, j>>] = <<A, i, j>> BY <3>1
      <4> QED BY <4>1, <4>2
    <3>5. \A t \in LP \X P : h[t] \in V BY <2>4, <3>2
    <3>6. DOMAIN h = LP \X P BY DEF h
    <3> QED BY <3>4, <3>5, <3>6
  <2> HIDE DEF f, L, R, P, V, h
  <2>6. IsFiniteSet(L) BY <2>1, <2>2, ImageIsFinite
  <2>7. IsFiniteSet(LP) BY <2>3, <2>6, FS_Product
  <2> HIDE DEF LP
  <2>8. IsFiniteSet(LP \X P) BY <2>3, <2>7, FS_Product
  <2> DEFINE T == LP \X P
  <2>9. IsFiniteSet(T) /\ DOMAIN h = T /\ V = {h[t] : t \in T} BY <2>5, <2>8
  <2> HIDE DEF T
  <2> QED BY <2>9, ImageIsFinite
<1> HIDE DEF new, P, R
<1>5. \A found : new(found) \subseteq V
  <2> TAKE found
  <2>1. ASSUME NEW x \in new(found) PROVE x \in V
    <3>1. PICK prod \in R : \E i, j \in P : x = <<prod.left, i, j>> BY <1>3
    <3> QED BY <3>1 DEF LeftSpans, P, R
  <2> QED BY <2>1
<1>6. ASSUME NEW S, NEW T, S \subseteq T PROVE new(S) \subseteq new(T)
  <2>1. ASSUME NEW x \in new(S) PROVE x \in new(T)
    <3>1. PICK prod \in R, i \in P, j \in P : x = <<prod.left, i, j>> /\ Covered(g, word, S, prod.right, 1, i, j)
      BY <1>3
    <3>2. Covered(g, word, T, prod.right, 1, i, j) BY <1>6, <3>1, CoveredGrows
    <3> QED BY <1>3, <3>1, <3>2
  <2> QED BY <2>1
<1>7. ASSUME NEW Z PROVE new(Z) \subseteq Z <=> IsSpanning(g, word, Z)
  <2>1. new(Z) \subseteq Z => IsSpanning(g, word, Z)
    <3> SUFFICES ASSUME new(Z) \subseteq Z, NEW prod \in R, NEW i \in P, NEW j \in P,
                        Covered(g, word, Z, prod.right, 1, i, j)
                 PROVE  <<prod.left, i, j>> \in Z
      BY DEF IsSpanning, R, P
    <3>1. <<prod.left, i, j>> \in new(Z) BY <1>3
    <3> QED BY <3>1
  <2>2. IsSpanning(g, word, Z) => new(Z) \subseteq Z
    <3> SUFFICES ASSUME IsSpanning(g, word, Z), NEW x \in new(Z) PROVE x \in Z OBVIOUS
    <3>1. PICK prod \in R, i \in P, j \in P : x = <<prod.left, i, j>> /\ Covered(g, word, Z, prod.right, 1, i, j)
      BY <1>3
    <3> QED BY <3>1 DEF IsSpanning, R, P
  <2> QED BY <2>1, <2>2
<1>8. \A S \in SUBSET V : S \cup new(S) \in SUBSET V BY <1>5
<1>9. F \in [SUBSET V -> SUBSET V] /\ \A S \in SUBSET V : F[S] = S \cup new(S) BY <1>8
<1> HIDE DEF F
<1>10. Adds(F, V)
  <2>1. \A S \in SUBSET V : S \subseteq F[S] BY <1>9
  <2>2. \A S, T \in SUBSET V : S \subseteq T => F[S] \subseteq F[T] BY <1>6, <1>9
  <2> QED BY <1>9, <2>1, <2>2 DEF Adds
<1>11. \A h : Grows(h, F, V) <=> h = [found \in SUBSET V |->
                     LET more == found \cup new(found)
                     IN  IF more = found THEN found ELSE h[more]]
  <2> TAKE h
  <2>1. [S \in SUBSET V |-> IF F[S] = S THEN S ELSE h[F[S]]] =
          [found \in SUBSET V |->
                     LET more == found \cup new(found)
                     IN  IF more = found THEN found ELSE h[more]]
    BY <1>9
  <2> QED BY <2>1 DEF Grows
<1>12. \E h : Grows(h, F, V) BY <1>10, GrowthExists
<1>13. Grows(grow, F, V) BY <1>11, <1>12
<1> HIDE DEF grow, V
<1> DEFINE none == {}
<1>14. V \in SUBSET V /\ (\A S \in SUBSET V : F[S] \subseteq V) /\ none \in SUBSET V BY <1>5, <1>9
<1> HIDE DEF none
<1>15. /\ grow[none] \subseteq V /\ F[grow[none]] = grow[none]
       /\ \A Z \in SUBSET V : none \subseteq Z /\ F[Z] = Z => grow[none] \subseteq Z
  BY <1>4, <1>10, <1>13, <1>14, GrowthEnds
<1>16. IsSpanning(g, word, grow[none]) BY <1>7, <1>9, <1>15
<1>17. ASSUME NEW Z, IsSpanning(g, word, Z) PROVE grow[none] \subseteq Z
  <2> DEFINE W == Z \cap V
  <2>1. W \in SUBSET V /\ new(W) \subseteq W
    <3>1. W \subseteq Z /\ W \in SUBSET V OBVIOUS
    <3> HIDE DEF W
    <3>2. new(W) \subseteq new(Z) BY <1>6, <3>1
    <3>3. new(Z) \subseteq Z BY <1>7, <1>17
    <3>4. new(W) \subseteq Z \cap V BY <1>5, <3>2, <3>3
    <3> QED BY <3>1, <3>4 DEF W
  <2>2. none \subseteq W BY DEF none
  <2>3. grow[none] \subseteq W BY <1>9, <1>15, <2>1, <2>2
  <2> QED BY <2>3
<1> QED BY <1>1, <1>15, <1>16, <1>17 DEF none, V


\* One symbol of a cover after the other.
LEMMA CoveredStep ==
  ASSUME NEW g, NEW word, Len(word) \in Nat, NEW found, NEW right, Len(right) \in Nat,
         NEW from \in 1 .. Len(right), NEW i, NEW j
  PROVE  Covered(g, word, found, right, from, i, j) <=>
           /\ i \in Places(word)
           /\ \E m \in SymbolEnds(g, word, found, i, right[from]) : Covered(g, word, found, right, from + 1, m, j)
<1> DEFINE N == Len(right)
           P == Places(word)
<1>1. ASSUME Covered(g, word, found, right, from, i, j)
      PROVE  /\ i \in P
             /\ \E m \in SymbolEnds(g, word, found, i, right[from]) : Covered(g, word, found, right, from + 1, m, j)
  <2>1. PICK cut : IsCut(g, word, found, right, from, cut) /\ cut[from] = i /\ cut[N + 1] = j
    BY <1>1 DEF Covered
  <2> DEFINE rest == [k \in from + 1 .. N + 1 |-> cut[k]]
  <2>2. rest \in [from + 1 .. N + 1 -> P] /\ cut[from] \in P BY <2>1 DEF IsCut
  <2>3. cut[from + 1] \in SymbolEnds(g, word, found, cut[from], right[from]) BY <2>1 DEF IsCut
  <2>4. IsCut(g, word, found, right, from + 1, rest)
    <3>1. \A k \in from + 1 .. N : k \in from .. N /\ rest[k] = cut[k] /\ rest[k + 1] = cut[k + 1] OBVIOUS
    <3> HIDE DEF rest
    <3> QED BY <2>1, <2>2, <3>1 DEF IsCut
  <2>5. rest[from + 1] = cut[from + 1] /\ rest[N + 1] = cut[N + 1] OBVIOUS
  <2> HIDE DEF rest
  <2> QED BY <2>1, <2>2, <2>3, <2>4, <2>5 DEF Covered
<1>2. ASSUME i \in P, NEW m \in SymbolEnds(g, word, found, i, right[from]),
             Covered(g, word, found, right, from + 1, m, j)
      PROVE  Covered(g, word, found, right, from, i, j)
  <2>1. PICK cut : IsCut(g, word, found, right, from + 1, cut) /\ cut[from + 1] = m /\ cut[N + 1] = j
    BY <1>2 DEF Covered
  <2> DEFINE all == [k \in from .. N + 1 |-> IF k = from THEN i ELSE cut[k]]
  <2>2. all \in [from .. N + 1 -> P]
    <3>1. \A k \in from .. N + 1 : k # from => k \in from + 1 .. N + 1 OBVIOUS
    <3> QED BY <1>2, <2>1, <3>1 DEF IsCut
  <2>3. all[from] = i /\ \A k \in from + 1 .. N + 1 : all[k] = cut[k] OBVIOUS
  <2> HIDE DEF all
  <2>4. ASSUME NEW k \in from .. N PROVE all[k + 1] \in SymbolEnds(g, word, found, all[k], right[k])
    <3>1. k + 1 \in from + 1 .. N + 1 OBVIOUS
    <3>2. CASE k = from BY <1>2, <2>1, <2>3, <3>1, <3>2
    <3>3. CASE k # from
      <4>1. k \in from + 1 .. N /\ k \in from + 1 .. N + 1 BY <3>3
      <4> QED BY <2>1, <2>3, <3>1, <4>1 DEF IsCut
    <3> QED BY <3>2, <3>3
  <2>5. IsCut(g, word, found, right, from, all) BY <2>2, <2>4 DEF IsCut
  <2>6. N + 1 \in from + 1 .. N + 1 OBVIOUS
  <2> QED BY <2>1, <2>3, <2>5, <2>6 DEF Covered
<1> QED BY <1>1, <1>2

LEMMA CoveredEnd ==
  ASSUME NEW g, NEW word, NEW found, NEW right, Len(right) \in Nat, NEW i, NEW j
  PROVE  Covered(g, word, found, right, Len(right) + 1, i, j) <=> i \in Places(word) /\ i = j
<1> DEFINE N == Len(right)
           P == Places(word)
<1>1. ASSUME Covered(g, word, found, right, N + 1, i, j) PROVE i \in P /\ i = j
  <2>1. PICK cut : cut \in [N + 1 .. N + 1 -> P] /\ cut[N + 1] = i /\ cut[N + 1] = j
    BY <1>1 DEF Covered, IsCut
  <2>2. N + 1 \in N + 1 .. N + 1 OBVIOUS
  <2> QED BY <2>1, <2>2
<1>2. ASSUME i \in P, i = j PROVE Covered(g, word, found, right, N + 1, i, j)
  <2> DEFINE cut == [k \in N + 1 .. N + 1 |-> i]
  <2>1. cut \in [N + 1 .. N + 1 -> P] /\ cut[N + 1] = i /\ cut[N + 1] = j BY <1>2
  <2>2. N + 1 .. N = {} OBVIOUS
  <2> HIDE DEF cut
  <2> QED BY <2>1, <2>2 DEF Covered, IsCut
<1> QED BY <1>1, <1>2

LEMMA CoveredWithin ==
  ASSUME NEW g, NEW word, Len(word) \in Nat, NEW found, NEW right, Len(right) \in Nat,
         NEW from \in 1 .. Len(right) + 1, NEW i, NEW j, Covered(g, word, found, right, from, i, j)
  PROVE  i \in Places(word) /\ j \in Places(word)
<1>1. PICK cut : cut \in [from .. Len(right) + 1 -> Places(word)] /\ cut[from] = i /\ cut[Len(right) + 1] = j
  BY DEF Covered, IsCut
<1>2. from \in from .. Len(right) + 1 /\ Len(right) + 1 \in from .. Len(right) + 1 OBVIOUS
<1> QED BY <1>1, <1>2

\* A cover of s, one symbol longer.
LEMMA CoveredPush ==
  ASSUME NEW g, NEW word, Len(word) \in Nat, NEW found, NEW s, Len(s) \in Nat, NEW t, Len(t) = Len(s) + 1,
         \A k \in 1 .. Len(s) : t[k] = s[k], NEW h, NEW i, NEW j,
         Covered(g, word, found, s, 1, h, i), j \in SymbolEnds(g, word, found, i, t[Len(s) + 1])
  PROVE  Covered(g, word, found, t, 1, h, j)
<1> DEFINE N == Len(s)
           P == Places(word)
<1>1. PICK cut : IsCut(g, word, found, s, 1, cut) /\ cut[1] = h /\ cut[N + 1] = i BY DEF Covered
<1>2. N \in Nat /\ i \in P /\ j \in P
  <2>1. i \in P BY CoveredWithin
  <2> QED BY <2>1, SymbolEndsWithin
<1> DEFINE new == [k \in 1 .. N + 2 |-> IF k = N + 2 THEN j ELSE cut[k]]
<1>3. new \in [1 .. N + 2 -> P] /\ new[N + 2] = j /\ \A k \in 1 .. N + 1 : new[k] = cut[k]
  BY <1>1, <1>2 DEF IsCut
<1> HIDE DEF new, P
<1>4. ASSUME NEW k \in 1 .. N + 1 PROVE new[k + 1] \in SymbolEnds(g, word, found, new[k], t[k])
  <2>1. CASE k = N + 1
    <3>1. k + 1 = N + 2 BY <1>2, <2>1
    <3> QED BY <1>1, <1>3, <2>1, <3>1
  <2>2. CASE k # N + 1
    <3>1. k \in 1 .. N /\ k + 1 \in 1 .. N + 1 BY <1>2, <2>2
    <3>2. cut[k + 1] \in SymbolEnds(g, word, found, cut[k], s[k]) BY <1>1, <3>1 DEF IsCut
    <3> QED BY <1>3, <3>1, <3>2
  <2> QED BY <2>1, <2>2
<1>5. Len(t) + 1 = N + 2 /\ Len(t) = N + 1 /\ 1 \in 1 .. N + 1 BY <1>2
<1>6. IsCut(g, word, found, t, 1, new) BY <1>3, <1>4, <1>5 DEF IsCut, P
<1>7. new[1] = h /\ new[Len(t) + 1] = j BY <1>1, <1>3, <1>5
<1> QED BY <1>6, <1>7 DEF Covered

\* A cover of s and r, one behind the other, is a cover of s and one of r.
LEMMA CoveredSplit ==
  ASSUME NEW g, NEW word, Len(word) \in Nat, NEW found, NEW s, Len(s) \in Nat, NEW r, Len(r) \in Nat,
         NEW t, Len(t) = Len(s) + Len(r), \A k \in 1 .. Len(s) : t[k] = s[k],
         \A k \in 1 .. Len(r) : t[Len(s) + k] = r[k], NEW h, NEW j, Covered(g, word, found, t, 1, h, j)
  PROVE  \E i \in Places(word) : Covered(g, word, found, s, 1, h, i) /\ Covered(g, word, found, r, 1, i, j)
<1> DEFINE N == Len(s)
           M == Len(r)
           P == Places(word)
<1>1. PICK cut : IsCut(g, word, found, t, 1, cut) /\ cut[1] = h /\ cut[Len(t) + 1] = j BY DEF Covered
<1>2. N \in Nat /\ M \in Nat /\ cut \in [1 .. N + M + 1 -> P] BY <1>1 DEF IsCut
<1>3. \A k \in 1 .. N + M : cut[k + 1] \in SymbolEnds(g, word, found, cut[k], t[k]) BY <1>1 DEF IsCut
<1> DEFINE a == [k \in 1 .. N + 1 |-> cut[k]]
           b == [k \in 1 .. M + 1 |-> cut[N + k]]
<1>4. a \in [1 .. N + 1 -> P] /\ \A k \in 1 .. N + 1 : a[k] = cut[k] BY <1>2
<1>5. b \in [1 .. M + 1 -> P] /\ \A k \in 1 .. M + 1 : b[k] = cut[N + k] BY <1>2
<1> HIDE DEF a, b, P
<1>6. IsCut(g, word, found, s, 1, a)
  <2>1. ASSUME NEW k \in 1 .. N PROVE a[k + 1] \in SymbolEnds(g, word, found, a[k], s[k])
    <3>1. k \in 1 .. N + 1 /\ k + 1 \in 1 .. N + 1 /\ k \in 1 .. N + M BY <1>2
    <3> QED BY <1>3, <1>4, <3>1
  <2> QED BY <1>4, <2>1 DEF IsCut, P
<1>7. IsCut(g, word, found, r, 1, b)
  <2>1. ASSUME NEW k \in 1 .. M PROVE b[k + 1] \in SymbolEnds(g, word, found, b[k], r[k])
    <3>1. k \in 1 .. M + 1 /\ k + 1 \in 1 .. M + 1 /\ N + k \in 1 .. N + M /\ N + (k + 1) = (N + k) + 1 BY <1>2
    <3>2. cut[(N + k) + 1] \in SymbolEnds(g, word, found, cut[N + k], t[N + k]) BY <1>3, <3>1
    <3>3. b[k + 1] = cut[(N + k) + 1] /\ b[k] = cut[N + k] BY <1>5, <3>1
    <3> QED BY <3>2, <3>3
  <2> QED BY <1>5, <2>1 DEF IsCut, P
<1>8. /\ a[1] = h /\ b[M + 1] = j /\ b[1] = a[N + 1] /\ a[N + 1] \in P
  <2>1. 1 \in 1 .. N + 1 /\ M + 1 \in 1 .. M + 1 /\ 1 \in 1 .. M + 1 /\ N + 1 \in 1 .. N + 1 BY <1>2
  <2>2. N + (M + 1) = Len(t) + 1 BY <1>2
  <2> QED BY <1>1, <1>4, <1>5, <2>1, <2>2
<1> QED BY <1>6, <1>7, <1>8 DEF Covered, P


-----------------------------------------------------------------------------
(***************************************************************************)
(* FIRST sets closed under the productions hold what a span begins with.   *)
(***************************************************************************)
FirstIsClosed(g, fst) ==
  /\ HasFirst(g, fst) /\ {Epsilon, EndMarker, AugmentedStart} \cap (OwnSymbols(g) \cup g.nonterminals) = {}
  /\ \A prod \in Elements(g.producers) :
       prod.left \in g.nonterminals /\ FirstOfSequence(fst, prod.right, 1, Epsilon) \subseteq fst[prod.left]

\* The symbol X can begin with the word's symbol at i, if it ends behind it, and vanish if not.
BeginsSo(g, fst, word, X, i, j) ==
  /\ i <= j
  /\ i = j => Nullable(fst, X)
  /\ i < j => word[i] \in FirstOf(fst, X) \ (g.nonterminals \cup {Epsilon})
FirstSpans(g, fst, word) ==
  {x \in LeftSpans(g, word) : x[1] \in g.nonterminals /\ BeginsSo(g, fst, word, x[1], x[2], x[3])}

\* What a sequence of symbols begins with, when each of them begins so.
SequenceBegins(g, fst, word, right, from, i, j) ==
  /\ i <= j
  /\ i = j => \A k \in from .. Len(right) : Nullable(fst, right[k])
  /\ i < j => /\ word[i] \notin g.nonterminals \cup {Epsilon}
              /\ \E k \in from .. Len(right) : /\ word[i] \in FirstOf(fst, right[k])
                                               /\ \A l \in from .. k - 1 : Nullable(fst, right[l])

LEMMA SymbolBegins ==
  ASSUME NEW g, NEW fst, FirstIsClosed(g, fst), NEW word, Len(word) \in Nat,
         NEW found \in SUBSET FirstSpans(g, fst, word),
         NEW X \in OwnSymbols(g), NEW i \in Places(word), NEW j \in SymbolEnds(g, word, found, i, X)
  PROVE  j \in Places(word) /\ BeginsSo(g, fst, word, X, i, j)
<1>1. j \in Places(word) BY SymbolEndsWithin
<1>2. CASE X \in g.nonterminals
  <2>1. <<X, i, j>> \in FirstSpans(g, fst, word) BY <1>2 DEF SymbolEnds
  <2> QED BY <1>1, <2>1 DEF FirstSpans
<1>3. CASE X \notin g.nonterminals
  <2>1. j = i + 1 /\ word[i] = X BY <1>3 DEF SymbolEnds
  <2>2. X # Epsilon /\ X # AugmentedStart BY DEF FirstIsClosed
  <2>3. X \notin DOMAIN fst BY <1>3, <2>2 DEF FirstIsClosed, HasFirst, Names
  <2>4. FirstOf(fst, X) = {X} BY <2>3 DEF FirstOf
  <2>5. i < j /\ i <= j /\ i # j BY <2>1 DEF Places
  <2> QED BY <1>1, <1>3, <2>1, <2>2, <2>4, <2>5 DEF BeginsSo
<1> QED BY <1>2, <1>3

LEMMA CoverBegins ==
  ASSUME NEW g, NEW fst, FirstIsClosed(g, fst), NEW word, Len(word) \in Nat,
         NEW found \in SUBSET FirstSpans(g, fst, word), NEW right \in Seq(OwnSymbols(g)),
         NEW from \in 1 .. Len(right) + 1, NEW i, NEW j, Covered(g, word, found, right, from, i, j)
  PROVE  SequenceBegins(g, fst, word, right, from, i, j)
<1> DEFINE N == Len(right)
           P == Places(word)
           Good(d) == \A a, b : Covered(g, word, found, right, (N + 1) - d, a, b)
                                  => SequenceBegins(g, fst, word, right, (N + 1) - d, a, b)
           Bad == {d \in 0 .. N : ~Good(d)}
<1>0. N \in Nat /\ \A k \in 1 .. N : right[k] \in OwnSymbols(g) OBVIOUS
<1>1. Bad = {}
  <2> SUFFICES ASSUME Bad # {} PROVE FALSE OBVIOUS
  <2>1. Bad \in SUBSET Nat BY <1>0
  <2>2. PICK m \in Bad : \A k \in Bad : m <= k
    <3> HIDE DEF Bad
    <3> QED BY <2>1, LeastOf
  <2>3. m \in 0 .. N /\ ~Good(m) BY <2>2
  <2>4. CASE m = 0
    <3>1. (N + 1) - m = N + 1 /\ (N + 1) .. N = {} BY <1>0, <2>4
    <3>2. ASSUME NEW a, NEW b, Covered(g, word, found, right, N + 1, a, b)
          PROVE  SequenceBegins(g, fst, word, right, N + 1, a, b)
      <4>1. a \in P /\ a = b BY <1>0, <3>2, CoveredEnd
      <4>2. a <= b /\ ~(a < b) BY <4>1 DEF Places
      <4> QED BY <3>1, <4>2 DEF SequenceBegins
    <3> QED BY <2>3, <3>1, <3>2
  <2>5. CASE m # 0
    <3> DEFINE at == (N + 1) - m
    <3>1. m - 1 \in 0 .. N /\ ~(m <= m - 1) /\ at \in 1 .. N /\ (N + 1) - (m - 1) = at + 1 BY <1>0, <2>3, <2>5
    <3>2. Good(m - 1)
      <4>1. m - 1 \notin Bad
        <5> HIDE DEF Bad
        <5> QED BY <2>2, <3>1
      <4> HIDE DEF Good
      <4> QED BY <3>1, <4>1
    <3>3. \A a, b : Covered(g, word, found, right, at + 1, a, b)
                      => SequenceBegins(g, fst, word, right, at + 1, a, b)
      BY <3>1, <3>2
    <3> HIDE DEF at
    <3>4. ASSUME NEW a, NEW b, Covered(g, word, found, right, at, a, b)
          PROVE  SequenceBegins(g, fst, word, right, at, a, b)
      <4>1. PICK c \in SymbolEnds(g, word, found, a, right[at]) : a \in P /\ Covered(g, word, found, right, at + 1, c, b)
        BY <1>0, <3>1, <3>4, CoveredStep
      <4>2. c \in P /\ BeginsSo(g, fst, word, right[at], a, c) BY <1>0, <3>1, <4>1, SymbolBegins
      <4>3. SequenceBegins(g, fst, word, right, at + 1, c, b) BY <3>3, <4>1
      <4>4. b \in P
        <5>1. at + 1 \in 1 .. N + 1 BY <1>0, <3>1
        <5> QED BY <1>0, <4>1, <5>1, CoveredWithin
      <4>5. a \in Nat /\ b \in Nat /\ c \in Nat /\ at \in Nat /\ a <= c /\ c <= b
        BY <1>0, <3>1, <4>1, <4>2, <4>3, <4>4 DEF Places, BeginsSo, SequenceBegins
      <4>6. at \in at .. N /\ at .. N = {at} \cup (at + 1 .. N) /\ at .. at - 1 = {} BY <1>0, <3>1
      <4>7. CASE a < c
        <5>1. word[a] \in FirstOf(fst, right[at]) \ (g.nonterminals \cup {Epsilon}) BY <4>2, <4>7 DEF BeginsSo
        <5>2. a < b /\ a # b /\ a <= b BY <4>5, <4>7
        <5> QED BY <4>6, <5>1, <5>2 DEF SequenceBegins
      <4>8. CASE a = c /\ c = b
        <5>1. Nullable(fst, right[at]) BY <4>2, <4>8 DEF BeginsSo
        <5>2. \A k \in at + 1 .. N : Nullable(fst, right[k]) BY <4>3, <4>8 DEF SequenceBegins
        <5>3. \A k \in at .. N : Nullable(fst, right[k]) BY <4>6, <5>1, <5>2
        <5>4. a <= b /\ ~(a < b) BY <4>5, <4>8
        <5> QED BY <5>3, <5>4 DEF SequenceBegins
      <4>9. CASE a = c /\ c < b
        <5>1. Nullable(fst, right[at]) BY <4>2, <4>9 DEF BeginsSo
        <5>2. word[a] \notin g.nonterminals \cup {Epsilon} BY <4>3, <4>9 DEF SequenceBegins
        <5>3. PICK k \in at + 1 .. N : /\ word[a] \in FirstOf(fst, right[k])
                                       /\ \A l \in at + 1 .. k - 1 : Nullable(fst, right[l])
          BY <4>3, <4>9 DEF SequenceBegins
        <5>4. k \in at .. N /\ at .. k - 1 = {at} \cup (at + 1 .. k - 1) BY <1>0, <3>1, <4>5
        <5>5. \A l \in at .. k - 1 : Nullable(fst, right[l]) BY <5>1, <5>3, <5>4
        <5>6. a <= b /\ a # b BY <4>5, <4>9
        <5> QED BY <5>2, <5>3, <5>4, <5>5, <5>6 DEF SequenceBegins
      <4> QED BY <4>5, <4>7, <4>8, <4>9
    <3>5. Good(m) BY <3>4 DEF at
    <3> QED BY <2>3, <3>5
  <2> QED BY <2>4, <2>5
<1>2. (N + 1) - from \in 0 .. N /\ (N + 1) - ((N + 1) - from) = from BY <1>0
<1>3. Good((N + 1) - from)
  <2> HIDE DEF Good
  <2> QED BY <1>1, <1>2
<1>4. Covered(g, word, found, right, from, i, j) => SequenceBegins(g, fst, word, right, from, i, j)
  BY <1>2, <1>3
<1> QED BY <1>4

LEMMA SequenceFirst ==
  ASSUME NEW g, NEW fst, NEW word, NEW right, NEW from, NEW i, NEW j,
         SequenceBegins(g, fst, word, right, from, i, j), NEW ahead
  PROVE  /\ i = j => ahead \in FirstOfSequence(fst, right, from, ahead)
         /\ i < j => word[i] \in FirstOfSequence(fst, right, from, ahead)
BY DEF SequenceBegins, FirstOfSequence

\* Every span begins as the FIRST sets say.
LEMMA SpansBegin ==
  ASSUME NEW g, NEW fst, FirstIsClosed(g, fst), NEW word, Len(word) \in Nat
  PROVE  Spans(g, word) \in SUBSET FirstSpans(g, fst, word)
<1> DEFINE Z == FirstSpans(g, fst, word)
<1>1. HasProducers(g) BY DEF FirstIsClosed, HasFirst
<1>2. ASSUME NEW prod \in Elements(g.producers), NEW i \in Places(word), NEW j \in Places(word),
             Covered(g, word, Z, prod.right, 1, i, j)
      PROVE  <<prod.left, i, j>> \in Z
  <2>1. prod.right \in Seq(OwnSymbols(g)) BY <1>1, ProductionShape DEF AllProductions
  <2>2. SequenceBegins(g, fst, word, prod.right, 1, i, j)
    <3>1. Z \in SUBSET FirstSpans(g, fst, word) /\ 1 \in 1 .. Len(prod.right) + 1 BY <2>1
    <3> HIDE DEF Z
    <3> QED BY <1>2, <2>1, <3>1, CoverBegins
  <2>3. prod.left \in g.nonterminals /\ FirstOfSequence(fst, prod.right, 1, Epsilon) \subseteq fst[prod.left]
    BY DEF FirstIsClosed
  <2>4. FirstOf(fst, prod.left) = fst[prod.left] BY <2>3 DEF FirstOf, FirstIsClosed, HasFirst, Names
  <2>5. i = j => Nullable(fst, prod.left) BY <2>2, <2>3, <2>4, SequenceFirst DEF Nullable
  <2>6. i < j => word[i] \in FirstOf(fst, prod.left) BY <2>2, <2>3, <2>4, SequenceFirst
  <2>7. BeginsSo(g, fst, word, prod.left, i, j) BY <2>2, <2>5, <2>6 DEF BeginsSo, SequenceBegins
  <2> QED BY <2>3, <2>7 DEF FirstSpans, LeftSpans
<1>3. IsSpanning(g, word, Z) BY <1>2 DEF IsSpanning
<1> HIDE DEF Z
<1> QED BY <1>1, <1>3, SpansIsLeast DEF Z


-----------------------------------------------------------------------------
(***************************************************************************)
(* What may still come: behind the first k of the symbols syms, the item   *)
(* may be what derives the word up to the place e, so that what follows e  *)
(* is left to those who wait for the item.  The least set of such <<k,     *)
(* item, e>> that begins with the start item and is closed under moving    *)
(* over a symbol and predicting a production.                              *)
(***************************************************************************)
Places3(g, word, syms) == (0 .. Len(syms)) \X CoreItems(g) \X Places(word)
RestCovered(g, word, item, from, i, e) == Covered(g, word, Spans(g, word), item.right, from, i, e)

IsAlive(g, word, syms, Z) ==
  /\ <<0, StartItem(g), Len(word) + 1>> \in Z
  /\ \A k \in 0 .. Len(syms) - 1 : \A item \in CoreItems(g) : \A e \in Places(word) :
       <<k, item, e>> \in Z /\ DotBefore(item, syms[k + 1]) => <<k + 1, Advance(item), e>> \in Z
  /\ \A k \in 0 .. Len(syms) : \A item \in CoreItems(g) : \A e, m \in Places(word) :
       \A prod \in Elements(g.producers) :
         <<k, item, e>> \in Z /\ DotBefore(item, prod.left) /\ RestCovered(g, word, item, item.dot + 2, m, e)
           => <<k, InitialItem(prod), m>> \in Z
Alive(g, word, syms) ==
  {x \in Places3(g, word, syms) : \A Z \in SUBSET Places3(g, word, syms) : IsAlive(g, word, syms, Z) => x \in Z}

LEMMA PlacesAlive ==
  ASSUME NEW g, HasProducers(g), NEW word, Len(word) \in Nat, NEW syms, Len(syms) \in Nat
  PROVE  IsAlive(g, word, syms, Places3(g, word, syms))
<1>1. \A item \in CoreItems(g) : \A X : DotBefore(item, X) => Advance(item) \in CoreItems(g)
  BY AdvancedItem DEF DotBefore
<1>2. ASSUME NEW prod \in Elements(g.producers) PROVE InitialItem(prod) \in CoreItems(g)
  <2>1. prod \in AllProductions(g) BY DEF AllProductions
  <2>2. 0 \in 0 .. Len(prod.right) BY DEF HasProducers
  <2>3. InitialItem(prod) \in ItemsFrom(prod) BY <2>2 DEF InitialItem, ItemsFrom
  <2> QED BY <2>1, <2>3 DEF CoreItems
<1>3. <<0, StartItem(g), Len(word) + 1>> \in Places3(g, word, syms) BY StartIsAnItem DEF Places3, Places
<1>4. \A k \in 0 .. Len(syms) - 1 : k + 1 \in 0 .. Len(syms) OBVIOUS
<1> QED BY <1>1, <1>2, <1>3, <1>4 DEF IsAlive, Places3

LEMMA AliveIsLeast ==
  ASSUME NEW g, HasProducers(g), NEW word, Len(word) \in Nat, NEW syms, Len(syms) \in Nat
  PROVE  /\ IsAlive(g, word, syms, Alive(g, word, syms)) /\ Alive(g, word, syms) \subseteq Places3(g, word, syms)
         /\ \A Z : IsAlive(g, word, syms, Z) => Alive(g, word, syms) \subseteq Z
<1> DEFINE U == Places3(g, word, syms)
           A == Alive(g, word, syms)
<1>1. IsAlive(g, word, syms, U) BY PlacesAlive
<1> HIDE DEF U
<1>6. ASSUME NEW Z, IsAlive(g, word, syms, Z) PROVE IsAlive(g, word, syms, Z \cap U)
  BY <1>1, <1>6 DEF IsAlive
<1>7. A \subseteq U BY DEF Alive, U
<1>8. ASSUME NEW Z, IsAlive(g, word, syms, Z) PROVE A \subseteq Z
  <2>1. Z \cap U \in SUBSET U /\ IsAlive(g, word, syms, Z \cap U) BY <1>6, <1>8
  <2>2. \A x \in A : x \in Z \cap U BY <2>1 DEF Alive, U
  <2> QED BY <2>2
<1>9. IsAlive(g, word, syms, A)
  <2>1. <<0, StartItem(g), Len(word) + 1>> \in A BY <1>1 DEF Alive, IsAlive, U
  <2>2. ASSUME NEW k \in 0 .. Len(syms) - 1, NEW item \in CoreItems(g), NEW e \in Places(word),
               <<k, item, e>> \in A, DotBefore(item, syms[k + 1])
        PROVE  <<k + 1, Advance(item), e>> \in A
    <3>1. ASSUME NEW Z \in SUBSET U, IsAlive(g, word, syms, Z) PROVE <<k + 1, Advance(item), e>> \in Z
      <4>1. <<k, item, e>> \in Z BY <1>8, <2>2, <3>1
      <4> QED BY <2>2, <3>1, <4>1 DEF IsAlive
    <3>2. <<k + 1, Advance(item), e>> \in U BY <1>1, <1>7, <2>2 DEF IsAlive
    <3> QED BY <3>1, <3>2 DEF Alive, U
  <2>3. ASSUME NEW k \in 0 .. Len(syms), NEW item \in CoreItems(g), NEW e \in Places(word), NEW m \in Places(word),
               NEW prod \in Elements(g.producers), <<k, item, e>> \in A, DotBefore(item, prod.left),
               RestCovered(g, word, item, item.dot + 2, m, e)
        PROVE  <<k, InitialItem(prod), m>> \in A
    <3>1. ASSUME NEW Z \in SUBSET U, IsAlive(g, word, syms, Z) PROVE <<k, InitialItem(prod), m>> \in Z
      <4>1. <<k, item, e>> \in Z BY <1>8, <2>3, <3>1
      <4> QED BY <2>3, <3>1, <4>1 DEF IsAlive
    <3>2. <<k, InitialItem(prod), m>> \in U BY <1>1, <1>7, <2>3 DEF IsAlive
    <3> QED BY <3>1, <3>2 DEF Alive, U
  <2> HIDE DEF A
  <2> QED BY <2>1, <2>2, <2>3 DEF IsAlive
<1> QED BY <1>7, <1>8, <1>9 DEF U

\* It depends only on the symbols so far.
LEMMA AliveBelow ==
  ASSUME NEW g, HasProducers(g), NEW word, Len(word) \in Nat, NEW s, Len(s) \in Nat, NEW t, Len(t) \in Nat,
         NEW n \in Nat, n <= Len(t), \A k \in 1 .. n : k <= Len(s) => t[k] = s[k],
         NEW x \in Alive(g, word, s), x[1] <= n
  PROVE  x \in Alive(g, word, t)
<1> DEFINE A == Alive(g, word, t)
           Z == {y \in Places3(g, word, s) : y[1] <= n => y \in A}
<1>1. IsAlive(g, word, t, A) /\ IsAlive(g, word, s, Places3(g, word, s))
  BY AliveIsLeast, PlacesAlive
<1> HIDE DEF A
<1>2. <<0, StartItem(g), Len(word) + 1>> \in Z BY <1>1 DEF IsAlive
<1>3. ASSUME NEW k \in 0 .. Len(s) - 1, NEW item \in CoreItems(g), NEW e \in Places(word),
             <<k, item, e>> \in Z, DotBefore(item, s[k + 1])
      PROVE  <<k + 1, Advance(item), e>> \in Z
  <2>1. <<k + 1, Advance(item), e>> \in Places3(g, word, s) BY <1>1, <1>3 DEF IsAlive
  <2>2. ASSUME k + 1 <= n PROVE <<k + 1, Advance(item), e>> \in A
    <3>1. k <= n /\ k \in 0 .. Len(t) - 1 /\ k + 1 \in 1 .. n /\ k + 1 <= Len(s) BY <2>2
    <3>2. <<k, item, e>> \in A BY <1>3, <3>1
    <3>3. t[k + 1] = s[k + 1] BY <3>1
    <3> QED BY <1>1, <1>3, <3>1, <3>2, <3>3 DEF IsAlive
  <2> QED BY <2>1, <2>2
<1>4. ASSUME NEW k \in 0 .. Len(s), NEW item \in CoreItems(g), NEW e \in Places(word), NEW m \in Places(word),
             NEW prod \in Elements(g.producers), <<k, item, e>> \in Z, DotBefore(item, prod.left),
             RestCovered(g, word, item, item.dot + 2, m, e)
      PROVE  <<k, InitialItem(prod), m>> \in Z
  <2>1. <<k, InitialItem(prod), m>> \in Places3(g, word, s) BY <1>1, <1>4 DEF IsAlive
  <2>2. ASSUME k <= n PROVE <<k, InitialItem(prod), m>> \in A
    <3>1. k \in 0 .. Len(t) BY <2>2
    <3>2. <<k, item, e>> \in A BY <1>4, <2>2
    <3> QED BY <1>1, <1>4, <3>1, <3>2 DEF IsAlive
  <2> QED BY <2>1, <2>2
<1> HIDE DEF Z
<1>5. IsAlive(g, word, s, Z) BY <1>2, <1>3, <1>4 DEF IsAlive
<1>6. x \in Z BY <1>5, AliveIsLeast
<1> QED BY <1>6 DEF Z, A


\* Something waits for A, to go on behind it at i.
Awaited(g, word, syms, k, A, i) ==
  \E item \in CoreItems(g) : \E e \in Places(word) :
    <<k, item, e>> \in Alive(g, word, syms) /\ DotBefore(item, A) /\ RestCovered(g, word, item, item.dot + 2, i, e)
\* An item behind the first k symbols derives the word from i on.
OpenAt(g, word, syms, k, item, i, e) ==
  <<k, item, e>> \in Alive(g, word, syms) /\ RestCovered(g, word, item, item.dot + 1, i, e)
Open(g, word, syms, k, i) == \E item \in CoreItems(g) : \E e \in Places(word) : OpenAt(g, word, syms, k, item, i, e)
\* The same of an item that is complete or before a terminal: what the tables have an entry for.
Ready(g, word, syms, k, i) ==
  \E item \in CoreItems(g) : \E e \in Places(word) :
    OpenAt(g, word, syms, k, item, i, e) /\ (IsComplete(item) \/ AfterDot(item) \notin g.nonterminals)

\* Of a sentence, the start item is open before anything is read.
LEMMA OpenAtFirst ==
  ASSUME NEW g, HasRules(g), g.start \in g.nonterminals, NEW word, Len(word) \in Nat,
         NEW syms, Len(syms) \in Nat, InLanguage(g, word)
  PROVE  Open(g, word, syms, 0, 1)
<1> DEFINE item == StartItem(g)
           E == Len(word) + 1
           Sp == Spans(g, word)
<1>1. item.right = <<g.start>> /\ item.dot = 0 /\ Len(item.right) = 1 /\ item.right[1] = g.start
  BY DEF StartItem, InitialItem, AugmentedProduction
<1>2. 1 \in Places(word) /\ E \in Places(word) /\ E \in 1 .. Len(word) + 1 BY DEF Places
<1>3. E \in SymbolEnds(g, word, Sp, 1, g.start) BY <1>2 DEF InLanguage, SymbolEnds
<1> HIDE DEF item, E
<1>4. Covered(g, word, Sp, item.right, 1 + 1, E, E)
  <2>1. Len(item.right) \in Nat BY <1>1
  <2>2. Covered(g, word, Sp, item.right, Len(item.right) + 1, E, E) BY <1>2, <2>1, CoveredEnd
  <2> QED BY <1>1, <2>2
<1>5. Covered(g, word, Sp, item.right, 1, 1, E)
  <2>1. 1 \in 1 .. Len(item.right) /\ Len(item.right) \in Nat BY <1>1
  <2> QED BY <1>1, <1>2, <1>3, <1>4, <2>1, CoveredStep
<1>6. <<0, item, E>> \in Alive(g, word, syms)
  <2>1. IsAlive(g, word, syms, Alive(g, word, syms)) BY AliveIsLeast DEF HasRules
  <2> QED BY <2>1 DEF IsAlive, item, E
<1>7. item \in CoreItems(g) BY StartIsAnItem DEF HasRules, item
<1>8. item.dot + 1 = 1 BY <1>1
<1>9. RestCovered(g, word, item, item.dot + 1, 1, E) BY <1>5, <1>8 DEF RestCovered
<1> QED BY <1>2, <1>6, <1>7, <1>9 DEF Open, OpenAt

\* An item is awaited where it began.
LEMMA ItemIsAwaited ==
  ASSUME NEW g, HasRules(g), NEW word, Len(word) \in Nat, NEW syms, Len(syms) \in Nat,
         NEW x \in Alive(g, word, syms)
  PROVE  /\ x[2].dot \in Nat /\ x[2].dot <= x[1]
         /\ x[2].left = AugmentedStart \/ Awaited(g, word, syms, x[1] - x[2].dot, x[2].left, x[3])
<1> DEFINE A == Alive(g, word, syms)
           Begun(k, item, e) ==
             item.dot <= k /\ (item.left = AugmentedStart \/ Awaited(g, word, syms, k - item.dot, item.left, e))
           Z == {y \in A : Begun(y[1], y[2], y[3])}
<1>1. IsAlive(g, word, syms, A) /\ A \subseteq Places3(g, word, syms) BY AliveIsLeast DEF HasRules
<1>2. \A item \in CoreItems(g) : item.dot \in Nat
  <2> SUFFICES ASSUME NEW item \in CoreItems(g) PROVE item.dot \in Nat OBVIOUS
  <2>1. item.dot \in 0 .. Len(item.right) BY CoreItemsShape DEF HasRules
  <2> QED BY <2>1
<1> HIDE DEF A
<1>3. <<0, StartItem(g), Len(word) + 1>> \in Z
  <2>1. StartItem(g).dot = 0 /\ StartItem(g).left = AugmentedStart
    BY DEF StartItem, InitialItem, AugmentedProduction
  <2> QED BY <1>1, <2>1 DEF IsAlive
<1>4. ASSUME NEW k \in 0 .. Len(syms) - 1, NEW item \in CoreItems(g), NEW e \in Places(word),
             <<k, item, e>> \in Z, DotBefore(item, syms[k + 1])
      PROVE  <<k + 1, Advance(item), e>> \in Z
  <2>1. <<k + 1, Advance(item), e>> \in A BY <1>1, <1>4 DEF IsAlive
  <2>2. Begun(k, item, e) BY <1>4
  <2>3. Advance(item).left = item.left /\ Advance(item).dot = item.dot + 1
    <3>1. PICK prod \in AllProductions(g) : \E d \in 0 .. Len(prod.right) :
            item = [left |-> prod.left, right |-> prod.right, dot |-> d]
      BY DEF CoreItems, ItemsFrom
    <3> QED BY <3>1 DEF Advance
  <2>4. (k + 1) - (item.dot + 1) = k - item.dot /\ item.dot + 1 <= k + 1 BY <1>2, <2>2
  <2>5. Begun(k + 1, Advance(item), e) BY <2>2, <2>3, <2>4
  <2> HIDE DEF Begun
  <2> QED BY <2>1, <2>5
<1>5. ASSUME NEW k \in 0 .. Len(syms), NEW item \in CoreItems(g), NEW e \in Places(word), NEW m \in Places(word),
             NEW prod \in Elements(g.producers), <<k, item, e>> \in Z, DotBefore(item, prod.left),
             RestCovered(g, word, item, item.dot + 2, m, e)
      PROVE  <<k, InitialItem(prod), m>> \in Z
  <2>1. <<k, InitialItem(prod), m>> \in A BY <1>1, <1>5 DEF IsAlive
  <2>2. Awaited(g, word, syms, k, prod.left, m) BY <1>5 DEF Awaited, A
  <2>3. InitialItem(prod).dot = 0 /\ InitialItem(prod).left = prod.left BY DEF InitialItem
  <2>4. k - 0 = k /\ 0 <= k OBVIOUS
  <2>5. Begun(k, InitialItem(prod), m) BY <2>2, <2>3, <2>4
  <2> HIDE DEF Begun
  <2> QED BY <2>1, <2>5
<1>6. x \in Z
  <2> HIDE DEF Z
  <2>1. IsAlive(g, word, syms, Z) BY <1>3, <1>4, <1>5 DEF IsAlive
  <2> QED BY <2>1, AliveIsLeast DEF HasRules
<1>7. x[2] \in CoreItems(g) BY <1>1 DEF Places3, A
<1> QED BY <1>2, <1>6, <1>7

\* Where something is open, something is ready: the span of the nonterminal behind the dot was
\* made by some production, which is open in its place.
LEMMA OpenIsReady ==
  ASSUME NEW g, HasRules(g), NEW word, Len(word) \in Nat, NEW syms, Len(syms) \in Nat, NEW k \in 0 .. Len(syms),
         NEW i, Open(g, word, syms, k, i)
  PROVE  Ready(g, word, syms, k, i)
<1> DEFINE Sp == Spans(g, word)
           A == Alive(g, word, syms)
           Z == {x \in Sp : x[2] = i /\ Awaited(g, word, syms, k, x[1], x[3]) => Ready(g, word, syms, k, i)}
<1>0. HasProducers(g) BY DEF HasRules
<1>1. IsAlive(g, word, syms, A) /\ A \subseteq Places3(g, word, syms) BY <1>0, AliveIsLeast
<1>2. Sp \subseteq LeftSpans(g, word) /\ IsSpanning(g, word, Sp) BY <1>0, SpansIsLeast
<1> HIDE DEF A, Sp
<1>3. ASSUME NEW item \in CoreItems(g), NEW e \in Places(word), OpenAt(g, word, syms, k, item, i, e),
             ~IsComplete(item), AfterDot(item) \in g.nonterminals, NEW found,
             Covered(g, word, found, item.right, item.dot + 1, i, e), found \subseteq Sp
      PROVE  \E m \in Places(word) : /\ <<AfterDot(item), i, m>> \in found
                                     /\ Awaited(g, word, syms, k, AfterDot(item), m)
  <2>1. Len(item.right) \in Nat /\ item.dot \in 0 .. Len(item.right) BY <1>0, CoreItemsShape
  <2>2. item.dot + 1 \in 1 .. Len(item.right) BY <1>3, <2>1 DEF IsComplete
  <2>3. PICK m \in SymbolEnds(g, word, found, i, item.right[item.dot + 1]) :
          i \in Places(word) /\ Covered(g, word, found, item.right, (item.dot + 1) + 1, m, e)
    BY <1>3, <2>1, <2>2, CoveredStep
  <2>4. (item.dot + 1) + 1 = item.dot + 2 BY <2>1
  <2>5. m \in Places(word) BY <2>3, SymbolEndsWithin
  <2>6. <<AfterDot(item), i, m>> \in found BY <1>3, <2>3 DEF AfterDot, SymbolEnds
  <2>7. RestCovered(g, word, item, item.dot + 2, m, e)
    <3>1. Covered(g, word, found, item.right, item.dot + 2, m, e) BY <2>3, <2>4
    <3> QED BY <1>3, <3>1, CoveredGrows DEF RestCovered, Sp
  <2>8. DotBefore(item, AfterDot(item)) BY <1>3 DEF DotBefore
  <2> QED BY <1>3, <2>5, <2>6, <2>7, <2>8 DEF Awaited, OpenAt
<1>4. ASSUME NEW prod \in Elements(g.producers), NEW a \in Places(word), NEW b \in Places(word),
             Covered(g, word, Z, prod.right, 1, a, b)
      PROVE  <<prod.left, a, b>> \in Z
  <2>1. Z \subseteq Sp OBVIOUS
  <2>2. Covered(g, word, Sp, prod.right, 1, a, b)
    <3> HIDE DEF Z
    <3> QED BY <1>4, <2>1, CoveredGrows
  <2>3. <<prod.left, a, b>> \in Sp BY <1>2, <2>2 DEF IsSpanning
  <2>4. ASSUME a = i, Awaited(g, word, syms, k, prod.left, b) PROVE Ready(g, word, syms, k, i)
    <3> DEFINE item == InitialItem(prod)
    <3>1. <<k, item, b>> \in A BY <1>1, <2>4 DEF Awaited, IsAlive, A
    <3>2. item \in CoreItems(g) BY <1>1, <3>1 DEF Places3
    <3>3. item.right = prod.right /\ item.dot + 1 = 1 BY DEF InitialItem
    <3> HIDE DEF item
    <3>4. OpenAt(g, word, syms, k, item, i, b) BY <2>2, <2>4, <3>1, <3>3 DEF OpenAt, RestCovered, A, Sp
    <3>5. CASE IsComplete(item) \/ AfterDot(item) \notin g.nonterminals
      BY <3>2, <3>4, <3>5 DEF Ready
    <3>6. CASE ~IsComplete(item) /\ AfterDot(item) \in g.nonterminals
      <4> HIDE DEF Z
      <4>1. Covered(g, word, Z, item.right, item.dot + 1, i, b) BY <1>4, <2>4, <3>3
      <4>2. PICK m \in Places(word) : <<AfterDot(item), i, m>> \in Z /\ Awaited(g, word, syms, k, AfterDot(item), m)
        BY <1>3, <2>1, <3>2, <3>4, <3>6, <4>1
      <4> QED BY <4>2 DEF Z
    <3> QED BY <3>5, <3>6
  <2> QED BY <2>3, <2>4
<1>5. IsSpanning(g, word, Z)
  <2> HIDE DEF Z
  <2> QED BY <1>4 DEF IsSpanning
<1>6. Sp \subseteq Z
  <2> HIDE DEF Z
  <2> QED BY <1>0, <1>5, SpansIsLeast DEF Sp
<1>7. PICK item \in CoreItems(g), e \in Places(word) : OpenAt(g, word, syms, k, item, i, e) BY DEF Open
<1>8. CASE IsComplete(item) \/ AfterDot(item) \notin g.nonterminals
  BY <1>7, <1>8 DEF Ready
<1>9. CASE ~IsComplete(item) /\ AfterDot(item) \in g.nonterminals
  <2>1. Covered(g, word, Sp, item.right, item.dot + 1, i, e) BY <1>7 DEF OpenAt, RestCovered, Sp
  <2>2. PICK m \in Places(word) : <<AfterDot(item), i, m>> \in Sp /\ Awaited(g, word, syms, k, AfterDot(item), m)
    BY <1>3, <1>7, <1>9, <2>1
  <2>3. <<AfterDot(item), i, m>> \in Z
    <3> HIDE DEF Z
    <3> QED BY <1>6, <2>2
  <2> QED BY <2>2, <2>3
<1> QED BY <1>8, <1>9


\* Behind one symbol more, what waited for it is open.
LEMMA MovedOver ==
  ASSUME NEW g, HasProducers(g), NEW word, Len(word) \in Nat, NEW s, Len(s) \in Nat, NEW t, Len(t) \in Nat,
         NEW k \in 0 .. Len(s), Len(t) = k + 1, \A l \in 1 .. k : t[l] = s[l],
         NEW item \in CoreItems(g), NEW e \in Places(word), <<k, item, e>> \in Alive(g, word, s),
         DotBefore(item, t[k + 1]), NEW m, RestCovered(g, word, item, item.dot + 2, m, e)
  PROVE  Open(g, word, t, k + 1, m)
<1> DEFINE x == <<k, item, e>>
<1>1. x \in Alive(g, word, t)
  <2>1. k \in Nat /\ k <= Len(t) /\ x[1] <= k /\ x \in Alive(g, word, s) OBVIOUS
  <2>2. \A l \in 1 .. k : l <= Len(s) => t[l] = s[l] OBVIOUS
  <2> HIDE DEF x
  <2> QED BY <2>1, <2>2, AliveBelow
<1>2. <<k + 1, Advance(item), e>> \in Alive(g, word, t)
  <2>1. IsAlive(g, word, t, Alive(g, word, t)) BY AliveIsLeast
  <2>2. k \in 0 .. Len(t) - 1 OBVIOUS
  <2> QED BY <1>1, <2>1, <2>2 DEF IsAlive
<1>3. Advance(item) \in CoreItems(g) BY AdvancedItem
<1>4. Advance(item).right = item.right /\ Advance(item).dot + 1 = item.dot + 2
  <2>1. PICK prod \in AllProductions(g) : \E d \in 0 .. Len(prod.right) :
          item = [left |-> prod.left, right |-> prod.right, dot |-> d]
    BY DEF CoreItems, ItemsFrom
  <2>2. item.dot \in Int BY <2>1
  <2>3. Advance(item).right = item.right /\ Advance(item).dot = item.dot + 1 BY <2>1 DEF Advance
  <2> QED BY <2>2, <2>3
<1>5. RestCovered(g, word, Advance(item), Advance(item).dot + 1, m, e) BY <1>4 DEF RestCovered
<1> QED BY <1>2, <1>3, <1>5 DEF Open, OpenAt

\* A complete open item ends here; one before a terminal stands before the word's symbol.
LEMMA OpenHere ==
  ASSUME NEW g, HasProducers(g), NEW word, Len(word) \in Nat, NEW syms, NEW k, NEW item \in CoreItems(g),
         NEW i, NEW e \in Places(word), OpenAt(g, word, syms, k, item, i, e)
  PROVE  /\ i \in Places(word)
         /\ IsComplete(item) => i = e /\ item.dot = Len(item.right)
         /\ ~IsComplete(item) /\ AfterDot(item) \notin g.nonterminals =>
              /\ i <= Len(word) /\ word[i] = AfterDot(item) /\ i + 1 \in Places(word)
              /\ RestCovered(g, word, item, item.dot + 2, i + 1, e)
<1> DEFINE Sp == Spans(g, word)
           N == Len(item.right)
<1>1. N \in Nat /\ item.dot \in 0 .. N BY CoreItemsShape
<1>2. Covered(g, word, Sp, item.right, item.dot + 1, i, e) BY DEF OpenAt, RestCovered
<1> HIDE DEF Sp
<1>3. i \in Places(word)
  <2>1. item.dot + 1 \in 1 .. N + 1 BY <1>1
  <2> QED BY <1>1, <1>2, <2>1, CoveredWithin
<1>4. ASSUME IsComplete(item) PROVE i = e /\ item.dot = N
  <2>1. item.dot = N BY <1>1, <1>4 DEF IsComplete
  <2> QED BY <1>1, <1>2, <2>1, CoveredEnd
<1>5. ASSUME ~IsComplete(item), AfterDot(item) \notin g.nonterminals
      PROVE  /\ i <= Len(word) /\ word[i] = AfterDot(item) /\ i + 1 \in Places(word)
             /\ RestCovered(g, word, item, item.dot + 2, i + 1, e)
  <2>1. item.dot + 1 \in 1 .. N /\ (item.dot + 1) + 1 = item.dot + 2 BY <1>1, <1>5 DEF IsComplete
  <2>2. PICK m \in SymbolEnds(g, word, Sp, i, item.right[item.dot + 1]) :
          Covered(g, word, Sp, item.right, (item.dot + 1) + 1, m, e)
    BY <1>1, <1>2, <2>1, CoveredStep
  <2>3. m = i + 1 /\ i <= Len(word) /\ word[i] = AfterDot(item) BY <1>5, <2>2 DEF SymbolEnds, AfterDot
  <2>4. m \in Places(word) BY <1>3, <2>2, SymbolEndsWithin
  <2> QED BY <2>1, <2>2, <2>3, <2>4 DEF RestCovered, Sp
<1> QED BY <1>3, <1>4, <1>5
=============================================================================
