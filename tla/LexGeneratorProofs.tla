------------------------- MODULE LexGeneratorProofs -------------------------
(***************************************************************************)
(* The generator at work, for all programs of specifications: the subset   *)
(* construction and the minimizer, and what the automaton in the end gives *)
(* each text, from the meaning of the rules' expressions on.               *)
(***************************************************************************)
EXTENDS LexGenerator, FiniteSetTheorems, WellFoundedInduction, TLAPS

(***************************************************************************)
(* What the two stages know before each step.                              *)
(***************************************************************************)
Specs  == UNION {{p[k] : k \in DOMAIN p} : p \in Programs}
Tokens == UNION {UNION {{s[i].infix[k] : k \in DOMAIN s[i].infix} : i \in DOMAIN s} : s \in Specs}
Labels == Tokens \cup {"eps"}

\* NfaConstruction: edges, fragments and finished automata lead to nodes that exist.
Node     == [accepted : BOOLEAN, edges : SUBSET (Labels \X Nat)]
Net(ns)  == ns \in Seq(Node) /\ \A n \in DOMAIN ns : \A e \in ns[n].edges : e[2] \in 1..Len(ns)
Fragment == [start : 1..Len(nodes), accept : 1..Len(nodes)]
NfaInv ==
  /\ rules \in Specs /\ r \in 1..Len(rules) /\ pos \in Nat \ {0}
  /\ pc \in {"postfix", "build", "done", "threw"}
  /\ operators \in Seq(Tokens) /\ postfix \in Seq(Tokens)
  /\ Net(nodes)
  /\ fragments \in Seq(Fragment) /\ nfaTable \in Seq(Fragment)
  /\ pc \in {"postfix", "build"} => Len(nfaTable) = r - 1
  /\ pc = "done" => merged \in 1..Len(nodes)

\* What is handed over.
IsNfa(a) ==
  /\ \E n \in Nat : DOMAIN a.edges = 1..n
  /\ a.start \in DOMAIN a.edges
  /\ \A n \in DOMAIN a.edges : \A e \in a.edges[n] : e[2] \in DOMAIN a.edges

\* Ends and Eclosure of the automaton at hand, as tables.
Letters == {Alphabet[k] : k \in DOMAIN Alphabet}
Sets    == SUBSET (DOMAIN nfa.edges)
behind  == [x \in Sets \X (Letters \cup {"eps"}) |-> Ends(x[1], x[2])]
closure == [S \in Sets |-> Eclosure(S)]

\* The states in front of the queue's first are finished.
Finished == Len(stateSets) - Len(work)
Moves == UNION {[D -> Nat] : D \in SUBSET Letters}
SetsInv ==
  /\ stateSets \in Seq(Sets) /\ transitions \in Seq(Moves)
  /\ work \in Seq(Nat) /\ at \in Nat \ {0}
  /\ Len(transitions) = Len(stateSets) /\ Len(work) <= Len(stateSets)
  /\ \A k \in DOMAIN work : work[k] = Finished + k
  /\ \A q, t \in States : stateSets[q] = stateSets[t] => q = t
  /\ \A q \in States : stateSets[q] # {} /\ behind[<<stateSets[q], "eps">>] \subseteq stateSets[q]
  /\ \A q \in States : \A c \in DOMAIN transitions[q] :
       transitions[q][c] \in States /\ stateSets[transitions[q][c]] = closure[behind[<<stateSets[q], c>>]]
  /\ \A q \in States : \A k \in DOMAIN chars :
       (q <= Finished \/ (q = Finished + 1 /\ k < at)) /\ behind[<<stateSets[q], chars[k]>>] # {}
         => chars[k] \in DOMAIN transitions[q]

DfaInv ==
  /\ dpc \in {"idle", "start", "subset", "refine", "done"}
  /\ dpc \in {"idle", "start"} => stateSets = <<>> /\ transitions = <<>> /\ at = 1
  /\ dpc # "subset" => work = <<>>
  /\ dpc # "idle" => IsNfa(nfa)
  /\ dpc \in {"subset", "refine", "done"} => SetsInv

GeneratorInv ==
  /\ program \in Programs /\ g \in 1..Len(program)
  /\ NfaInv /\ DfaInv

-----------------------------------------------------------------------------
(***************************************************************************)
(* Bounded iteration.  Its existence and what its values are follow from a *)
(* smallest number of rounds for which they would fail.                    *)
(***************************************************************************)
LEMMA LeastOf ==
  ASSUME NEW T \in SUBSET Nat, T # {}
  PROVE  \E m \in T : \A k \in T : m <= k
<1>1. PICK m \in T : \A k \in T : ~(<<k, m>> \in OpToRel(<, Nat))
  BY WFMin, NatLessThanWellFounded, Zenon
<1>2. \A k \in T : ~(k < m) BY <1>1 DEF OpToRel
<1>3. \A k \in T : m <= k BY <1>2
<1> QED BY <1>3

\* h takes the steps F from x, n of them.
Iterates(h, n, F, x) == h = [k \in 0..n |-> IF k = 0 THEN x ELSE F[<<h[k - 1], k>>]]

LEMMA IterationExists ==
  ASSUME NEW D, NEW x \in D, NEW limit \in Nat, NEW F \in [D \X (1..limit) -> D]
  PROVE  \E h \in [0..limit -> D] : Iterates(h, limit, F, x)
<1> DEFINE T == {n \in 0..limit : ~ \E h \in [0..n -> D] : Iterates(h, n, F, x)}
<1>1. T = {}
  <2> SUFFICES ASSUME T # {} PROVE FALSE OBVIOUS
  <2>1. T \in SUBSET Nat OBVIOUS
  <2>2. PICK m \in T : \A k \in T : m <= k BY <2>1, LeastOf
  <2> SUFFICES \E h \in [0..m -> D] : Iterates(h, m, F, x) BY <2>2
  <2>3. CASE m = 0
    <3> DEFINE h == [k \in 0..0 |-> x]
    <3>1. h \in [0..m -> D] BY <2>3
    <3>2. Iterates(h, m, F, x) BY <2>3 DEF Iterates
    <3> QED BY <3>1, <3>2
  <2>4. CASE m # 0
    <3>1. m \in 1..limit /\ m - 1 \in 0..limit /\ m - 1 \notin T BY <2>2, <2>4
    <3>2. PICK f \in [0..m - 1 -> D] : Iterates(f, m - 1, F, x) BY <3>1
    <3> DEFINE h == [k \in 0..m |-> IF k = m THEN F[<<f[m - 1], m>>] ELSE f[k]]
    <3>3. f[m - 1] \in D BY <3>1, <3>2
    <3>4. <<f[m - 1], m>> \in D \X (1..limit) BY <3>1, <3>3
    <3>5. F[<<f[m - 1], m>>] \in D BY <3>4
    <3>6. h \in [0..m -> D] BY <3>1, <3>2, <3>5
    <3>7. \A k \in 0..m : h[k] = IF k = 0 THEN x ELSE F[<<h[k - 1], k>>]
      <4>1. \A k \in 0..m - 1 : f[k] = IF k = 0 THEN x ELSE F[<<f[k - 1], k>>] BY <3>2 DEF Iterates
      <4>2. \A k \in 0..m : k = m \/ (k \in 0..m - 1 /\ k # m) BY <3>1
      <4>3. \A k \in 0..m : k # 0 => k - 1 \in 0..m /\ k - 1 # m /\ h[k - 1] = f[k - 1] BY <3>1
      <4> QED BY <2>4, <4>1, <4>2, <4>3
    <3> HIDE DEF h
    <3>8. Iterates(h, m, F, x) BY <3>6, <3>7 DEF Iterates
    <3> QED BY <3>6, <3>8
  <2> QED BY <2>3, <2>4
<1> QED BY <1>1

-----------------------------------------------------------------------------
(***************************************************************************)
(* Lists: what Those picks, and the members of longer lists.               *)
(***************************************************************************)
Members(s)  == {s[k] : k \in DOMAIN s}
Distinct(s) == \A j, k \in DOMAIN s : s[j] = s[k] => j = k

LEMMA MembersOfAppend ==
  ASSUME NEW T, NEW s \in Seq(T), NEW x \in T
  PROVE  /\ Append(s, x) \in Seq(T) /\ Members(Append(s, x)) = Members(s) \cup {x}
         /\ Distinct(s) /\ x \notin Members(s) => Distinct(Append(s, x))
<1> DEFINE t == Append(s, x)
<1>1. /\ t \in Seq(T) /\ Len(s) \in Nat
      /\ DOMAIN s = 1..Len(s) /\ DOMAIN t = (1..Len(s)) \cup {Len(s) + 1}
      /\ t[Len(s) + 1] = x /\ \A k \in 1..Len(s) : t[k] = s[k]
  OBVIOUS
<1> HIDE DEF t
<1>2. Members(t) = Members(s) \cup {x} BY <1>1 DEF Members
<1>3. Distinct(s) /\ x \notin Members(s) => Distinct(t) BY <1>1 DEF Members, Distinct
<1> QED BY <1>1, <1>2, <1>3 DEF t

PickStep(h, k, list, S) ==
  IF k = 0 THEN <<>> ELSE IF list[k] \in S THEN Append(h[k - 1], list[k]) ELSE h[k - 1]

LEMMA PicksExist ==
  ASSUME NEW T, NEW list \in Seq(T), NEW S
  PROVE  \E h \in [0..Len(list) -> Seq(T)] : h = [k \in 0..Len(list) |-> PickStep(h, k, list, S)]
<1> DEFINE limit == Len(list)
           F == [y \in Seq(T) \X (1..limit) |-> IF list[y[2]] \in S THEN Append(y[1], list[y[2]]) ELSE y[1]]
<1>1. limit \in Nat /\ \A k \in 1..limit : list[k] \in T OBVIOUS
<1>2. <<>> \in Seq(T) /\ F \in [Seq(T) \X (1..limit) -> Seq(T)] BY <1>1
<1>3. PICK h \in [0..limit -> Seq(T)] : Iterates(h, limit, F, <<>>) BY <1>1, <1>2, IterationExists
<1>4. \A k \in 0..limit : h[k] = IF k = 0 THEN <<>> ELSE F[<<h[k - 1], k>>] BY <1>3 DEF Iterates
<1>5. \A k \in 0..limit : h[k] = PickStep(h, k, list, S)
  <2> TAKE k \in 0..limit
  <2>1. CASE k = 0 BY <1>4, <2>1 DEF PickStep
  <2>2. CASE k # 0
    <3>1. k \in 1..limit /\ k - 1 \in 0..limit BY <1>1, <2>2
    <3>2. <<h[k - 1], k>> \in Seq(T) \X (1..limit) BY <3>1
    <3>3. h[k] = F[<<h[k - 1], k>>] BY <1>4, <2>2
    <3> QED BY <2>2, <3>2, <3>3 DEF PickStep
  <2> QED BY <2>1, <2>2
<1>6. h = [k \in 0..limit |-> PickStep(h, k, list, S)] BY <1>5
<1> QED BY <1>6

LEMMA ThoseFacts ==
  ASSUME NEW T, NEW list \in Seq(T), NEW S
  PROVE  /\ Those(list, S) \in Seq(T)
         /\ Members(Those(list, S)) = Members(list) \cap S
         /\ Members(list) \subseteq S => Those(list, S) = list
         /\ Distinct(list) => Distinct(Those(list, S))
<1> DEFINE limit == Len(list)
           upTo == CHOOSE h : h = [k \in 0..limit |-> PickStep(h, k, list, S)]
           read(k) == {list[j] : j \in 1..k}
           Good(k) == /\ upTo[k] \in Seq(T) /\ Members(upTo[k]) = read(k) \cap S
                      /\ Members(list) \subseteq S => Len(upTo[k]) = k /\ \A j \in 1..k : upTo[k][j] = list[j]
                      /\ Distinct(list) => Distinct(upTo[k])
           Bad == {k \in 0..limit : ~Good(k)}
<1>1. limit \in Nat /\ DOMAIN list = 1..limit /\ \A k \in 1..limit : list[k] \in T OBVIOUS
<1>2. Those(list, S) = upTo[limit] BY DEF Those, PickStep
<1>3. upTo = [k \in 0..limit |-> PickStep(upTo, k, list, S)] BY PicksExist
<1> HIDE DEF upTo, limit
<1>4. Bad = {}
  <2> SUFFICES ASSUME Bad # {} PROVE FALSE OBVIOUS
  <2>1. Bad \in SUBSET Nat BY <1>1
  <2>2. PICK m \in Bad : \A k \in Bad : m <= k BY <2>1, LeastOf
  <2> SUFFICES Good(m) BY <2>2
  <2>3. m \in 0..limit /\ m \in Nat /\ upTo[m] = PickStep(upTo, m, list, S)
    <3> HIDE DEF Good
    <3>1. m \in 0..limit BY <2>2
    <3>2. upTo[m] = PickStep(upTo, m, list, S) BY <1>3, <3>1
    <3> QED BY <1>1, <3>1, <3>2
  <2>4. CASE m = 0
    <3>1. upTo[m] = <<>> BY <2>3, <2>4 DEF PickStep
    <3>2. read(m) = {} /\ Members(<<>>) = {} /\ Distinct(<<>>) /\ Len(<<>>) = 0 BY <2>4 DEF Members, Distinct
    <3> QED BY <2>4, <3>1, <3>2
  <2>5. CASE m # 0
    <3>1. m \in 1..limit /\ m - 1 \in 0..limit BY <1>1, <2>3, <2>5
    <3>2. Good(m - 1)
      <4> SUFFICES m - 1 \notin Bad
        <5> HIDE DEF Good
        <5> QED BY <3>1
      <4> HIDE DEF Bad
      <4> QED BY <2>2, <2>3
    <3> DEFINE s == upTo[m - 1]
               x == list[m]
    <3>3. x \in T /\ upTo[m] = IF x \in S THEN Append(s, x) ELSE s BY <1>1, <2>3, <2>5, <3>1 DEF PickStep
    <3>4. s \in Seq(T) /\ Members(s) = read(m - 1) \cap S BY <3>2
    <3>5. read(m) = read(m - 1) \cup {x}
      <4>1. 1..m = (1..m - 1) \cup {m} BY <3>1
      <4> QED BY <4>1
    <3>6. Distinct(list) => x \notin read(m - 1)
      <4>1. \A j \in 1..m - 1 : j \in 1..limit /\ j # m BY <1>1, <3>1
      <4> QED BY <1>1, <3>1, <4>1 DEF Distinct
    <3>7. /\ Members(list) \subseteq S => Len(s) = m - 1 /\ \A j \in 1..m - 1 : s[j] = list[j]
          /\ Distinct(list) => Distinct(s)
      BY <3>2
    <3> HIDE DEF s, read
    <3>8. CASE x \in S
      <4>1. upTo[m] = Append(s, x) BY <3>3, <3>8
      <4>2. /\ Append(s, x) \in Seq(T) /\ Members(Append(s, x)) = Members(s) \cup {x}
            /\ Distinct(s) /\ x \notin Members(s) => Distinct(Append(s, x))
        BY <3>3, <3>4, MembersOfAppend
      <4>3. Members(Append(s, x)) = read(m) \cap S BY <3>4, <3>5, <3>8, <4>2
      <4>4. Members(list) \subseteq S =>
              Len(Append(s, x)) = m /\ \A j \in 1..m : Append(s, x)[j] = list[j]
        BY <3>1, <3>4, <3>7
      <4>5. Distinct(list) => Distinct(Append(s, x)) BY <3>4, <3>6, <3>7, <4>2
      <4> QED BY <4>1, <4>2, <4>3, <4>4, <4>5
    <3>9. CASE x \notin S
      <4>1. upTo[m] = s BY <3>3, <3>9
      <4>2. Members(s) = read(m) \cap S BY <3>4, <3>5, <3>9
      <4>3. ~(Members(list) \subseteq S) BY <1>1, <3>1, <3>9 DEF Members
      <4> QED BY <3>4, <3>7, <4>1, <4>2, <4>3
    <3> QED BY <3>8, <3>9
  <2> QED BY <2>4, <2>5
<1>5. Good(limit)
  <2>1. limit \in 0..limit BY <1>1
  <2> HIDE DEF Good
  <2> QED BY <1>4, <2>1
<1>6. read(limit) = Members(list) BY <1>1 DEF Members
<1>7. Members(list) \subseteq S => upTo[limit] = list BY <1>1, <1>5
<1> QED BY <1>2, <1>5, <1>6, <1>7

-----------------------------------------------------------------------------
(***************************************************************************)
(* The two iterations of the subset construction: the characters in their  *)
(* order, and the closure under empty moves.                               *)
(***************************************************************************)
LEMMA CharsAreLetters == chars \in Seq(Letters)
<1>1. Alphabet \in Seq(Letters) BY AlphabetAssumption DEF Letters
<1> QED BY <1>1, ThoseFacts DEF chars

LEMMA EndsAreNodes ==
  ASSUME IsNfa(nfa), NEW S \in SUBSET (DOMAIN nfa.edges), NEW c
  PROVE  Ends(S, c) \in SUBSET (DOMAIN nfa.edges)
BY DEF IsNfa, Ends

LEMMA RoundsOf ==
  ASSUME IsNfa(nfa), NEW S \in SUBSET (DOMAIN nfa.edges)
  PROVE  LET limit == Cardinality(DOMAIN nfa.edges)
         IN  /\ limit \in Nat
             /\ \E h \in [0..limit -> SUBSET (DOMAIN nfa.edges)] :
                  /\ h[0] = S /\ Eclosure(S) = h[limit]
                  /\ \A n \in 1..limit : h[n] = h[n - 1] \cup Ends(h[n - 1], "eps")
<1> DEFINE limit == Cardinality(DOMAIN nfa.edges)
           D == SUBSET (DOMAIN nfa.edges)
           F == [y \in D \X (1..limit) |-> y[1] \cup Ends(y[1], "eps")]
           step(h, n) == IF n = 0 THEN S ELSE UNION {T \cup Ends(T, "eps") : T \in {h[n - 1]}}
           after == CHOOSE h : h = [n \in 0..limit |-> step(h, n)]
<1>1. limit \in Nat
  <2>1. PICK n \in Nat : DOMAIN nfa.edges = 1..n BY DEF IsNfa
  <2>2. Cardinality(1..n) = n BY <2>1, FS_Interval
  <2> QED BY <2>1, <2>2
<1>2. Eclosure(S) = after[limit] BY DEF Eclosure
<1>3. \A U \in D : Ends(U, "eps") \in D BY EndsAreNodes
<1>4. F \in [D \X (1..limit) -> D] BY <1>3
<1>5. \A h, n : step(h, n) = IF n = 0 THEN S ELSE h[n - 1] \cup Ends(h[n - 1], "eps") OBVIOUS
<1> HIDE DEF limit, step, D
<1>6. \A h : Iterates(h, limit, F, S) /\ h \in [0..limit -> D] => h = [n \in 0..limit |-> step(h, n)]
  <2> SUFFICES ASSUME NEW h \in [0..limit -> D], Iterates(h, limit, F, S)
               PROVE  h = [n \in 0..limit |-> step(h, n)]
    OBVIOUS
  <2>1. h = [n \in 0..limit |-> IF n = 0 THEN S ELSE F[<<h[n - 1], n>>]] BY DEF Iterates
  <2>2. \A n \in 0..limit : n # 0 => <<h[n - 1], n>> \in D \X (1..limit) BY <1>1
  <2>3. \A n \in 0..limit : h[n] = step(h, n) BY <1>5, <2>1, <2>2
  <2> QED BY <2>1, <2>3
<1>7. S \in D BY DEF D
<1>8. \E f \in [0..limit -> D] : Iterates(f, limit, F, S) BY <1>1, <1>4, <1>7, IterationExists
<1>9. after = [n \in 0..limit |-> step(after, n)] BY <1>6, <1>8
<1> HIDE DEF after, F
<1> DEFINE T == {n \in 0..limit : after[n] \notin D}
<1>10. T = {}
  <2> SUFFICES ASSUME T # {} PROVE FALSE OBVIOUS
  <2>1. T \in SUBSET Nat BY <1>1
  <2>2. PICK m \in T : \A k \in T : m <= k BY <2>1, LeastOf
  <2>3. after[m] = IF m = 0 THEN S ELSE after[m - 1] \cup Ends(after[m - 1], "eps") BY <1>5, <1>9, <2>2
  <2>4. m # 0 BY <1>7, <2>2, <2>3
  <2>5. m - 1 \in 0..limit /\ m - 1 \notin T BY <1>1, <2>2, <2>4
  <2> QED BY <1>3, <2>2, <2>3, <2>4, <2>5 DEF D
<1>11. after \in [0..limit -> D] BY <1>9, <1>10
<1>12. after[0] = S /\ \A n \in 1..limit : after[n] = after[n - 1] \cup Ends(after[n - 1], "eps")
  BY <1>1, <1>5, <1>9
<1> QED BY <1>1, <1>2, <1>11, <1>12 DEF limit, D
\* A round that adds nothing is the last one that could, and there are as many rounds as nodes.
LEMMA EclosureFacts ==
  ASSUME IsNfa(nfa), NEW S \in SUBSET (DOMAIN nfa.edges)
  PROVE  /\ Eclosure(S) \in SUBSET (DOMAIN nfa.edges) /\ S \subseteq Eclosure(S)
         /\ Ends(Eclosure(S), "eps") \subseteq Eclosure(S)
<1> DEFINE All == DOMAIN nfa.edges
           limit == Cardinality(All)
<1>1. limit \in Nat /\ IsFiniteSet(All)
  <2>1. PICK n \in Nat : All = 1..n BY DEF IsNfa
  <2>2. IsFiniteSet(1..n) BY <2>1, FS_Interval
  <2>3. IsFiniteSet(All) BY <2>1, <2>2
  <2> HIDE DEF All
  <2>4. limit \in Nat BY <2>3, FS_CardinalityType
  <2> QED BY <2>3, <2>4
<1>2. PICK h \in [0..limit -> SUBSET All] :
        /\ h[0] = S /\ Eclosure(S) = h[limit]
        /\ \A n \in 1..limit : h[n] = h[n - 1] \cup Ends(h[n - 1], "eps")
  BY RoundsOf
<1>3. \A U \in SUBSET All : Ends(U, "eps") \in SUBSET All BY EndsAreNodes
<1> HIDE DEF All, limit
<1>4. \A U \in SUBSET All : IsFiniteSet(U) /\ Cardinality(U) \in Nat /\ Cardinality(U) <= limit
                            /\ (Cardinality(U) = limit => U = All)
  BY <1>1, FS_Subset, FS_CardinalityType DEF limit
<1> DEFINE closed(n) == Ends(h[n], "eps") \subseteq h[n]
           T == {n \in 0..limit : ~(S \subseteq h[n] /\ (closed(n) \/ Cardinality(h[n]) >= n))}
<1>5. T = {}
  <2> SUFFICES ASSUME T # {} PROVE FALSE OBVIOUS
  <2>1. T \in SUBSET Nat BY <1>1
  <2>2. PICK m \in T : \A k \in T : m <= k BY <2>1, LeastOf
  <2>3. m # 0
    <3> SUFFICES ASSUME m = 0 PROVE FALSE OBVIOUS
    <3>1. h[0] \in SUBSET All BY <1>1
    <3>2. Cardinality(h[0]) >= 0 BY <1>4, <3>1
    <3> QED BY <1>2, <2>2, <3>2
  <2>4. m \in 1..limit /\ m - 1 \in 0..limit /\ m - 1 \notin T BY <1>1, <2>2, <2>3
  <2>5. S \subseteq h[m - 1] /\ (closed(m - 1) \/ Cardinality(h[m - 1]) >= m - 1) BY <2>4
  <2>6. h[m] = h[m - 1] \cup Ends(h[m - 1], "eps") BY <1>2, <2>4
  <2>7. h[m - 1] \in SUBSET All /\ h[m] \in SUBSET All BY <2>4
  <2>8. CASE closed(m - 1)
    <3>1. h[m] = h[m - 1] BY <2>6, <2>8
    <3> QED BY <2>2, <2>5, <2>8, <3>1
  <2>9. CASE ~closed(m - 1)
    <3>1. h[m - 1] \subseteq h[m] /\ h[m - 1] # h[m] BY <2>6, <2>9
    <3>2. IsFiniteSet(h[m]) /\ Cardinality(h[m]) \in Nat /\ Cardinality(h[m - 1]) \in Nat BY <1>4, <2>7
    <3>3. Cardinality(h[m - 1]) <= Cardinality(h[m]) /\ Cardinality(h[m - 1]) # Cardinality(h[m])
      BY <3>1, <3>2, FS_Subset
    <3>4. Cardinality(h[m - 1]) >= m - 1 BY <2>5, <2>9
    <3>5. Cardinality(h[m]) >= m BY <2>4, <3>2, <3>3, <3>4
    <3> QED BY <2>2, <2>5, <3>1, <3>5
  <2> QED BY <2>8, <2>9
<1>6. limit \in 0..limit /\ h[limit] \in SUBSET All BY <1>1
<1>7. S \subseteq h[limit] /\ (closed(limit) \/ Cardinality(h[limit]) >= limit) BY <1>5, <1>6
<1>8. CASE closed(limit) BY <1>2, <1>6, <1>7, <1>8 DEF All
<1>9. CASE Cardinality(h[limit]) >= limit
  <2>1. Cardinality(h[limit]) = limit BY <1>1, <1>4, <1>6, <1>9
  <2>2. h[limit] = All BY <1>4, <1>6, <2>1
  <2>3. closed(limit) BY <1>3, <1>6, <2>2
  <2> QED BY <1>2, <1>6, <1>7, <2>3 DEF All
<1> QED BY <1>7, <1>8, <1>9
\* The tables hold what the operators say, and stay while the automaton does.
LEMMA TableFacts ==
  ASSUME IsNfa(nfa)
  PROVE  /\ \A S \in Sets : \A c \in Letters \cup {"eps"} :
              behind[<<S, c>>] = Ends(S, c) /\ behind[<<S, c>>] \in Sets
         /\ \A S \in Sets :
              /\ closure[S] = Eclosure(S) /\ closure[S] \in Sets /\ S \subseteq closure[S]
              /\ behind[<<closure[S], "eps">>] \subseteq closure[S]
<1>1. \A S \in Sets : \A c \in Letters \cup {"eps"} :
        behind[<<S, c>>] = Ends(S, c) /\ behind[<<S, c>>] \in Sets
  BY EndsAreNodes DEF behind, Sets
<1>2. \A S \in Sets : closure[S] = Eclosure(S) BY DEF closure
<1>3. \A S \in Sets : closure[S] \in Sets /\ S \subseteq closure[S] /\ Ends(closure[S], "eps") \subseteq closure[S]
  BY <1>2, EclosureFacts DEF Sets
<1> QED BY <1>1, <1>2, <1>3

LEMMA SameNfa ==
  ASSUME nfa' = nfa
  PROVE  chars' = chars /\ Sets' = Sets /\ behind' = behind /\ closure' = closure
<1>1. chars' = chars BY DEF chars
<1>2. \A S, c : Ends(S, c)' = Ends(S, c) BY DEF Ends
<1>3. \A S : Eclosure(S)' = Eclosure(S) BY DEF Eclosure, Ends
<1>4. Sets' = Sets BY DEF Sets
<1>5. behind' = behind BY <1>2, <1>4 DEF behind
<1>6. closure' = closure BY <1>3, <1>4 DEF closure
<1> QED BY <1>1, <1>4, <1>5, <1>6

LEMMA SetsSame ==
  ASSUME SetsInv, UNCHANGED <<nfa, stateSets, transitions, work, at>>
  PROVE  SetsInv'
<1>1. nfa' = nfa /\ stateSets' = stateSets /\ transitions' = transitions /\ work' = work /\ at' = at OBVIOUS
<1>2. chars' = chars /\ Sets' = Sets /\ behind' = behind /\ closure' = closure BY <1>1, SameNfa
<1>3. Finished' = Finished /\ States' = States BY <1>1 DEF Finished, States
<1> QED BY <1>1, <1>2, <1>3 DEF SetsInv
-----------------------------------------------------------------------------
(***************************************************************************)
(* The steps of the subset construction.                                   *)
(***************************************************************************)
LEMMA StartKeeps ==
  ASSUME DfaInv, Start
  PROVE  DfaInv'
<1>1. /\ dpc = "start" /\ dpc' = "subset" /\ IsNfa(nfa) /\ nfa' = nfa
      /\ stateSets' = <<Eclosure({nfa.start})>> /\ transitions' = <<<<>>>> /\ work' = <<1>> /\ at' = 1
  BY DEF DfaInv, Start
<1>2. chars' = chars /\ Sets' = Sets /\ behind' = behind /\ closure' = closure BY <1>1, SameNfa
<1>3. {nfa.start} \in Sets BY <1>1 DEF IsNfa, Sets
<1> DEFINE first == closure[{nfa.start}]
<1>4. /\ Eclosure({nfa.start}) = first /\ first \in Sets /\ {nfa.start} \subseteq first
      /\ behind[<<first, "eps">>] \subseteq first
  BY <1>1, <1>3, TableFacts
<1> HIDE DEF first
<1>5. first # {} BY <1>4
<1>6. <<>> \in Moves
  <2>1. <<>> \in [{} -> Nat] OBVIOUS
  <2> QED BY <2>1 DEF Moves
<1>7. stateSets' \in Seq(Sets) /\ Len(stateSets') = 1 /\ stateSets'[1] = first BY <1>1, <1>4
<1>8. transitions' \in Seq(Moves) /\ Len(transitions') = 1 /\ transitions'[1] = <<>> BY <1>1, <1>6
<1>9. work' \in Seq(Nat) /\ Len(work') = 1 /\ work'[1] = 1 /\ Finished' = 0 BY <1>1, <1>7 DEF Finished
<1>10. \A q \in States' : q = 1 BY <1>7 DEF States
<1>11. SetsInv'
  <2>1. \A k \in DOMAIN work' : work'[k] = Finished' + k BY <1>9
  <2>2. \A q \in States' : stateSets'[q] = first /\ DOMAIN transitions'[q] = {} BY <1>7, <1>8, <1>10
  <2>3. \A q \in States' : stateSets'[q] # {} /\ behind'[<<stateSets'[q], "eps">>] \subseteq stateSets'[q]
    BY <1>2, <1>4, <1>5, <2>2
  <2>4. \A q, t \in States' : stateSets'[q] = stateSets'[t] => q = t BY <1>10
  <2>5. \A q \in States' : \A k \in DOMAIN chars' : ~(q <= Finished' \/ (q = Finished' + 1 /\ k < at'))
    BY <1>1, <1>2, <1>9, <1>10, CharsAreLetters
  <2>6. stateSets' \in Seq(Sets') /\ at' \in Nat \ {0} /\ Len(work') <= Len(stateSets') BY <1>1, <1>2, <1>7, <1>9
  <2> QED BY <1>7, <1>8, <1>9, <2>1, <2>2, <2>3, <2>4, <2>5, <2>6 DEF SetsInv
<1> QED BY <1>1, <1>11 DEF DfaInv
\* The state in front of the queue, and what its next character leads to.
LEMMA InFront ==
  ASSUME DfaInv, dpc = "subset", work # <<>>, at <= Len(chars)
  PROVE  /\ Head(work) = Finished + 1 /\ Head(work) \in States /\ Finished \in Nat
         /\ at \in DOMAIN chars /\ chars[at] \in Letters
         /\ stateSets[Head(work)] \in Sets
         /\ behind[<<stateSets[Head(work)], chars[at]>>] = Ends(stateSets[Head(work)], chars[at])
         /\ Ends(stateSets[Head(work)], chars[at]) \in Sets
<1>1. SetsInv /\ IsNfa(nfa) BY DEF DfaInv
<1>2. /\ work \in Seq(Nat) /\ Len(work) \in Nat \ {0} /\ Len(stateSets) \in Nat /\ Len(work) <= Len(stateSets)
      /\ 1 \in DOMAIN work /\ at \in Nat \ {0} /\ stateSets \in Seq(Sets)
  BY <1>1 DEF SetsInv
<1>3. Head(work) = Finished + 1 BY <1>1, <1>2 DEF SetsInv
<1>4. Head(work) \in States /\ Finished \in Nat BY <1>2, <1>3 DEF States, Finished
<1>5. at \in DOMAIN chars /\ chars[at] \in Letters BY <1>2, CharsAreLetters
<1>6. stateSets[Head(work)] \in Sets BY <1>2, <1>4 DEF States
<1> QED BY <1>1, <1>3, <1>4, <1>5, <1>6, TableFacts

LEMMA NoMoveKeeps ==
  ASSUME DfaInv, NoMove
  PROVE  DfaInv'
<1>1. /\ dpc = "subset" /\ work # <<>> /\ at <= Len(chars) /\ at' = at + 1
      /\ Ends(stateSets[Head(work)], chars[at]) = {}
      /\ nfa' = nfa /\ stateSets' = stateSets /\ transitions' = transitions /\ work' = work /\ dpc' = dpc
  BY DEF NoMove
<1>2. SetsInv /\ IsNfa(nfa) BY <1>1 DEF DfaInv
<1>3. chars' = chars /\ Sets' = Sets /\ behind' = behind /\ closure' = closure BY <1>1, SameNfa
<1>4. /\ Head(work) = Finished + 1 /\ at \in DOMAIN chars
      /\ behind[<<stateSets[Head(work)], chars[at]>>] = {}
  BY <1>1, InFront
<1>5. at \in Nat \ {0} /\ at' \in Nat \ {0} BY <1>1, <1>2 DEF SetsInv
<1>6. \A k \in DOMAIN chars : k < at' => k < at \/ k = at BY <1>1, <1>5, CharsAreLetters
<1>7. \A q \in States : \A k \in DOMAIN chars :
        (q <= Finished \/ (q = Finished + 1 /\ k < at')) /\ behind[<<stateSets[q], chars[k]>>] # {}
          => chars[k] \in DOMAIN transitions[q]
  BY <1>2, <1>4, <1>6 DEF SetsInv
<1>8. SetsInv'
  <2>1. States' = States /\ Finished' = Finished BY <1>1 DEF States, Finished
  <2> QED BY <1>1, <1>2, <1>3, <1>5, <1>7, <2>1 DEF SetsInv
<1> QED BY <1>1, <1>2, <1>8 DEF DfaInv

LEMMA NextStateKeeps ==
  ASSUME DfaInv, NextState
  PROVE  DfaInv'
<1>1. /\ dpc = "subset" /\ work # <<>> /\ at > Len(chars) /\ work' = Tail(work) /\ at' = 1
      /\ nfa' = nfa /\ stateSets' = stateSets /\ transitions' = transitions /\ dpc' = dpc
  BY DEF NextState
<1>2. SetsInv /\ IsNfa(nfa) BY <1>1 DEF DfaInv
<1>3. chars' = chars /\ Sets' = Sets /\ behind' = behind /\ closure' = closure BY <1>1, SameNfa
<1>4. /\ work \in Seq(Nat) /\ Len(work) \in Nat \ {0} /\ Len(stateSets) \in Nat /\ Len(work) <= Len(stateSets)
      /\ at \in Nat \ {0}
  BY <1>1, <1>2 DEF SetsInv
<1>5. work' \in Seq(Nat) /\ Len(work') = Len(work) - 1 /\ Finished' = Finished + 1 /\ States' = States
  BY <1>1, <1>4 DEF Finished, States
<1>6. \A k \in DOMAIN work' : work'[k] = Finished' + k
  <2> TAKE k \in DOMAIN work'
  <2>1. k + 1 \in DOMAIN work /\ work'[k] = work[k + 1] /\ k \in Nat BY <1>1, <1>4, <1>5
  <2>2. work[k + 1] = Finished + (k + 1) BY <1>2, <2>1 DEF SetsInv
  <2>3. Finished \in Int BY <1>4 DEF Finished
  <2> QED BY <1>5, <2>1, <2>2, <2>3
<1>7. \A k \in DOMAIN chars : k < at /\ k \in Nat \ {0} BY <1>1, <1>4, CharsAreLetters
<1>8. \A q \in States : q \in Int /\ (q <= Finished' => q <= Finished \/ q = Finished + 1)
  <2>1. Finished \in Int BY <1>4 DEF Finished
  <2>2. \A q \in States : q \in Int BY <1>4 DEF States
  <2> QED BY <1>5, <2>1, <2>2
<1>9. \A q \in States : \A k \in DOMAIN chars :
        (q <= Finished' \/ (q = Finished' + 1 /\ k < at')) /\ behind[<<stateSets[q], chars[k]>>] # {}
          => chars[k] \in DOMAIN transitions[q]
  <2>1. \A k \in DOMAIN chars : ~(k < at') BY <1>1, <1>7
  <2> QED BY <1>2, <1>7, <1>8, <2>1 DEF SetsInv
<1>10. SetsInv'
  <2>1. Len(work') <= Len(stateSets') /\ at' \in Nat \ {0} BY <1>1, <1>4, <1>5
  <2> QED BY <1>1, <1>2, <1>3, <1>5, <1>6, <1>9, <2>1 DEF SetsInv
<1> QED BY <1>1, <1>2, <1>10 DEF DfaInv
\* An entry more in the moves of a state.
LEMMA WithOne ==
  ASSUME NEW f \in Moves, NEW c \in Letters, NEW t \in Nat
  PROVE  /\ With(f, c, t) \in Moves /\ DOMAIN With(f, c, t) = DOMAIN f \cup {c}
         /\ With(f, c, t)[c] = t /\ \A x \in DOMAIN f : x # c => With(f, c, t)[x] = f[x]
<1>1. DOMAIN f \in SUBSET Letters /\ \A x \in DOMAIN f : f[x] \in Nat BY DEF Moves
<1>2. With(f, c, t) \in [DOMAIN f \cup {c} -> Nat] BY <1>1 DEF With
<1>3. DOMAIN f \cup {c} \in SUBSET Letters BY <1>1
<1> QED BY <1>2, <1>3 DEF With, Moves

\* What the move from the state in front writes.
Moved  == Eclosure(Ends(stateSets[Head(work)], chars[at]))
Target == IF FoundAt(Moved) = {} THEN Len(stateSets) + 1 ELSE CHOOSE t \in FoundAt(Moved) : TRUE
Edges  == [transitions EXCEPT ![Head(work)] = With(transitions[Head(work)], chars[at], Target)]

LEMMA MoveKeeps ==
  ASSUME DfaInv, Move
  PROVE  DfaInv'
<1> DEFINE q0 == Head(work)
           c0 == chars[at]
           moved == Moved
           target == Target
           edges == Edges
           size == Len(stateSets)
<1>1. /\ dpc = "subset" /\ work # <<>> /\ at <= Len(chars) /\ at' = at + 1 /\ Ends(stateSets[q0], c0) # {}
      /\ nfa' = nfa /\ dpc' = dpc
      /\ FoundAt(moved) = {} => /\ stateSets' = Append(stateSets, moved)
                                /\ transitions' = Append(edges, <<>>)
                                /\ work' = Append(work, target)
      /\ FoundAt(moved) # {} => stateSets' = stateSets /\ transitions' = edges /\ work' = work
  BY DEF Move, Moved, Target, Edges
<1>2. SetsInv /\ IsNfa(nfa) BY <1>1 DEF DfaInv
<1>3. chars' = chars /\ Sets' = Sets /\ behind' = behind /\ closure' = closure BY <1>1, SameNfa
<1>4. /\ q0 = Finished + 1 /\ q0 \in States /\ Finished \in Nat /\ at \in DOMAIN chars /\ c0 \in Letters
      /\ stateSets[q0] \in Sets /\ behind[<<stateSets[q0], c0>>] = Ends(stateSets[q0], c0)
      /\ Ends(stateSets[q0], c0) \in Sets
  BY <1>1, InFront
<1>5. /\ moved = closure[behind[<<stateSets[q0], c0>>]] /\ moved \in Sets /\ moved # {}
      /\ behind[<<moved, "eps">>] \subseteq moved
  BY <1>1, <1>2, <1>4, TableFacts DEF Moved
<1>6. /\ stateSets \in Seq(Sets) /\ transitions \in Seq(Moves) /\ work \in Seq(Nat) /\ at \in Nat \ {0}
      /\ size \in Nat /\ Len(transitions) = size /\ Len(work) \in Nat \ {0} /\ Len(work) <= size
      /\ States = 1..size
  BY <1>1, <1>2 DEF SetsInv, States
<1>7. /\ FoundAt(moved) = {} => target = size + 1
      /\ FoundAt(moved) # {} => target \in States /\ stateSets[target] = moved
  BY DEF Target, FoundAt, States
<1>8. target \in Nat BY <1>6, <1>7
<1>9. edges = [transitions EXCEPT ![q0] = With(transitions[q0], c0, target)] BY DEF Edges
<1> HIDE DEF q0, c0, moved, target, edges, size
<1>10. /\ edges \in Seq(Moves) /\ Len(edges) = size
       /\ \A q \in States : DOMAIN edges[q] = IF q = q0 THEN DOMAIN transitions[q] \cup {c0} ELSE DOMAIN transitions[q]
       /\ \A q \in States : \A c \in DOMAIN edges[q] :
            edges[q][c] = IF q = q0 /\ c = c0 THEN target ELSE transitions[q][c]
  <2>1. transitions[q0] \in Moves BY <1>4, <1>6
  <2> DEFINE f == With(transitions[q0], c0, target)
  <2>2. /\ f \in Moves /\ DOMAIN f = DOMAIN transitions[q0] \cup {c0} /\ f[c0] = target
        /\ \A x \in DOMAIN transitions[q0] : x # c0 => f[x] = transitions[q0][x]
    BY <1>4, <1>8, <2>1, WithOne
  <2>3. edges = [transitions EXCEPT ![q0] = f] BY <1>9
  <2> HIDE DEF f
  <2>4. edges \in Seq(Moves) /\ Len(edges) = size /\ edges[q0] = f
        /\ \A q \in States : q # q0 => edges[q] = transitions[q]
    BY <1>4, <1>6, <2>2, <2>3
  <2> QED BY <2>2, <2>4
\* Old states keep what they had, and the one in front gets its move.
<1>11. \A q \in States : \A c \in DOMAIN edges[q] :
         \/ edges[q][c] \in States /\ stateSets[edges[q][c]] = closure[behind[<<stateSets[q], c>>]]
         \/ edges[q][c] = target /\ moved = closure[behind[<<stateSets[q], c>>]]
  <2> TAKE q \in States
  <2> TAKE c \in DOMAIN edges[q]
  <2>1. CASE q = q0 /\ c = c0 BY <1>5, <1>10, <2>1
  <2>2. CASE ~(q = q0 /\ c = c0)
    <3>1. c \in DOMAIN transitions[q] /\ edges[q][c] = transitions[q][c] BY <1>10, <2>2
    <3> QED BY <1>2, <3>1 DEF SetsInv
  <2> QED BY <2>1, <2>2
<1>12. \A q \in States : \A k \in DOMAIN chars :
         (q <= Finished \/ (q = Finished + 1 /\ k < at')) /\ behind[<<stateSets[q], chars[k]>>] # {}
           => chars[k] \in DOMAIN edges[q]
  <2>1. \A k \in DOMAIN chars : k < at' => k < at \/ k = at BY <1>1, <1>6, CharsAreLetters
  <2>2. \A q \in States : DOMAIN transitions[q] \subseteq DOMAIN edges[q] BY <1>10
  <2>3. c0 = chars[at] /\ c0 \in DOMAIN edges[q0] BY <1>4, <1>10 DEF c0
  <2> QED BY <1>2, <1>4, <2>1, <2>2, <2>3 DEF SetsInv
<1>13. CASE FoundAt(moved) # {}
  <2>1. stateSets' = stateSets /\ transitions' = edges /\ work' = work BY <1>1, <1>13
  <2>2. States' = States /\ Finished' = Finished BY <2>1 DEF States, Finished
  <2>3. \A q \in States : \A c \in DOMAIN edges[q] :
          edges[q][c] \in States /\ stateSets[edges[q][c]] = closure[behind[<<stateSets[q], c>>]]
    BY <1>7, <1>11, <1>13
  <2>4. at' \in Nat \ {0} BY <1>1, <1>6
  <2>5. Len(edges) = Len(stateSets) BY <1>10 DEF size
  <2>6. SetsInv' BY <1>2, <1>3, <1>10, <1>12, <2>1, <2>2, <2>3, <2>4, <2>5 DEF SetsInv
  <2> QED BY <1>1, <1>2, <2>6 DEF DfaInv
<1>14. CASE FoundAt(moved) = {}
  <2>1. /\ stateSets' = Append(stateSets, moved) /\ transitions' = Append(edges, <<>>)
        /\ work' = Append(work, target) /\ target = size + 1
    BY <1>1, <1>7, <1>14
  <2>2. <<>> \in Moves
    <3>1. <<>> \in [{} -> Nat] OBVIOUS
    <3> QED BY <3>1 DEF Moves
  <2>3. /\ stateSets' \in Seq(Sets) /\ Len(stateSets') = size + 1 /\ stateSets'[size + 1] = moved
        /\ \A q \in States : stateSets'[q] = stateSets[q]
    BY <1>5, <1>6, <2>1 DEF size
  <2>4. /\ transitions' \in Seq(Moves) /\ Len(transitions') = size + 1 /\ transitions'[size + 1] = <<>>
        /\ \A q \in States : transitions'[q] = edges[q]
    BY <1>6, <1>10, <2>1, <2>2
  <2>5. /\ work' \in Seq(Nat) /\ Len(work') = Len(work) + 1 /\ work'[Len(work) + 1] = size + 1
        /\ \A k \in DOMAIN work : work'[k] = work[k]
    BY <1>6, <1>8, <2>1
  <2>6. States' = States \cup {size + 1} /\ size + 1 \notin States /\ Finished' = Finished
    BY <1>6, <2>3, <2>5 DEF States, Finished, size
  <2>7. \A k \in DOMAIN work' : work'[k] = Finished' + k
    <3>1. \A k \in DOMAIN work' : k \in DOMAIN work \/ k = Len(work) + 1 BY <1>6, <2>5
    <3>2. size + 1 = Finished + (Len(work) + 1) BY <1>6 DEF Finished, size
    <3> QED BY <1>2, <2>5, <2>6, <3>1, <3>2 DEF SetsInv
  <2>8. \A q, t \in States' : stateSets'[q] = stateSets'[t] => q = t
    <3>1. \A q \in States : stateSets[q] # moved BY <1>14 DEF FoundAt, States
    <3>2. \A q, t \in States : stateSets[q] = stateSets[t] => q = t BY <1>2 DEF SetsInv
    <3> QED BY <2>3, <2>6, <3>1, <3>2
  <2>9. \A q \in States' : stateSets'[q] # {} /\ behind[<<stateSets'[q], "eps">>] \subseteq stateSets'[q]
    BY <1>2, <1>5, <2>3, <2>6 DEF SetsInv
  <2>10. \A q \in States' : \A c \in DOMAIN transitions'[q] :
           transitions'[q][c] \in States' /\ stateSets'[transitions'[q][c]] = closure[behind[<<stateSets'[q], c>>]]
    <3>1. DOMAIN transitions'[size + 1] = {} BY <2>4
    <3>2. \A q \in States : \A c \in DOMAIN edges[q] :
            edges[q][c] \in States' /\ stateSets'[edges[q][c]] = closure[behind[<<stateSets[q], c>>]]
      BY <1>11, <2>1, <2>3, <2>6
    <3> QED BY <2>3, <2>4, <2>6, <3>1, <3>2
  <2>11. \A q \in States' : \A k \in DOMAIN chars :
           (q <= Finished' \/ (q = Finished' + 1 /\ k < at')) /\ behind[<<stateSets'[q], chars[k]>>] # {}
             => chars[k] \in DOMAIN transitions'[q]
    <3>1. ~(size + 1 <= Finished') /\ size + 1 # Finished' + 1 BY <1>4, <1>6, <2>6 DEF Finished, size
    <3> QED BY <1>12, <2>3, <2>4, <2>6, <3>1
  <2>12. at' \in Nat \ {0} /\ Len(work') <= Len(stateSets') /\ Len(transitions') = Len(stateSets')
    BY <1>1, <1>6, <2>3, <2>4, <2>5
  <2>13. SetsInv' BY <1>3, <2>3, <2>4, <2>5, <2>7, <2>8, <2>9, <2>10, <2>11, <2>12 DEF SetsInv
  <2> QED BY <1>1, <1>2, <2>13 DEF DfaInv
<1> QED BY <1>13, <1>14
\* The minimizer leaves the subset construction's result alone.
LEMMA MinimizerKeeps ==
  ASSUME DfaInv, FinishSubset \/ RefineGroup \/ EndPass \/ FinishMinimal
  PROVE  DfaInv'
<1>1. /\ nfa' = nfa /\ stateSets' = stateSets /\ transitions' = transitions /\ work' = work /\ at' = at
      /\ work = <<>> /\ dpc \in {"subset", "refine"} /\ dpc' \in {"refine", "done"}
  <2>1. CASE FinishSubset BY <2>1 DEF FinishSubset
  <2>2. CASE RefineGroup BY <2>2 DEF RefineGroup, DfaInv
  <2>3. CASE EndPass BY <2>3 DEF EndPass, DfaInv
  <2>4. CASE FinishMinimal BY <2>4 DEF FinishMinimal, DfaInv
  <2> QED BY <2>1, <2>2, <2>3, <2>4
<1>2. SetsInv' BY <1>1, SetsSame DEF DfaInv
<1> QED BY <1>1, <1>2 DEF DfaInv

LEMMA ClearKeeps ==
  ASSUME DfaInv, Clear
  PROVE  DfaInv'
BY DEF DfaInv, Clear

LEMMA DfaStepKeeps ==
  ASSUME DfaInv, DfaNext
  PROVE  DfaInv'
<1>1. CASE Start BY <1>1, StartKeeps
<1>2. CASE NoMove BY <1>2, NoMoveKeeps
<1>3. CASE Move BY <1>3, MoveKeeps
<1>4. CASE NextState BY <1>4, NextStateKeeps
<1>5. CASE FinishSubset \/ RefineGroup \/ EndPass \/ FinishMinimal BY <1>5, MinimizerKeeps
<1> QED BY <1>1, <1>2, <1>3, <1>4, <1>5 DEF DfaNext

LEMMA DfaStutters ==
  ASSUME DfaInv, UNCHANGED dfaVars
  PROVE  DfaInv'
<1>1. nfa' = nfa /\ stateSets' = stateSets /\ transitions' = transitions /\ work' = work /\ at' = at /\ dpc' = dpc
  BY DEF dfaVars
<1>2. CASE dpc \in {"subset", "refine", "done"}
  <2>1. SetsInv' BY <1>1, <1>2, SetsSame DEF DfaInv
  <2> QED BY <1>1, <1>2, <2>1 DEF DfaInv
<1>3. CASE dpc \notin {"subset", "refine", "done"} BY <1>1, <1>3 DEF DfaInv
<1> QED BY <1>2, <1>3
-----------------------------------------------------------------------------
(***************************************************************************)
(* The automata of the rules.                                              *)
(***************************************************************************)
LEMMA StackFacts ==
  ASSUME NEW T, NEW s \in Seq(T), s # <<>>
  PROVE  Nfa!Peek(s) \in T /\ Nfa!Rest(s) \in Seq(T) /\ Len(Nfa!Rest(s)) = Len(s) - 1
<1>1. Len(s) \in Nat \ {0} /\ Len(s) \in DOMAIN s OBVIOUS
<1>2. \A k \in 1..Len(s) - 1 : s[k] \in T BY <1>1
<1> DEFINE n == Len(s) - 1
           f == [k \in 1..n |-> s[k]]
<1>3. SubSeq(s, 1, Len(s) - 1) = f BY <1>1
<1>4. f \in [1..n -> T] /\ n \in Nat BY <1>1, <1>2
<1> HIDE DEF f
<1>5. f \in Seq(T) /\ Len(f) = n BY <1>4
<1> QED BY <1>1, <1>3, <1>5 DEF Nfa!Peek, Nfa!Rest

LEMMA SpecFacts ==
  ASSUME NEW s \in Specs
  PROVE  /\ s # <<>> /\ Len(s) \in Nat \ {0} /\ DOMAIN s = 1..Len(s)
         /\ \A i \in 1..Len(s) : s[i].infix \in Seq(Tokens)
<1>1. PICK p \in Programs : \E k \in DOMAIN p : s = p[k] BY DEF Specs
<1>2. IsSequence(s) /\ s # <<>> /\ \A i \in DOMAIN s : IsSequence(s[i].infix) BY <1>1, RulesAssumption
<1>3. Len(s) \in Nat \ {0} /\ DOMAIN s = 1..Len(s) BY <1>2 DEF IsSequence
<1>4. \A i \in DOMAIN s : {s[i].infix[k] : k \in DOMAIN s[i].infix} \subseteq Tokens BY DEF Tokens
<1>5. \A i \in DOMAIN s : s[i].infix \in Seq(Tokens)
  <2> TAKE i \in DOMAIN s
  <2> DEFINE f == s[i].infix
  <2>1. f \in Seq({f[k] : k \in DOMAIN f}) BY <1>2 DEF IsSequence
  <2>2. {f[k] : k \in DOMAIN f} \subseteq Tokens BY <1>4
  <2> HIDE DEF f
  <2>3. f \in Seq(Tokens) BY <2>1, <2>2
  <2> QED BY <2>3 DEF f
<1> QED BY <1>2, <1>3, <1>5

LEMMA PairOfNodes ==
  ASSUME Net(nodes), NEW E \in SUBSET (Labels \X (1..Len(nodes) + 2))
  PROVE  Net(Nfa!NewPair(E)) /\ Len(Nfa!NewPair(E)) = Len(nodes) + 2
<1> DEFINE a == [accepted |-> FALSE, edges |-> E]
           b == [accepted |-> TRUE, edges |-> {}]
           ns == nodes \o <<a, b>>
<1>1. nodes \in Seq(Node) /\ Len(nodes) \in Nat BY DEF Net
<1>2. E \in SUBSET (Labels \X Nat) BY <1>1
<1>3. a \in Node /\ b \in Node BY <1>2 DEF Node
<1>4. \A e \in E : e[2] \in 1..Len(nodes) + 2 BY <1>1
<1>5. a.edges = E /\ b.edges = {} OBVIOUS
<1>6. Nfa!NewPair(E) = ns BY DEF Nfa!NewPair
<1> HIDE DEF a, b
<1>7. /\ ns \in Seq(Node) /\ Len(ns) = Len(nodes) + 2
      /\ \A n \in 1..Len(nodes) : ns[n] = nodes[n]
      /\ ns[Len(nodes) + 1] = a /\ ns[Len(nodes) + 2] = b
  BY <1>1, <1>3
<1> HIDE DEF ns
<1>8. \A n \in DOMAIN ns : n \in 1..Len(nodes) \/ n = Len(nodes) + 1 \/ n = Len(nodes) + 2 BY <1>1, <1>7
<1>9. \A n \in DOMAIN ns : \A e \in ns[n].edges : e[2] \in 1..Len(ns)
  <2>1. \A n \in 1..Len(nodes) : \A e \in nodes[n].edges : e[2] \in 1..Len(nodes) + 2 BY <1>1 DEF Net
  <2> QED BY <1>4, <1>5, <1>7, <1>8, <2>1
<1> QED BY <1>6, <1>7, <1>9 DEF Net

LEMMA JoinedNodes ==
  ASSUME NEW ns, Net(ns), NEW n \in 1..Len(ns), NEW targets \in SUBSET (1..Len(ns))
  PROVE  Net(Nfa!Joined(ns, n, targets)) /\ Len(Nfa!Joined(ns, n, targets)) = Len(ns)
<1>1. ns \in Seq(Node) /\ Len(ns) \in Nat /\ ns[n] \in Node /\ n \in DOMAIN ns BY DEF Net
<1> DEFINE E == ns[n].edges \cup ({"eps"} \X targets)
           a == [accepted |-> FALSE, edges |-> E]
           new == [ns EXCEPT ![n] = a]
<1>2. Nfa!Joined(ns, n, targets) = new BY <1>1 DEF Nfa!Joined
<1>3. ns[n].edges \in SUBSET (Labels \X Nat) BY <1>1 DEF Node
<1>4. {"eps"} \X targets \in SUBSET (Labels \X Nat)
  <2>1. "eps" \in Labels /\ targets \subseteq Nat BY <1>1 DEF Labels
  <2> QED BY <2>1
<1>5. a \in Node BY <1>3, <1>4 DEF Node
<1>6. \A e \in E : e[2] \in 1..Len(ns) BY <1>1 DEF Net
<1>7. a.edges = E OBVIOUS
<1> HIDE DEF a, E
<1>8. new \in Seq(Node) /\ Len(new) = Len(ns) /\ new[n] = a /\ \A k \in 1..Len(ns) : k # n => new[k] = ns[k]
  BY <1>1, <1>5
<1> HIDE DEF new
<1>9. \A k \in DOMAIN new : \A e \in new[k].edges : e[2] \in 1..Len(new) BY <1>1, <1>6, <1>7, <1>8 DEF Net
<1> QED BY <1>2, <1>8, <1>9 DEF Net

\* A step that leaves the nodes alone.
LEMMA SameNodes ==
  ASSUME NfaInv, nodes' = nodes, fragments' = fragments, nfaTable' = nfaTable, rules' = rules, r' = r
  PROVE  /\ Net(nodes)' /\ Fragment' = Fragment /\ (fragments \in Seq(Fragment))' /\ (nfaTable \in Seq(Fragment))'
         /\ (rules \in Specs /\ r \in 1..Len(rules))'
         /\ Len(nfaTable)' = Len(nfaTable)
BY DEF NfaInv, Net, Fragment

\* toPostfix.
LEMMA PostfixKeeps ==
  ASSUME NfaInv,
         \/ Nfa!PassOn \/ Nfa!PopOperator \/ Nfa!PushOperator
         \/ Nfa!CloseParenthesis \/ Nfa!FlushOperator \/ Nfa!StartBuild
  PROVE  NfaInv'
<1>1. /\ pc = "postfix" /\ operators \in Seq(Tokens) /\ postfix \in Seq(Tokens) /\ pos \in Nat \ {0}
      /\ rules \in Specs /\ r \in 1..Len(rules) /\ Len(nfaTable) = r - 1
  BY DEF NfaInv, Nfa!PassOn, Nfa!PopOperator, Nfa!PushOperator, Nfa!CloseParenthesis, Nfa!FlushOperator, Nfa!StartBuild
<1>2. nodes' = nodes /\ fragments' = fragments /\ nfaTable' = nfaTable /\ rules' = rules /\ r' = r /\ merged' = merged
  BY DEF Nfa!PassOn, Nfa!PopOperator, Nfa!PushOperator, Nfa!CloseParenthesis, Nfa!FlushOperator, Nfa!StartBuild
<1>3. ~Nfa!infixRead => Nfa!token \in Tokens
  <2>1. rules[r].infix \in Seq(Tokens) BY <1>1, SpecFacts
  <2>2. pos <= Len(rules[r].infix) => rules[r].infix[pos] \in Tokens BY <1>1, <2>1
  <2> QED BY <1>1, <2>1, <2>2 DEF Nfa!infixRead, Nfa!token
<1>4. operators # <<>> => Nfa!Peek(operators) \in Tokens /\ Nfa!Rest(operators) \in Seq(Tokens) BY <1>1, StackFacts
<1>5. operators' \in Seq(Tokens) /\ postfix' \in Seq(Tokens) /\ pos' \in Nat \ {0} /\ pc' \in {"postfix", "build"}
  <2>1. CASE Nfa!PassOn BY <1>1, <1>3, <2>1 DEF Nfa!PassOn
  <2>2. CASE Nfa!PopOperator BY <1>1, <1>4, <2>2 DEF Nfa!PopOperator, Nfa!Pops
  <2>3. CASE Nfa!PushOperator BY <1>1, <1>3, <2>3 DEF Nfa!PushOperator
  <2>4. CASE Nfa!CloseParenthesis BY <1>1, <1>4, <2>4 DEF Nfa!CloseParenthesis
  <2>5. CASE Nfa!FlushOperator BY <1>1, <1>4, <2>5 DEF Nfa!FlushOperator
  <2>6. CASE Nfa!StartBuild BY <1>1, <2>6 DEF Nfa!StartBuild
  <2> QED BY <2>1, <2>2, <2>3, <2>4, <2>5, <2>6
<1>6. /\ Net(nodes)' /\ (fragments \in Seq(Fragment))' /\ (nfaTable \in Seq(Fragment))'
      /\ (rules \in Specs /\ r \in 1..Len(rules))' /\ Len(nfaTable)' = r' - 1
  BY <1>1, <1>2, SameNodes
<1> QED BY <1>5, <1>6 DEF NfaInv

\* More nodes, and all the fragments stay good.
LEMMA MoreNodes ==
  ASSUME NfaInv, Len(nodes) <= Len(nodes'), Net(nodes')
  PROVE  Fragment \subseteq Fragment' /\ nfaTable \in Seq(Fragment') /\ fragments \in Seq(Fragment')
<1>1. Len(nodes) \in Nat /\ Len(nodes') \in Nat BY DEF NfaInv, Net
<1>2. 1..Len(nodes) \subseteq 1..Len(nodes') BY <1>1
<1>3. Fragment \subseteq Fragment' BY <1>2 DEF Fragment
<1>4. nfaTable \in Seq(Fragment) /\ fragments \in Seq(Fragment) BY DEF NfaInv
<1> HIDE DEF Fragment
<1> QED BY <1>3, <1>4

\* buildNFA: an operation takes fragments off the stack and pushes one of the nodes it made or took.
LEMMA BuildKeeps ==
  ASSUME NfaInv, Nfa!Atom \/ Nfa!Concatenate \/ Nfa!Alternate \/ Nfa!Repeat
  PROVE  NfaInv'
<1>1. /\ pc = "build" /\ ~Nfa!postfixRead /\ pos' = pos + 1
      /\ rules' = rules /\ r' = r /\ operators' = operators /\ postfix' = postfix
      /\ nfaTable' = nfaTable /\ merged' = merged /\ pc' = pc
  BY DEF Nfa!Atom, Nfa!Concatenate, Nfa!Alternate, Nfa!Repeat
<1>2. /\ postfix \in Seq(Tokens) /\ pos \in Nat \ {0} /\ fragments \in Seq(Fragment) /\ Net(nodes)
      /\ Len(nodes) \in Nat
  BY DEF NfaInv, Net
<1>3. Nfa!symbol \in Labels /\ "eps" \in Labels BY <1>1, <1>2 DEF Nfa!postfixRead, Nfa!symbol, Labels
<1>4. fragments # <<>> =>
        /\ Nfa!top.start \in 1..Len(nodes) /\ Nfa!top.accept \in 1..Len(nodes)
        /\ Nfa!Rest(fragments) \in Seq(Fragment)
  <2>1. fragments # <<>> => Nfa!top \in Fragment /\ Nfa!Rest(fragments) \in Seq(Fragment)
    BY <1>2, StackFacts DEF Nfa!top
  <2> QED BY <2>1 DEF Fragment
<1>5. Len(fragments) >= 2 =>
        /\ fragments # <<>>
        /\ Nfa!below.start \in 1..Len(nodes) /\ Nfa!below.accept \in 1..Len(nodes)
        /\ Nfa!Rest(Nfa!Rest(fragments)) \in Seq(Fragment)
  <2> SUFFICES ASSUME Len(fragments) >= 2
               PROVE  /\ fragments # <<>>
                      /\ Nfa!below.start \in 1..Len(nodes) /\ Nfa!below.accept \in 1..Len(nodes)
                      /\ Nfa!Rest(Nfa!Rest(fragments)) \in Seq(Fragment)
    OBVIOUS
  <2>1. fragments # <<>> BY <1>2
  <2>2. Nfa!Rest(fragments) \in Seq(Fragment) /\ Nfa!Rest(fragments) # <<>> BY <1>2, <2>1, StackFacts
  <2>3. Nfa!below \in Fragment /\ Nfa!Rest(Nfa!Rest(fragments)) \in Seq(Fragment) BY <2>2, StackFacts DEF Nfa!below
  <2> QED BY <2>1, <2>3 DEF Fragment
<1>6. /\ Net(nodes') /\ Len(nodes) <= Len(nodes')
      /\ \E s \in Seq(Fragment) : \E f \in [start : 1..Len(nodes'), accept : 1..Len(nodes')] : fragments' = Append(s, f)
  <2>1. CASE Nfa!Atom
    <3> DEFINE E == {<<Nfa!symbol, Nfa!newAccept>>}
    <3>1. nodes' = Nfa!NewPair(E) /\ fragments' = Append(fragments, [start |-> Nfa!newStart, accept |-> Nfa!newAccept])
      BY <2>1 DEF Nfa!Atom
    <3>2. E \in SUBSET (Labels \X (1..Len(nodes) + 2)) BY <1>2, <1>3 DEF Nfa!newAccept
    <3>3. Net(nodes') /\ Len(nodes') = Len(nodes) + 2 BY <1>2, <3>1, <3>2, PairOfNodes
    <3>4. Nfa!newStart \in 1..Len(nodes') /\ Nfa!newAccept \in 1..Len(nodes')
      BY <1>2, <3>3 DEF Nfa!newStart, Nfa!newAccept
    <3> DEFINE f == [start |-> Nfa!newStart, accept |-> Nfa!newAccept]
    <3>8. f \in [start : 1..Len(nodes'), accept : 1..Len(nodes')] BY <3>3, <3>4
    <3>9. fragments' = Append(fragments, f) BY <3>1
    <3> HIDE DEF f
    <3>10. fragments \in Seq(Fragment) BY <1>2, <1>4, <1>5, <3>1
    <3>11. \E s \in Seq(Fragment) : \E x \in [start : 1..Len(nodes'), accept : 1..Len(nodes')] : fragments' = Append(s, x)
      BY <3>8, <3>9, <3>10, Zenon
    <3>12. Len(nodes) <= Len(nodes') BY <1>2, <3>3
    <3> QED BY <3>3, <3>11, <3>12, Zenon
  <2>2. CASE Nfa!Concatenate
    <3>1. /\ Len(fragments) >= 2 /\ nodes' = Nfa!Joined(nodes, Nfa!below.accept, {Nfa!top.start})
          /\ fragments' = Append(Nfa!Rest(Nfa!Rest(fragments)), [start |-> Nfa!below.start, accept |-> Nfa!top.accept])
      BY <2>2 DEF Nfa!Concatenate
    <3>2. Net(nodes') /\ Len(nodes') = Len(nodes)
      <4>1. Nfa!below.accept \in 1..Len(nodes) /\ {Nfa!top.start} \in SUBSET (1..Len(nodes)) BY <1>4, <1>5, <3>1
      <4> QED BY <1>2, <3>1, <4>1, JoinedNodes
    <3> DEFINE f == [start |-> Nfa!below.start, accept |-> Nfa!top.accept]
    <3>8. f \in [start : 1..Len(nodes'), accept : 1..Len(nodes')] BY <1>4, <1>5, <3>1, <3>2
    <3>9. fragments' = Append(Nfa!Rest(Nfa!Rest(fragments)), f) BY <3>1
    <3> HIDE DEF f
    <3>10. Nfa!Rest(Nfa!Rest(fragments)) \in Seq(Fragment) BY <1>2, <1>4, <1>5, <3>1
    <3>11. \E s \in Seq(Fragment) : \E x \in [start : 1..Len(nodes'), accept : 1..Len(nodes')] : fragments' = Append(s, x)
      BY <3>8, <3>9, <3>10, Zenon
    <3>12. Len(nodes) <= Len(nodes') BY <1>2, <3>2
    <3> QED BY <3>2, <3>11, <3>12, Zenon
  <2>3. CASE Nfa!Alternate
    <3> DEFINE E == {"eps"} \X {Nfa!below.start, Nfa!top.start}
               one == Nfa!NewPair(E)
               two == Nfa!Joined(one, Nfa!below.accept, {Nfa!newAccept})
    <3>1. /\ Len(fragments) >= 2 /\ nodes' = Nfa!Joined(two, Nfa!top.accept, {Nfa!newAccept})
          /\ fragments' = Append(Nfa!Rest(Nfa!Rest(fragments)), [start |-> Nfa!newStart, accept |-> Nfa!newAccept])
      BY <2>3 DEF Nfa!Alternate
    <3>2. E \in SUBSET (Labels \X (1..Len(nodes) + 2)) BY <1>2, <1>3, <1>4, <1>5, <3>1
    <3>3. Net(one) /\ Len(one) = Len(nodes) + 2 BY <1>2, <3>2, PairOfNodes
    <3>4. Nfa!newAccept = Len(nodes) + 2 /\ Nfa!newStart = Len(nodes) + 1 BY DEF Nfa!newAccept, Nfa!newStart
    <3> HIDE DEF E, one
    <3>5. Net(two) /\ Len(two) = Len(nodes) + 2
      <4>1. Nfa!below.accept \in 1..Len(one) /\ {Nfa!newAccept} \in SUBSET (1..Len(one)) BY <1>2, <1>5, <3>1, <3>3, <3>4
      <4> QED BY <3>3, <4>1, JoinedNodes
    <3> HIDE DEF two
    <3>6. Net(nodes') /\ Len(nodes') = Len(nodes) + 2
      <4>1. Nfa!top.accept \in 1..Len(two) /\ {Nfa!newAccept} \in SUBSET (1..Len(two)) BY <1>2, <1>4, <1>5, <3>1, <3>4, <3>5
      <4> QED BY <3>1, <3>5, <4>1, JoinedNodes
    <3> DEFINE f == [start |-> Nfa!newStart, accept |-> Nfa!newAccept]
    <3>8. f \in [start : 1..Len(nodes'), accept : 1..Len(nodes')] BY <1>2, <1>5, <3>1, <3>4, <3>6
    <3>9. fragments' = Append(Nfa!Rest(Nfa!Rest(fragments)), f) BY <3>1
    <3> HIDE DEF f
    <3>10. Nfa!Rest(Nfa!Rest(fragments)) \in Seq(Fragment) BY <1>2, <1>4, <1>5, <3>1
    <3>11. \E s \in Seq(Fragment) : \E x \in [start : 1..Len(nodes'), accept : 1..Len(nodes')] : fragments' = Append(s, x)
      BY <3>8, <3>9, <3>10, Zenon
    <3>12. Len(nodes) <= Len(nodes') BY <1>2, <3>6
    <3> QED BY <3>6, <3>11, <3>12, Zenon
  <2>4. CASE Nfa!Repeat
    <3> DEFINE E == {"eps"} \X {Nfa!top.start, Nfa!newAccept}
               one == Nfa!NewPair(E)
    <3>1. /\ fragments # <<>> /\ nodes' = Nfa!Joined(one, Nfa!top.accept, {Nfa!top.start, Nfa!newAccept})
          /\ fragments' = Append(Nfa!Rest(fragments), [start |-> Nfa!newStart, accept |-> Nfa!newAccept])
      BY <2>4 DEF Nfa!Repeat
    <3>2. Nfa!newAccept = Len(nodes) + 2 /\ Nfa!newStart = Len(nodes) + 1 BY DEF Nfa!newAccept, Nfa!newStart
    <3>3. E \in SUBSET (Labels \X (1..Len(nodes) + 2)) BY <1>2, <1>3, <1>4, <3>1, <3>2
    <3>4. Net(one) /\ Len(one) = Len(nodes) + 2 BY <1>2, <3>3, PairOfNodes
    <3> HIDE DEF E, one
    <3>5. Net(nodes') /\ Len(nodes') = Len(nodes) + 2
      <4>1. Nfa!top.accept \in 1..Len(one) /\ {Nfa!top.start, Nfa!newAccept} \in SUBSET (1..Len(one))
        BY <1>2, <1>4, <3>1, <3>2, <3>4
      <4> QED BY <3>1, <3>4, <4>1, JoinedNodes
    <3> DEFINE f == [start |-> Nfa!newStart, accept |-> Nfa!newAccept]
    <3>8. f \in [start : 1..Len(nodes'), accept : 1..Len(nodes')] BY <1>2, <1>4, <3>1, <3>2, <3>5
    <3>9. fragments' = Append(Nfa!Rest(fragments), f) BY <3>1
    <3> HIDE DEF f
    <3>10. Nfa!Rest(fragments) \in Seq(Fragment) BY <1>2, <1>4, <1>5, <3>1
    <3>11. \E s \in Seq(Fragment) : \E x \in [start : 1..Len(nodes'), accept : 1..Len(nodes')] : fragments' = Append(s, x)
      BY <3>8, <3>9, <3>10, Zenon
    <3>12. Len(nodes) <= Len(nodes') BY <1>2, <3>5
    <3> QED BY <3>5, <3>11, <3>12, Zenon
  <2> QED BY <2>1, <2>2, <2>3, <2>4
<1>7. Fragment \subseteq Fragment' /\ nfaTable' \in Seq(Fragment') BY <1>1, <1>6, MoreNodes
<1>8. fragments' \in Seq(Fragment')
  <2>1. PICK s \in Seq(Fragment) : \E f \in [start : 1..Len(nodes'), accept : 1..Len(nodes')] : fragments' = Append(s, f)
    BY <1>6
  <2>2. PICK f \in [start : 1..Len(nodes'), accept : 1..Len(nodes')] : fragments' = Append(s, f) BY <2>1
  <2>3. f \in Fragment' BY DEF Fragment
  <2>4. s \in Seq(Fragment') BY <1>7
  <2> QED BY <2>2, <2>3, <2>4
<1> QED BY <1>1, <1>2, <1>6, <1>7, <1>8 DEF NfaInv

\* The automaton of a rule is finished, and after the last rule they are merged.
LEMMA FinishKeeps ==
  ASSUME NfaInv, Nfa!FinishRule \/ Nfa!Merge
  PROVE  NfaInv'
<1>1. /\ pc = "build" /\ Len(fragments) = 1 /\ rules' = rules /\ operators' = operators
      /\ nfaTable' = Append(nfaTable, Nfa!top) /\ fragments' = <<>> /\ postfix' = <<>> /\ pos' = 1
  BY DEF Nfa!FinishRule, Nfa!Merge, Nfa!Recorded
<1>2. /\ fragments \in Seq(Fragment) /\ nfaTable \in Seq(Fragment) /\ Net(nodes) /\ Len(nodes) \in Nat
      /\ nodes \in Seq(Node) /\ rules \in Specs /\ r \in 1..Len(rules) /\ Len(nfaTable) = r - 1
      /\ operators \in Seq(Tokens)
  BY <1>1 DEF NfaInv, Net
<1>3. Nfa!top \in Fragment
  <2>1. fragments # <<>>
    <3> SUFFICES ASSUME fragments = <<>> PROVE FALSE OBVIOUS
    <3>1. Len(fragments) = 0 OBVIOUS
    <3> QED BY <1>1, <3>1
  <2> QED BY <1>2, <2>1, StackFacts DEF Nfa!top
<1>4. Len(rules) \in Nat \ {0} BY <1>2, SpecFacts
<1>5. nfaTable' \in Seq(Fragment) /\ Len(nfaTable') = r BY <1>1, <1>2, <1>3, <1>4
<1>6. CASE Nfa!FinishRule
  <2>1. r < Len(rules) /\ r' = r + 1 /\ pc' = "postfix" /\ nodes' = nodes /\ merged' = merged
    BY <1>6 DEF Nfa!FinishRule
  <2>2. r' \in 1..Len(rules) /\ Len(nfaTable') = r' - 1 BY <1>2, <1>4, <1>5, <2>1
  <2>3. Net(nodes') /\ Fragment' = Fragment BY <1>2, <2>1 DEF Fragment
  <2> QED BY <1>1, <1>2, <1>5, <2>1, <2>2, <2>3 DEF NfaInv
<1>7. CASE Nfa!Merge
  <2> DEFINE E == {<<"eps", nfaTable'[k].start>> : k \in 1..r}
             a == [accepted |-> FALSE, edges |-> E]
  <2>1. r' = r /\ pc' = "done" /\ nodes' = Append(nodes, a) /\ merged' = Len(nodes') BY <1>7 DEF Nfa!Merge
  <2>2. \A k \in 1..r : nfaTable'[k].start \in 1..Len(nodes)
    <3>1. \A k \in 1..r : nfaTable'[k] \in Fragment BY <1>2, <1>4, <1>5
    <3> QED BY <3>1 DEF Fragment
  <2>3. E \in SUBSET (Labels \X (1..Len(nodes))) BY <2>2 DEF Labels
  <2>4. \A e \in E : e[2] \in 1..Len(nodes) BY <2>3
  <2>5. a \in Node BY <1>2, <2>3 DEF Node
  <2>6. a.edges = E OBVIOUS
  <2> HIDE DEF E, a
  <2>7. /\ nodes' \in Seq(Node) /\ Len(nodes') = Len(nodes) + 1 /\ nodes'[Len(nodes) + 1] = a
        /\ \A n \in 1..Len(nodes) : nodes'[n] = nodes[n]
    BY <1>2, <2>1, <2>5
  <2>8. Net(nodes')
    <3>1. \A n \in DOMAIN nodes' : n \in 1..Len(nodes) \/ n = Len(nodes) + 1 BY <1>2, <2>7
    <3>2. \A n \in 1..Len(nodes) : \A e \in nodes[n].edges : e[2] \in 1..Len(nodes) BY <1>2 DEF Net
    <3>3. 1..Len(nodes) \subseteq 1..Len(nodes') BY <1>2, <2>7
    <3> QED BY <2>4, <2>6, <2>7, <3>1, <3>2, <3>3 DEF Net
  <2>9. Fragment \subseteq Fragment' BY <1>2, <2>7, <2>8, MoreNodes
  <2>10. nfaTable' \in Seq(Fragment') BY <1>5, <2>9
  <2>11. merged' \in 1..Len(nodes') BY <1>2, <2>1, <2>7
  <2> QED BY <1>1, <1>2, <2>1, <2>8, <2>10, <2>11 DEF NfaInv
<1> QED BY <1>6, <1>7

LEMMA NfaStepKeeps ==
  ASSUME NfaInv, Nfa!Next
  PROVE  NfaInv'
<1>1. CASE \/ Nfa!PassOn \/ Nfa!PopOperator \/ Nfa!PushOperator
           \/ Nfa!CloseParenthesis \/ Nfa!FlushOperator \/ Nfa!StartBuild
  BY <1>1, PostfixKeeps
<1>2. CASE Nfa!Atom \/ Nfa!Concatenate \/ Nfa!Alternate \/ Nfa!Repeat BY <1>2, BuildKeeps
<1>3. CASE Nfa!FinishRule \/ Nfa!Merge BY <1>3, FinishKeeps
<1>4. CASE Nfa!RejectLiteral
  <2>1. /\ pc' = "threw" /\ pos' = pos /\ operators' = operators /\ postfix' = postfix
        /\ nodes' = nodes /\ fragments' = fragments /\ nfaTable' = nfaTable /\ rules' = rules /\ r' = r
    BY <1>4 DEF Nfa!RejectLiteral
  <2>2. /\ Net(nodes)' /\ (fragments \in Seq(Fragment))' /\ (nfaTable \in Seq(Fragment))'
        /\ (rules \in Specs /\ r \in 1..Len(rules))'
    BY <2>1, SameNodes
  <2> QED BY <2>1, <2>2 DEF NfaInv
<1> QED BY <1>1, <1>2, <1>3, <1>4 DEF Nfa!Next
LEMMA NfaStutters ==
  ASSUME NfaInv, UNCHANGED nfaVars
  PROVE  NfaInv'
<1>1. /\ nodes' = nodes /\ fragments' = fragments /\ nfaTable' = nfaTable /\ rules' = rules /\ r' = r
      /\ pos' = pos /\ pc' = pc /\ operators' = operators /\ postfix' = postfix /\ merged' = merged
  BY DEF nfaVars
<1>2. /\ Net(nodes)' /\ (fragments \in Seq(Fragment))' /\ (nfaTable \in Seq(Fragment))'
      /\ (rules \in Specs /\ r \in 1..Len(rules))'
  BY <1>1, SameNodes
<1> QED BY <1>1, <1>2 DEF NfaInv
-----------------------------------------------------------------------------
(***************************************************************************)
(* The generator.                                                          *)
(***************************************************************************)
LEMMA InitHolds == Init => GeneratorInv
<1> SUFFICES ASSUME Init PROVE GeneratorInv OBVIOUS
<1>1. /\ program \in Programs /\ g = 1 /\ rules = program[1] /\ r = 1 /\ pos = 1
      /\ operators = <<>> /\ postfix = <<>> /\ fragments = <<>> /\ nodes = <<>> /\ nfaTable = <<>> /\ pc = "postfix"
  BY DEF Init, Nfa!Init
<1>2. Len(program) \in Nat \ {0} /\ 1 \in DOMAIN program
  <2>1. IsSequence(program) /\ program # <<>> BY <1>1, RulesAssumption
  <2> QED BY <2>1 DEF IsSequence
<1>3. rules \in Specs BY <1>1, <1>2 DEF Specs
<1>4. Len(rules) \in Nat \ {0} BY <1>3, SpecFacts
<1>5. Net(nodes) BY <1>1 DEF Net
<1>6. NfaInv BY <1>1, <1>3, <1>4, <1>5 DEF NfaInv
<1>7. DfaInv BY DEF Init, DfaInit, DfaInv
<1> QED BY <1>1, <1>2, <1>6, <1>7 DEF GeneratorInv

\* The automaton handed over: its edges lead to nodes of its own.
LEMMA HandoverKeeps ==
  ASSUME GeneratorInv, Handover
  PROVE  GeneratorInv'
<1> DEFINE edges == [n \in DOMAIN nodes |-> nodes[n].edges]
           a == [start |-> merged, edges |-> edges, accepting |-> accepting]
<1>1. /\ pc = "done" /\ dpc = "idle" /\ nfa' = a /\ dpc' = "start" /\ UNCHANGED <<program, g, nfaVars>>
      /\ stateSets' = stateSets /\ transitions' = transitions /\ work' = work /\ at' = at
  BY DEF Handover, Submit
<1>2. nodes \in Seq(Node) /\ Net(nodes) /\ merged \in 1..Len(nodes) /\ Len(nodes) \in Nat
  BY <1>1 DEF GeneratorInv, NfaInv, Net
<1>3. DOMAIN edges = 1..Len(nodes) /\ \A n \in DOMAIN edges : edges[n] = nodes[n].edges BY <1>2
<1>4. a.edges = edges /\ a.start = merged OBVIOUS
<1> HIDE DEF edges, a
<1>5. IsNfa(a) BY <1>2, <1>3, <1>4 DEF IsNfa, Net
<1>6. DfaInv'
  <2>1. stateSets = <<>> /\ transitions = <<>> /\ at = 1 /\ work = <<>> BY <1>1 DEF GeneratorInv, DfaInv
  <2> QED BY <1>1, <1>5, <2>1 DEF DfaInv
<1>7. NfaInv' BY <1>1, NfaStutters DEF GeneratorInv
<1> QED BY <1>1, <1>6, <1>7 DEF GeneratorInv

LEMMA RegenerateKeeps ==
  ASSUME GeneratorInv, Regenerate
  PROVE  GeneratorInv'
<1>1. /\ g < Len(program) /\ g' = g + 1 /\ rules' = program[g'] /\ program' = program /\ Clear
      /\ r' = 1 /\ pos' = 1 /\ operators' = <<>> /\ postfix' = <<>> /\ fragments' = <<>>
      /\ nodes' = <<>> /\ nfaTable' = <<>> /\ pc' = "postfix"
  BY DEF Regenerate
<1>2. program \in Programs /\ Len(program) \in Nat /\ DOMAIN program = 1..Len(program) /\ g \in 1..Len(program)
  BY RulesAssumption DEF GeneratorInv, IsSequence
<1>3. g' \in 1..Len(program) BY <1>1, <1>2
<1>4. rules' \in Specs BY <1>1, <1>2, <1>3 DEF Specs
<1>5. Len(rules') \in Nat \ {0} BY <1>4, SpecFacts
<1>6. Net(nodes') BY <1>1 DEF Net
<1>7. NfaInv' BY <1>1, <1>4, <1>5, <1>6 DEF NfaInv
<1>8. DfaInv' BY <1>1, ClearKeeps DEF GeneratorInv
<1> QED BY <1>1, <1>2, <1>3, <1>7, <1>8 DEF GeneratorInv

LEMMA GeneratorStep == GeneratorInv /\ [Next]_vars => GeneratorInv'
<1> SUFFICES ASSUME GeneratorInv, [Next]_vars PROVE GeneratorInv' OBVIOUS
<1>1. CASE BuildNfa
  <2>1. Nfa!Next /\ UNCHANGED <<program, g, dfaVars>> BY <1>1 DEF BuildNfa
  <2> QED BY <2>1, NfaStepKeeps, DfaStutters DEF GeneratorInv
<1>2. CASE Handover BY <1>2, HandoverKeeps
<1>3. CASE BuildDfa
  <2>1. DfaNext /\ UNCHANGED <<program, g, nfaVars>> BY <1>3 DEF BuildDfa
  <2> QED BY <2>1, DfaStepKeeps, NfaStutters DEF GeneratorInv
<1>4. CASE Regenerate BY <1>4, RegenerateKeeps
<1>5. CASE UNCHANGED vars
  <2>1. UNCHANGED <<program, g, nfaVars, dfaVars>> BY <1>5 DEF vars
  <2> QED BY <2>1, NfaStutters, DfaStutters DEF GeneratorInv
<1> QED BY <1>1, <1>2, <1>3, <1>4, <1>5 DEF Next

\* At every moment the edges of all automata in work lead to nodes that exist, no rule is
\* lost between toPostfix, buildNFA and mergeNFA, and the tables of the subset construction
\* fit its queue.
THEOREM StagesFit == Spec => []GeneratorInv
<1>1. Init => GeneratorInv BY InitHolds
<1>2. GeneratorInv /\ [Next]_vars => GeneratorInv' BY GeneratorStep
<1> QED BY <1>1, <1>2, PTL DEF Spec

LEMMA SetsAreFaithful == GeneratorInv => SubsetsFaithful
<1> SUFFICES ASSUME DfaInv PROVE SubsetsFaithful BY DEF GeneratorInv
<1>1. CASE dpc \in {"idle", "start"}
  <2>1. stateSets = <<>> /\ work = <<>> BY <1>1 DEF DfaInv
  <2>2. States = {} /\ DOMAIN work = {} BY <2>1 DEF States
  <2> QED BY <2>2 DEF SubsetsFaithful
<1>2. CASE dpc \in {"subset", "refine", "done"}
  <2>1. SetsInv /\ IsNfa(nfa) BY <1>2 DEF DfaInv
  <2>2. /\ stateSets \in Seq(Sets) /\ transitions \in Seq(Moves) /\ work \in Seq(Nat)
        /\ Len(transitions) = Len(stateSets) /\ Len(work) <= Len(stateSets)
        /\ Len(stateSets) \in Nat /\ Len(work) \in Nat
    BY <2>1 DEF SetsInv
  <2>3. \A k \in DOMAIN work : work[k] = Len(stateSets) - Len(work) + k BY <2>1 DEF SetsInv, Finished
  <2>4. \A q, t \in States : stateSets[q] = stateSets[t] => q = t BY <2>1 DEF SetsInv
  <2>5. ASSUME NEW q \in States
        PROVE  /\ stateSets[q] # {} /\ Ends(stateSets[q], "eps") \subseteq stateSets[q]
               /\ \A c \in DOMAIN transitions[q] :
                    stateSets[transitions[q][c]] = Eclosure(Ends(stateSets[q], c))
               /\ q \notin {work[k] : k \in DOMAIN work} =>
                    \A k \in DOMAIN chars : Ends(stateSets[q], chars[k]) # {} => chars[k] \in DOMAIN transitions[q]
    <3>1. q \in 1..Len(stateSets) /\ stateSets[q] \in Sets /\ transitions[q] \in Moves BY <2>2 DEF States
    <3>2. DOMAIN transitions[q] \subseteq Letters BY <3>1 DEF Moves
    <3>3. \A c \in Letters \cup {"eps"} :
            behind[<<stateSets[q], c>>] = Ends(stateSets[q], c) /\ Ends(stateSets[q], c) \in Sets
      BY <2>1, <3>1, TableFacts
    <3>4. \A c \in Letters : closure[behind[<<stateSets[q], c>>]] = Eclosure(Ends(stateSets[q], c))
      BY <2>1, <3>3, TableFacts
    <3>5. stateSets[q] # {} /\ Ends(stateSets[q], "eps") \subseteq stateSets[q] BY <2>1, <3>3 DEF SetsInv
    <3>6. \A c \in DOMAIN transitions[q] : stateSets[transitions[q][c]] = Eclosure(Ends(stateSets[q], c))
      BY <2>1, <3>2, <3>4 DEF SetsInv
    <3>7. q \notin {work[k] : k \in DOMAIN work} => q <= Finished
      <4> SUFFICES ASSUME ~(q <= Finished) PROVE q \in {work[k] : k \in DOMAIN work} OBVIOUS
      <4>1. q - Finished \in 1..Len(work) BY <2>2, <3>1 DEF Finished
      <4>2. q - Finished \in DOMAIN work BY <2>2, <4>1
      <4>3. work[q - Finished] = q BY <2>2, <2>3, <3>1, <4>2 DEF Finished
      <4> QED BY <4>2, <4>3
    <3>8. \A k \in DOMAIN chars : chars[k] \in Letters BY CharsAreLetters
    <3> QED BY <2>1, <3>3, <3>5, <3>6, <3>7, <3>8 DEF SetsInv
  <2> QED BY <2>3, <2>4, <2>5 DEF SubsetsFaithful
<1> QED BY <1>1, <1>2 DEF DfaInv

\* The states of the deterministic automaton are distinct sets of nodes, their edges lead
\* where the characters lead, and only states on the queue lack edges.
THEOREM SubsetsAreFaithful == Spec => []SubsetsFaithful
BY StagesFit, SetsAreFaithful, PTL
-----------------------------------------------------------------------------
(***************************************************************************)
(* The order of the signatures.  It is linear, so every set of them has a  *)
(* first, and the loop over a finite set lists each once.                  *)
(***************************************************************************)
Firsts(S)       == \A U \in SUBSET S : U # {} => \E y \in U : \A z \in U \ {y} : Before(y, z)
FirstOf(rest)   == CHOOSE y \in rest : \A z \in rest \ {y} : Before(y, z)
OrderStep(h, rest) == IF rest = {} THEN <<>> ELSE <<FirstOf(rest)>> \o h[rest \ {FirstOf(rest)}]
UpTo(S, n)      == {T \in SUBSET S : Cardinality(T) <= n}
Orders(h, S, n) == h = [rest \in UpTo(S, n) |-> OrderStep(h, rest)]

LEMMA OneSmaller ==
  ASSUME NEW S, IsFiniteSet(S), Firsts(S), NEW n \in Nat, NEW T \in UpTo(S, n), T # {}
  PROVE  /\ FirstOf(T) \in T /\ n - 1 \in Nat /\ T \ {FirstOf(T)} \in UpTo(S, n - 1)
         /\ Cardinality(T \ {FirstOf(T)}) = Cardinality(T) - 1
<1> DEFINE x == FirstOf(T)
<1>1. T \in SUBSET S /\ Cardinality(T) <= n BY DEF UpTo
<1>2. x \in T BY <1>1 DEF Firsts, FirstOf
<1> HIDE DEF x
<1>3. IsFiniteSet(T) /\ T \ {x} \in SUBSET S BY <1>1, FS_Subset
<1>4. Cardinality(T) \in Nat /\ Cardinality(T \ {x}) = Cardinality(T) - 1 /\ Cardinality(T \ {x}) \in Nat
  BY <1>2, <1>3, FS_RemoveElement, FS_CardinalityType
<1>5. n - 1 \in Nat /\ Cardinality(T \ {x}) <= n - 1 BY <1>1, <1>4
<1>6. T \ {x} \in UpTo(S, n - 1) BY <1>3, <1>5 DEF UpTo
<1> QED BY <1>2, <1>4, <1>5, <1>6 DEF x

LEMMA OrderExists ==
  ASSUME NEW S, IsFiniteSet(S), Firsts(S), NEW n \in Nat
  PROVE  \E h : Orders(h, S, n)
<1> DEFINE Bad == {k \in Nat : ~ \E h : Orders(h, S, k)}
<1>1. Bad = {}
  <2> SUFFICES ASSUME Bad # {} PROVE FALSE OBVIOUS
  <2>1. Bad \in SUBSET Nat OBVIOUS
  <2>2. PICK m \in Bad : \A k \in Bad : m <= k BY <2>1, LeastOf
  <2> SUFFICES \E h : Orders(h, S, m) BY <2>2
  <2>3. m \in Nat BY <2>2
  <2>4. CASE m = 0
    <3> DEFINE h == [rest \in UpTo(S, 0) |-> <<>>]
    <3>1. \A T \in UpTo(S, 0) : T = {}
      <4> SUFFICES ASSUME NEW T \in UpTo(S, 0), T # {} PROVE FALSE OBVIOUS
      <4>1. 0 - 1 \in Nat BY OneSmaller
      <4> QED BY <4>1
    <3>2. \A T \in UpTo(S, 0) : OrderStep(h, T) = <<>> BY <3>1 DEF OrderStep
    <3> HIDE DEF h
    <3>3. h = [rest \in UpTo(S, 0) |-> <<>>] BY DEF h
    <3>4. h = [rest \in UpTo(S, 0) |-> OrderStep(h, rest)] BY <3>2, <3>3
    <3> QED BY <2>4, <3>4 DEF Orders
  <2>5. CASE m # 0
    <3>1. m - 1 \in Nat /\ m - 1 \notin Bad
      <4>1. m - 1 \in Nat BY <2>3, <2>5
      <4>2. m - 1 \notin Bad
        <5> HIDE DEF Bad
        <5> QED BY <2>2, <2>3, <4>1
      <4> QED BY <4>1, <4>2
    <3>2. PICK f : Orders(f, S, m - 1) BY <3>1
    <3> DEFINE A == UpTo(S, m - 1)
               h == [rest \in UpTo(S, m) |-> IF rest \in A THEN f[rest] ELSE OrderStep(f, rest)]
    <3>3. A \subseteq UpTo(S, m)
      <4>1. \A T \in SUBSET S : Cardinality(T) \in Nat BY FS_Subset, FS_CardinalityType
      <4> QED BY <2>3, <4>1 DEF UpTo
    <3>4. \A T \in A : f[T] = OrderStep(f, T) BY <3>2 DEF Orders
    <3>5. ASSUME NEW T \in UpTo(S, m) PROVE OrderStep(h, T) = OrderStep(f, T)
      <4>1. CASE T = {} BY <4>1 DEF OrderStep
      <4>2. CASE T # {}
        <5> DEFINE rest == T \ {FirstOf(T)}
        <5>1. rest \in A BY <2>3, <4>2, OneSmaller
        <5>2. h[rest] = f[rest] BY <3>3, <5>1
        <5> HIDE DEF h
        <5> QED BY <4>2, <5>2 DEF OrderStep
      <4> QED BY <4>1, <4>2
    <3>6. \A T \in UpTo(S, m) : h[T] = OrderStep(f, T) BY <3>4
    <3>7. h = [rest \in UpTo(S, m) |-> h[rest]] OBVIOUS
    <3> HIDE DEF h
    <3>8. h = [rest \in UpTo(S, m) |-> OrderStep(h, rest)] BY <3>5, <3>6, <3>7
    <3> QED BY <3>8 DEF Orders
  <2> QED BY <2>4, <2>5
<1> QED BY <1>1

LEMMA MembersOfFront ==
  ASSUME NEW T, NEW s \in Seq(T), NEW x \in T
  PROVE  /\ <<x>> \o s \in Seq(T) /\ Members(<<x>> \o s) = {x} \cup Members(s)
         /\ Distinct(s) /\ x \notin Members(s) => Distinct(<<x>> \o s)
<1> DEFINE t == <<x>> \o s
<1>1. /\ t \in Seq(T) /\ Len(s) \in Nat
      /\ DOMAIN s = 1..Len(s) /\ DOMAIN t = 1..Len(s) + 1
      /\ t[1] = x /\ \A k \in 1..Len(s) : t[k + 1] = s[k]
  OBVIOUS
<1> HIDE DEF t
<1>2. \A k \in 1..Len(s) + 1 : k = 1 \/ (k - 1 \in 1..Len(s) /\ t[k] = s[k - 1] /\ k - 1 \in Int)
  <2> SUFFICES ASSUME NEW k \in 1..Len(s) + 1, k # 1
               PROVE  k - 1 \in 1..Len(s) /\ t[k] = s[k - 1] /\ k - 1 \in Int
    OBVIOUS
  <2>1. k - 1 \in 1..Len(s) /\ (k - 1) + 1 = k /\ k - 1 \in Int BY <1>1
  <2> QED BY <1>1, <2>1
<1>3. \A k \in 1..Len(s) : k + 1 \in 1..Len(s) + 1 BY <1>1
<1>4. 1 \in 1..Len(s) + 1 BY <1>1
<1>5. Members(t) = {x} \cup Members(s)
  <2>1. Members(t) \subseteq {x} \cup Members(s) BY <1>1, <1>2 DEF Members
  <2>2. Members(s) \subseteq Members(t) BY <1>1, <1>3 DEF Members
  <2>3. x \in Members(t) BY <1>1, <1>4 DEF Members
  <2> QED BY <2>1, <2>2, <2>3
<1>6. Distinct(s) /\ x \notin Members(s) => Distinct(t)
  <2> SUFFICES ASSUME Distinct(s), x \notin Members(s), NEW j \in 1..Len(s) + 1, NEW k \in 1..Len(s) + 1,
                      t[j] = t[k]
               PROVE  j = k
    BY <1>1 DEF Distinct
  <2>1. \A i \in 1..Len(s) : s[i] # x BY <1>1 DEF Members
  <2>2. CASE j = 1 \/ k = 1 BY <1>1, <1>2, <2>1, <2>2
  <2>3. CASE j # 1 /\ k # 1
    <3>1. j - 1 \in 1..Len(s) /\ k - 1 \in 1..Len(s) /\ s[j - 1] = s[k - 1] BY <1>2, <2>3
    <3>2. j - 1 = k - 1 BY <1>1, <3>1 DEF Distinct
    <3> QED BY <3>2
  <2> QED BY <2>2, <2>3
<1> QED BY <1>1, <1>5, <1>6 DEF t

LEMMA InOrderFacts ==
  ASSUME NEW S, IsFiniteSet(S), Firsts(S)
  PROVE  InOrder(S) \in Seq(S) /\ Members(InOrder(S)) = S /\ Distinct(InOrder(S))
<1> DEFINE n == Cardinality(S)
           list == CHOOSE h : h = [rest \in SUBSET S |-> OrderStep(h, rest)]
           Good(T) == list[T] \in Seq(T) /\ Members(list[T]) = T /\ Distinct(list[T])
           Bad == {Cardinality(T) : T \in {U \in SUBSET S : ~Good(U)}}
<1>1. InOrder(S) = list[S] BY DEF InOrder, OrderStep, FirstOf
<1>2. n \in Nat /\ UpTo(S, n) = SUBSET S
  <2>1. \A T \in SUBSET S : Cardinality(T) <= n BY FS_Subset
  <2> QED BY <2>1, FS_CardinalityType DEF UpTo
<1>3. list = [rest \in SUBSET S |-> OrderStep(list, rest)] BY <1>2, OrderExists DEF Orders
<1> HIDE DEF list
<1>4. Bad = {}
  <2> SUFFICES ASSUME Bad # {} PROVE FALSE OBVIOUS
  <2>1. \A T \in SUBSET S : IsFiniteSet(T) /\ Cardinality(T) \in Nat BY FS_Subset, FS_CardinalityType
  <2>2. Bad \in SUBSET Nat
    <3> HIDE DEF Good
    <3> QED BY <2>1
  <2>3. PICK m \in Bad : \A k \in Bad : m <= k BY <2>2, LeastOf
  <2>4. PICK T \in SUBSET S : ~Good(T) /\ m = Cardinality(T) BY <2>3
  <2> SUFFICES Good(T) BY <2>4
  <2>5. list[T] = OrderStep(list, T) BY <1>3
  <2>6. CASE T = {}
    <3>1. list[T] = <<>> BY <2>5, <2>6 DEF OrderStep
    <3> QED BY <2>6, <3>1 DEF Members, Distinct
  <2>7. CASE T # {}
    <3> DEFINE x == FirstOf(T)
               U == T \ {x}
    <3>1. T \in UpTo(S, n) BY <1>2
    <3>2. x \in T /\ Cardinality(U) = Cardinality(T) - 1 BY <1>2, <2>7, <3>1, OneSmaller
    <3>3. list[T] = <<x>> \o list[U] BY <2>5, <2>7 DEF OrderStep
    <3> HIDE DEF x
    <3>4. U \in SUBSET S /\ T = U \cup {x} /\ Cardinality(T) \in Nat /\ Cardinality(U) \in Nat BY <2>1, <3>2
    <3>5. Good(U)
      <4> SUFFICES ASSUME ~Good(U) PROVE FALSE OBVIOUS
      <4>1. Cardinality(U) \in Bad
        <5> HIDE DEF Good, U
        <5> QED BY <3>4
      <4>2. m <= Cardinality(U)
        <5> HIDE DEF Bad, Good
        <5> QED BY <2>3, <4>1
      <4> QED BY <2>4, <3>2, <3>4, <4>2
    <3>6. list[U] \in Seq(T) /\ Members(list[U]) = U /\ Distinct(list[U])
      <4>1. list[U] \in Seq(U) /\ U \subseteq T BY <3>5
      <4> QED BY <3>5, <4>1
    <3>7. x \notin Members(list[U]) BY <3>6 DEF U
    <3>8. Members(<<x>> \o list[U]) = {x} \cup U /\ <<x>> \o list[U] \in Seq(T) /\ Distinct(<<x>> \o list[U])
      BY <3>2, <3>6, <3>7, MembersOfFront
    <3> QED BY <3>3, <3>4, <3>8
  <2> QED BY <2>6, <2>7
<1>5. Good(S)
  <2> SUFFICES ASSUME ~Good(S) PROVE FALSE OBVIOUS
  <2>1. Cardinality(S) \in Bad
    <3> HIDE DEF Good
    <3> QED OBVIOUS
  <2> QED BY <1>4, <2>1
<1> QED BY <1>1, <1>5

\* The actions, and the signatures of the states when there are n blocks.
Actions == {Names[k] : k \in DOMAIN Names}
Key     == [action : Actions \cup {NoAction}, targets : [1..Len(chars) -> Nat]]

LEMMA ActionsOrdered ==
  ASSUME NEW x \in Key, NEW y \in Key
  PROVE  /\ ActionOrder(x) \in Nat /\ ActionOrder(y) \in Nat
         /\ ActionOrder(x) = ActionOrder(y) => x.action = y.action
<1> DEFINE Place(z) == {k \in DOMAIN Names : z.action # NoAction /\ \E m \in k..Len(Names) : Names[m] = z.action}
<1>1. Len(Names) \in Nat /\ DOMAIN Names = 1..Len(Names) BY NamesAssumption
<1>2. ASSUME NEW z \in Key, z.action = NoAction PROVE ActionOrder(z) = 0
  <2>1. Place(z) = {} BY <1>2
  <2> QED BY <2>1, FS_EmptySet DEF ActionOrder
<1>3. ASSUME NEW z \in Key, NEW p \in DOMAIN Names, z.action = Names[p] PROVE ActionOrder(z) = p
  <2>1. z.action # NoAction BY <1>3, NamesAssumption
  <2>2. \A k \in DOMAIN Names : (\E m \in k..Len(Names) : Names[m] = z.action) <=> k <= p
    <3> TAKE k \in DOMAIN Names
    <3>1. \A m \in k..Len(Names) : m \in DOMAIN Names BY <1>1
    <3>2. \A m \in k..Len(Names) : Names[m] = z.action => m = p BY <1>3, <3>1, NamesAssumption
    <3>3. k <= p => p \in k..Len(Names) BY <1>1
    <3>4. p \in k..Len(Names) => k <= p BY <1>1
    <3> QED BY <1>3, <3>2, <3>3, <3>4
  <2>3. Place(z) = 1..p BY <1>1, <2>1, <2>2
  <2>4. Cardinality(1..p) = p BY <1>1, FS_Interval
  <2> QED BY <2>3, <2>4 DEF ActionOrder
<1>4. \A z \in Key : z.action = NoAction \/ \E p \in DOMAIN Names : z.action = Names[p] BY DEF Key, Actions
<1>5. \A p \in DOMAIN Names : p \in Nat \ {0} BY <1>1
<1> QED BY <1>2, <1>3, <1>4, <1>5

LEMMA BeforeIsTotal ==
  ASSUME NEW x \in Key, NEW y \in Key, x # y
  PROVE  Before(x, y) \/ Before(y, x)
<1>1. /\ ActionOrder(x) \in Nat /\ ActionOrder(y) \in Nat
      /\ ActionOrder(x) = ActionOrder(y) => x.action = y.action
  BY ActionsOrdered
<1>2. CASE ActionOrder(x) # ActionOrder(y) BY <1>1, <1>2 DEF Before
<1>3. CASE ActionOrder(x) = ActionOrder(y)
  <2> DEFINE D == 1..Len(chars)
             Differs == {k \in D : x.targets[k] # y.targets[k]}
  <2>1. x.targets \in [D -> Nat] /\ y.targets \in [D -> Nat] BY DEF Key
  <2>2. x.targets # y.targets BY <1>1, <1>3 DEF Key
  <2>3. Differs # {} /\ Differs \in SUBSET Nat BY <2>1, <2>2
  <2>4. PICK k \in Differs : \A m \in Differs : k <= m BY <2>3, LeastOf
  <2>5. k \in D /\ x.targets[k] # y.targets[k] /\ x.targets[k] \in Nat /\ y.targets[k] \in Nat BY <2>1, <2>4
  <2>6. \A m \in D : m < k => x.targets[m] = y.targets[m]
    <3> SUFFICES ASSUME NEW m \in D, m < k, x.targets[m] # y.targets[m] PROVE FALSE OBVIOUS
    <3>1. k <= m BY <2>4
    <3> QED BY <2>5, <3>1
  <2>7. x.targets[k] < y.targets[k] \/ y.targets[k] < x.targets[k] BY <2>5
  <2>8. DOMAIN x.targets = D /\ DOMAIN y.targets = D BY <2>1
  <2> HIDE DEF D, Differs
  <2> QED BY <1>3, <2>5, <2>6, <2>7, <2>8 DEF Before
<1> QED BY <1>2, <1>3

LEMMA BeforeIsTransitive ==
  ASSUME NEW x \in Key, NEW y \in Key, NEW z \in Key, Before(x, y), Before(y, z)
  PROVE  Before(x, z)
<1> DEFINE D == 1..Len(chars)
           Lex(u, v, k) == u.targets[k] < v.targets[k] /\ \A m \in D : m < k => u.targets[m] = v.targets[m]
<1>1. ActionOrder(x) \in Nat /\ ActionOrder(y) \in Nat /\ ActionOrder(z) \in Nat BY ActionsOrdered
<1>2. \A u \in Key : u.targets \in [D -> Nat] /\ DOMAIN u.targets = D BY DEF Key
<1>3. \A u, v \in Key : Before(u, v) <=>
        ActionOrder(u) < ActionOrder(v) \/ (ActionOrder(u) = ActionOrder(v) /\ \E k \in D : Lex(u, v, k))
  BY <1>2 DEF Before
<1>4. CASE ActionOrder(x) < ActionOrder(y) \/ ActionOrder(y) < ActionOrder(z)
  <2>1. ActionOrder(x) <= ActionOrder(y) /\ ActionOrder(y) <= ActionOrder(z)
    <3> HIDE DEF Lex
    <3> QED BY <1>1, <1>3
  <2>2. ActionOrder(x) < ActionOrder(z) BY <1>1, <1>4, <2>1
  <2> QED BY <1>3, <2>2
<1>5. CASE ~(ActionOrder(x) < ActionOrder(y) \/ ActionOrder(y) < ActionOrder(z))
  <2>1. /\ ActionOrder(x) = ActionOrder(y) /\ ActionOrder(y) = ActionOrder(z)
        /\ \E j \in D : Lex(x, y, j)
        /\ \E k \in D : Lex(y, z, k)
    <3> HIDE DEF Lex
    <3> QED BY <1>3, <1>5
  <2>2. PICK j \in D : Lex(x, y, j) BY <2>1
  <2>3. PICK k \in D : Lex(y, z, k) BY <2>1
  <2>4. \A m \in D : m \in Int /\ x.targets[m] \in Nat /\ y.targets[m] \in Nat /\ z.targets[m] \in Nat BY <1>2
  <2>5. CASE j <= k
    <3>1. x.targets[j] < y.targets[j] /\ y.targets[j] <= z.targets[j]
      <4>1. j = k \/ j < k BY <2>4, <2>5
      <4> QED BY <2>2, <2>3, <2>4, <4>1
    <3>2. \A m \in D : m < j => m < k /\ x.targets[m] = z.targets[m]
      <4>1. \A m \in D : m < j => m < k BY <2>4, <2>5
      <4> QED BY <2>2, <2>3, <4>1
    <3>3. Lex(x, z, j) BY <2>4, <3>1, <3>2
    <3> HIDE DEF Lex
    <3> QED BY <1>3, <2>1, <3>3
  <2>6. CASE ~ j <= k
    <3>1. k < j BY <2>4, <2>6
    <3>2. x.targets[k] = y.targets[k] /\ y.targets[k] < z.targets[k] BY <2>2, <2>3, <3>1
    <3>3. \A m \in D : m < k => x.targets[m] = z.targets[m]
      <4>1. \A m \in D : m < k => m < j BY <2>4, <3>1
      <4> QED BY <2>2, <2>3, <4>1
    <3>4. Lex(x, z, k) BY <3>2, <3>3
    <3> HIDE DEF Lex
    <3> QED BY <1>3, <2>1, <3>4
  <2> QED BY <2>5, <2>6
<1> QED BY <1>4, <1>5

\* By the size of the smallest set that has no first.
LEMMA KeysHaveFirsts ==
  ASSUME NEW S \in SUBSET Key, IsFiniteSet(S)
  PROVE  Firsts(S)
<1> DEFINE HasFirst(U) == \E y \in U : \A z \in U \ {y} : Before(y, z)
           Bad == {Cardinality(U) : U \in {V \in SUBSET S : V # {} /\ ~HasFirst(V)}}
<1>1. \A U \in SUBSET S : IsFiniteSet(U) /\ Cardinality(U) \in Nat BY FS_Subset, FS_CardinalityType
<1>2. Bad = {}
  <2> SUFFICES ASSUME Bad # {} PROVE FALSE OBVIOUS
  <2>1. Bad \in SUBSET Nat
    <3> HIDE DEF HasFirst
    <3> QED BY <1>1
  <2>2. PICK m \in Bad : \A k \in Bad : m <= k BY <2>1, LeastOf
  <2>3. PICK U \in SUBSET S : U # {} /\ ~HasFirst(U) /\ m = Cardinality(U)
    <3> HIDE DEF HasFirst
    <3> QED BY <2>2
  <2>4. PICK x \in U : TRUE BY <2>3
  <2> DEFINE V == U \ {x}
  <2>5. V \in SUBSET S /\ Cardinality(V) = Cardinality(U) - 1 BY <1>1, <2>3, FS_RemoveElement
  <2>6. V # {}
    <3> SUFFICES ASSUME V = {} PROVE FALSE OBVIOUS
    <3>1. HasFirst(U) OBVIOUS
    <3> QED BY <2>3, <3>1
  <2>7. HasFirst(V)
    <3> SUFFICES ASSUME ~HasFirst(V) PROVE FALSE OBVIOUS
    <3>1. Cardinality(V) \in Bad
      <4> HIDE DEF HasFirst, V
      <4> QED BY <2>5, <2>6
    <3>2. m <= Cardinality(V)
      <4> HIDE DEF Bad, HasFirst
      <4> QED BY <2>2, <3>1
    <3> QED BY <1>1, <2>3, <2>5, <3>2
  <2>8. PICK y \in V : \A z \in V \ {y} : Before(y, z) BY <2>7
  <2>9. x \in Key /\ y \in Key /\ x # y /\ y \in U BY <2>3, <2>5, <2>8
  <2>10. CASE Before(y, x)
    <3>1. \A z \in U \ {y} : Before(y, z) BY <2>8, <2>10
    <3> QED BY <2>3, <2>9, <3>1
  <2>11. CASE Before(x, y)
    <3>1. \A z \in U \ {x} : Before(x, z)
      <4> TAKE z \in U \ {x}
      <4>1. CASE z = y BY <2>11, <4>1
      <4>2. CASE z # y
        <5>1. Before(y, z) /\ z \in Key BY <2>3, <2>8, <4>2
        <5> QED BY <2>9, <2>11, <5>1, BeforeIsTransitive
      <4> QED BY <4>1, <4>2
    <3> QED BY <2>3, <2>4, <3>1
  <2> QED BY <2>9, <2>10, <2>11, BeforeIsTotal
<1>3. \A U \in SUBSET S : U # {} => HasFirst(U)
  <2> HIDE DEF HasFirst
  <2> QED BY <1>2
<1> QED BY <1>3 DEF Firsts

-----------------------------------------------------------------------------
(***************************************************************************)
(* Same is the largest relation of its kind.                               *)
(***************************************************************************)
Pairs     == States \X States
SameNames == {p \in Pairs : acceptActions[p[1]] = acceptActions[p[2]]}

LEMMA AlikeGrows ==
  ASSUME NEW P, NEW Q, P \subseteq Q
  PROVE  Alike(P) \subseteq Alike(Q) /\ Alike(P) \subseteq P
BY DEF Alike

LEMMA SameRounds ==
  ASSUME Len(stateSets) \in Nat
  PROVE  LET limit == Cardinality(Pairs)
         IN  /\ limit \in Nat /\ IsFiniteSet(Pairs)
             /\ \E h \in [0..limit -> SUBSET Pairs] :
                  /\ h[0] = SameNames /\ Same = h[limit]
                  /\ \A n \in 1..limit : h[n] = Alike(h[n - 1])
<1> DEFINE limit == Cardinality(Pairs)
           D == SUBSET Pairs
           F == [y \in D \X (1..limit) |-> Alike(y[1])]
           step(h, n) == IF n = 0 THEN {p \in Pairs : acceptActions[p[1]] = acceptActions[p[2]]}
                         ELSE UNION {{p : p \in Alike(P)} : P \in {h[n - 1]}}
           left == CHOOSE h : h = [n \in 0..limit |-> step(h, n)]
<1>1. limit \in Nat /\ IsFiniteSet(Pairs)
  <2>1. IsFiniteSet(States) BY FS_Interval DEF States
  <2>2. IsFiniteSet(Pairs) BY <2>1, FS_Product DEF Pairs
  <2> QED BY <2>2, FS_CardinalityType
<1>2. Same = left[limit] BY DEF Same, Pairs
<1>3. \A U \in D : Alike(U) \in D BY AlikeGrows
<1>4. F \in [D \X (1..limit) -> D] BY <1>3
<1>5. \A h, n : step(h, n) = IF n = 0 THEN SameNames ELSE Alike(h[n - 1]) BY DEF SameNames
<1> HIDE DEF limit, step, D
<1>6. \A h : Iterates(h, limit, F, SameNames) /\ h \in [0..limit -> D] => h = [n \in 0..limit |-> step(h, n)]
  <2> SUFFICES ASSUME NEW h \in [0..limit -> D], Iterates(h, limit, F, SameNames)
               PROVE  h = [n \in 0..limit |-> step(h, n)]
    OBVIOUS
  <2>1. h = [n \in 0..limit |-> IF n = 0 THEN SameNames ELSE F[<<h[n - 1], n>>]] BY DEF Iterates
  <2>2. \A n \in 0..limit : n # 0 => <<h[n - 1], n>> \in D \X (1..limit) BY <1>1
  <2>3. \A n \in 0..limit : h[n] = step(h, n) BY <1>5, <2>1, <2>2
  <2> QED BY <2>1, <2>3
<1>7. SameNames \in D BY DEF D, SameNames
<1>8. \E f \in [0..limit -> D] : Iterates(f, limit, F, SameNames) BY <1>1, <1>4, <1>7, IterationExists
<1>9. left = [n \in 0..limit |-> step(left, n)] BY <1>6, <1>8
<1> HIDE DEF left, F
<1> DEFINE T == {n \in 0..limit : left[n] \notin D}
<1>10. T = {}
  <2> SUFFICES ASSUME T # {} PROVE FALSE OBVIOUS
  <2>1. T \in SUBSET Nat BY <1>1
  <2>2. PICK m \in T : \A k \in T : m <= k BY <2>1, LeastOf
  <2>3. left[m] = IF m = 0 THEN SameNames ELSE Alike(left[m - 1]) BY <1>5, <1>9, <2>2
  <2>4. m # 0 BY <1>7, <2>2, <2>3
  <2>5. m - 1 \in 0..limit /\ m - 1 \notin T BY <1>1, <2>2, <2>4
  <2> QED BY <1>3, <2>2, <2>3, <2>4, <2>5 DEF D
<1>11. left \in [0..limit -> D] BY <1>9, <1>10
<1>12. left[0] = SameNames /\ \A n \in 1..limit : left[n] = Alike(left[n - 1])
  BY <1>1, <1>5, <1>9
<1> QED BY <1>1, <1>2, <1>11, <1>12 DEF limit, D

\* A round that takes nothing away is the last one that could, and there are as many rounds
\* as pairs.
LEMMA SameFacts ==
  ASSUME Len(stateSets) \in Nat
  PROVE  /\ Same \in SUBSET SameNames /\ Alike(Same) = Same
         /\ \A B \in SUBSET SameNames : B \subseteq Alike(B) => B \subseteq Same
<1> DEFINE limit == Cardinality(Pairs)
<1>1. limit \in Nat /\ IsFiniteSet(Pairs) BY SameRounds
<1>2. PICK h \in [0..limit -> SUBSET Pairs] :
        /\ h[0] = SameNames /\ Same = h[limit]
        /\ \A n \in 1..limit : h[n] = Alike(h[n - 1])
  BY SameRounds
<1> HIDE DEF limit
<1>3. \A U \in SUBSET Pairs : IsFiniteSet(U) /\ Cardinality(U) \in Nat /\ (Cardinality(U) <= 0 => U = {})
  BY <1>1, FS_Subset, FS_CardinalityType, FS_EmptySet
<1> DEFINE stable(n) == Alike(h[n]) = h[n]
           T == {n \in 0..limit : ~(h[n] \subseteq SameNames /\ (stable(n) \/ Cardinality(h[n]) + n <= limit))}
<1>4. T = {}
  <2> SUFFICES ASSUME T # {} PROVE FALSE OBVIOUS
  <2>1. T \in SUBSET Nat BY <1>1
  <2>2. PICK m \in T : \A k \in T : m <= k BY <2>1, LeastOf
  <2>3. m # 0
    <3> SUFFICES ASSUME m = 0 PROVE FALSE OBVIOUS
    <3>1. h[0] \in SUBSET Pairs BY <1>1
    <3>2. Cardinality(h[0]) <= limit /\ Cardinality(h[0]) \in Nat BY <1>1, <1>3, <3>1, FS_Subset DEF limit
    <3>3. Cardinality(h[0]) + 0 <= limit BY <1>1, <3>2
    <3> QED BY <1>2, <2>2, <3>3
  <2>4. m \in 1..limit /\ m - 1 \in 0..limit /\ m - 1 \notin T BY <1>1, <2>2, <2>3
  <2>5. h[m - 1] \subseteq SameNames /\ (stable(m - 1) \/ Cardinality(h[m - 1]) + (m - 1) <= limit) BY <2>4
  <2>6. h[m] = Alike(h[m - 1]) BY <1>2, <2>4
  <2>7. h[m - 1] \in SUBSET Pairs /\ h[m] \in SUBSET Pairs BY <2>4
  <2>8. CASE stable(m - 1)
    <3>1. h[m] = h[m - 1] BY <2>6, <2>8
    <3> QED BY <2>2, <2>5, <2>8, <3>1
  <2>9. CASE ~stable(m - 1)
    <3>1. h[m] \subseteq h[m - 1] /\ h[m - 1] # h[m] BY <2>6, <2>9, AlikeGrows
    <3>2. IsFiniteSet(h[m - 1]) /\ Cardinality(h[m]) \in Nat /\ Cardinality(h[m - 1]) \in Nat BY <1>3, <2>7
    <3>3. Cardinality(h[m]) <= Cardinality(h[m - 1]) /\ Cardinality(h[m - 1]) # Cardinality(h[m])
      BY <3>1, <3>2, FS_Subset
    <3>4. Cardinality(h[m - 1]) + (m - 1) <= limit BY <2>5, <2>9
    <3>5. Cardinality(h[m]) + m <= limit BY <1>1, <2>4, <3>2, <3>3, <3>4
    <3> QED BY <2>2, <2>5, <3>1, <3>5
  <2> QED BY <2>8, <2>9
<1>5. limit \in 0..limit /\ h[limit] \in SUBSET Pairs BY <1>1
<1>6. h[limit] \subseteq SameNames /\ (stable(limit) \/ Cardinality(h[limit]) + limit <= limit) BY <1>4, <1>5
<1>7. stable(limit)
  <2>1. CASE Cardinality(h[limit]) + limit <= limit
    <3>1. Cardinality(h[limit]) \in Nat BY <1>3, <1>5
    <3>2. Cardinality(h[limit]) <= 0 BY <1>1, <2>1, <3>1
    <3>3. h[limit] = {} BY <1>3, <1>5, <3>2
    <3> QED BY <3>3, AlikeGrows
  <2> QED BY <1>6, <2>1
<1>8. ASSUME NEW B \in SUBSET SameNames, B \subseteq Alike(B) PROVE B \subseteq Same
  <2> DEFINE Lost == {n \in 0..limit : ~(B \subseteq h[n])}
  <2>1. Lost = {}
    <3> SUFFICES ASSUME Lost # {} PROVE FALSE OBVIOUS
    <3>1. Lost \in SUBSET Nat BY <1>1
    <3>2. PICK m \in Lost : \A k \in Lost : m <= k BY <3>1, LeastOf
    <3>3. m # 0 BY <1>2, <3>2
    <3>4. m \in 1..limit /\ m - 1 \in 0..limit /\ m - 1 \notin Lost BY <1>1, <3>2, <3>3
    <3>5. B \subseteq h[m - 1] /\ h[m] = Alike(h[m - 1]) BY <1>2, <3>4
    <3>6. B \subseteq h[m] BY <1>8, <3>5, AlikeGrows
    <3> QED BY <3>2, <3>6
  <2> QED BY <1>2, <1>5, <2>1
<1> QED BY <1>2, <1>6, <1>7, <1>8

-----------------------------------------------------------------------------
(***************************************************************************)
(* The blocks of the minimizer: lists that share out the states.           *)
(***************************************************************************)
Separates(ps, S) ==
  /\ ps \in Seq(Seq(States))
  /\ \A k \in DOMAIN ps : ps[k] # <<>> /\ Members(ps[k]) \subseteq S
  /\ \A q \in S : \E k \in DOMAIN ps : q \in Members(ps[k])
  /\ \A j, k \in DOMAIN ps : \A q \in S : q \in Members(ps[j]) /\ q \in Members(ps[k]) => j = k
Together(ps, q, t) == \E k \in DOMAIN ps : q \in Members(ps[k]) /\ t \in Members(ps[k])

\* One list behind another.
LEMMA JoinedLists ==
  ASSUME NEW T, NEW a \in Seq(T), NEW b \in Seq(T)
  PROVE  /\ a \o b \in Seq(T) /\ Len(a \o b) = Len(a) + Len(b)
         /\ \A k \in DOMAIN a : k \in DOMAIN (a \o b) /\ (a \o b)[k] = a[k]
         /\ \A k \in DOMAIN b : Len(a) + k \in DOMAIN (a \o b) /\ (a \o b)[Len(a) + k] = b[k]
         /\ \A k \in DOMAIN (a \o b) : k \in DOMAIN a \/ \E j \in DOMAIN b : k = Len(a) + j
<1> DEFINE t == a \o b
<1>1. /\ t \in Seq(T) /\ Len(t) = Len(a) + Len(b) /\ Len(a) \in Nat /\ Len(b) \in Nat
      /\ DOMAIN a = 1..Len(a) /\ DOMAIN b = 1..Len(b) /\ DOMAIN t = 1..(Len(a) + Len(b))
  OBVIOUS
<1>2. \A k \in 1..Len(a) : t[k] = a[k] OBVIOUS
<1>3. \A k \in 1..Len(b) : t[Len(a) + k] = b[k]
  <2> TAKE k \in 1..Len(b)
  <2>1. Len(a) + k \in 1..(Len(a) + Len(b)) /\ ~(Len(a) + k <= Len(a)) /\ (Len(a) + k) - Len(a) = k BY <1>1
  <2> QED BY <1>1, <2>1
<1> HIDE DEF t
<1>4. \A k \in 1..Len(b) : Len(a) + k \in DOMAIN t BY <1>1
<1>5. \A k \in DOMAIN t : k \in DOMAIN a \/ \E j \in DOMAIN b : k = Len(a) + j
  <2> SUFFICES ASSUME NEW k \in DOMAIN t, k \notin DOMAIN a PROVE \E j \in DOMAIN b : k = Len(a) + j OBVIOUS
  <2>1. k - Len(a) \in DOMAIN b /\ k = Len(a) + (k - Len(a)) BY <1>1
  <2> QED BY <2>1
<1>6. \A k \in DOMAIN a : k \in DOMAIN t BY <1>1
<1> QED BY <1>1, <1>2, <1>3, <1>4, <1>5, <1>6 DEF t

LEMMA JoinedBlocks ==
  ASSUME NEW S, NEW U, S \cap U = {}, NEW a, NEW b, Separates(a, S), Separates(b, U)
  PROVE  /\ Separates(a \o b, S \cup U)
         /\ \A q, t : Together(a \o b, q, t) <=> Together(a, q, t) \/ Together(b, q, t)
<1> DEFINE c == a \o b
<1>1. a \in Seq(Seq(States)) /\ b \in Seq(Seq(States)) BY DEF Separates
<1>2. /\ c \in Seq(Seq(States)) /\ Len(a) \in Nat
      /\ \A k \in DOMAIN a : k \in DOMAIN c /\ c[k] = a[k]
      /\ \A k \in DOMAIN b : Len(a) + k \in DOMAIN c /\ c[Len(a) + k] = b[k]
      /\ \A k \in DOMAIN c : k \in DOMAIN a \/ \E j \in DOMAIN b : k = Len(a) + j
  BY <1>1, JoinedLists
<1> HIDE DEF c
<1>3. \A k \in DOMAIN c : (k \in DOMAIN a /\ c[k] = a[k]) \/ \E j \in DOMAIN b : k = Len(a) + j /\ c[k] = b[j]
  BY <1>2
<1>4. /\ \A k \in DOMAIN a : a[k] # <<>> /\ Members(a[k]) \subseteq S
      /\ \A k \in DOMAIN b : b[k] # <<>> /\ Members(b[k]) \subseteq U
      /\ \A q \in S : \E k \in DOMAIN a : q \in Members(a[k])
      /\ \A q \in U : \E k \in DOMAIN b : q \in Members(b[k])
      /\ \A j, k \in DOMAIN a : \A q \in S : q \in Members(a[j]) /\ q \in Members(a[k]) => j = k
      /\ \A j, k \in DOMAIN b : \A q \in U : q \in Members(b[j]) /\ q \in Members(b[k]) => j = k
  BY DEF Separates
<1>5. \A k \in DOMAIN c : c[k] # <<>> /\ Members(c[k]) \subseteq S \cup U BY <1>3, <1>4
<1>6. \A q \in S \cup U : \E k \in DOMAIN c : q \in Members(c[k])
  <2>1. \A q \in S : \E k \in DOMAIN c : q \in Members(c[k]) BY <1>2, <1>4
  <2>2. \A q \in U : \E k \in DOMAIN c : q \in Members(c[k]) BY <1>2, <1>4
  <2> QED BY <2>1, <2>2
<1>7. \A j, k \in DOMAIN c : \A q \in S \cup U : q \in Members(c[j]) /\ q \in Members(c[k]) => j = k
  <2> SUFFICES ASSUME NEW j \in DOMAIN c, NEW k \in DOMAIN c, NEW q, q \in Members(c[j]), q \in Members(c[k])
               PROVE  j = k
    OBVIOUS
  <2>1. CASE q \in S
    <3>1. j \in DOMAIN a /\ c[j] = a[j] BY <1>3, <1>4, <2>1
    <3>2. k \in DOMAIN a /\ c[k] = a[k] BY <1>3, <1>4, <2>1
    <3> QED BY <1>4, <2>1, <3>1, <3>2
  <2>2. CASE q \notin S
    <3>1. PICK i \in DOMAIN b : j = Len(a) + i /\ c[j] = b[i] BY <1>3, <1>4, <2>2
    <3>2. PICK l \in DOMAIN b : k = Len(a) + l /\ c[k] = b[l] BY <1>3, <1>4, <2>2
    <3>3. q \in U BY <1>4, <3>1
    <3> QED BY <1>4, <3>1, <3>2, <3>3
  <2> QED BY <2>1, <2>2
<1>8. \A q, t : Together(c, q, t) <=> Together(a, q, t) \/ Together(b, q, t)
  <2> TAKE q, t
  <2>1. Together(c, q, t) => Together(a, q, t) \/ Together(b, q, t) BY <1>3 DEF Together
  <2>2. Together(a, q, t) => Together(c, q, t) BY <1>2 DEF Together
  <2>3. Together(b, q, t) => Together(c, q, t) BY <1>2 DEF Together
  <2> QED BY <2>1, <2>2, <2>3
<1> QED BY <1>2, <1>5, <1>6, <1>7, <1>8 DEF Separates, c

BlockOf(ps, q) == CHOOSE p \in 1..Len(ps) : \E k \in 1..Len(ps[p]) : ps[p][k] = q

LEMMA BlockFacts ==
  ASSUME NEW ps, Separates(ps, States)
  PROVE  /\ \A q \in States :
              /\ BlockOf(ps, q) \in 1..Len(ps) /\ q \in Members(ps[BlockOf(ps, q)])
              /\ \A p \in 1..Len(ps) : q \in Members(ps[p]) => p = BlockOf(ps, q)
         /\ \A q, t \in States : Together(ps, q, t) <=> BlockOf(ps, q) = BlockOf(ps, t)
<1>1. ps \in Seq(Seq(States)) /\ DOMAIN ps = 1..Len(ps) BY DEF Separates
<1>2. \A p \in 1..Len(ps) : DOMAIN ps[p] = 1..Len(ps[p])
  <2> TAKE p \in 1..Len(ps)
  <2>1. ps[p] \in Seq(States) BY <1>1
  <2> QED BY <2>1
<1>3. \A p \in 1..Len(ps) : \A q : q \in Members(ps[p]) <=> \E k \in 1..Len(ps[p]) : ps[p][k] = q
  BY <1>2 DEF Members
<1>4. \A q \in States : \E p \in 1..Len(ps) : q \in Members(ps[p]) BY <1>1 DEF Separates
<1>5. \A q \in States : BlockOf(ps, q) \in 1..Len(ps) /\ q \in Members(ps[BlockOf(ps, q)])
  <2> TAKE q \in States
  <2>1. \E p \in 1..Len(ps) : \E k \in 1..Len(ps[p]) : ps[p][k] = q BY <1>3, <1>4
  <2>2. BlockOf(ps, q) \in 1..Len(ps) /\ \E k \in 1..Len(ps[BlockOf(ps, q)]) : ps[BlockOf(ps, q)][k] = q
    BY <2>1 DEF BlockOf
  <2> QED BY <1>3, <2>2
<1>6. \A q \in States : \A p \in 1..Len(ps) : q \in Members(ps[p]) => p = BlockOf(ps, q)
  BY <1>1, <1>5 DEF Separates
<1>7. \A q, t \in States : Together(ps, q, t) <=> BlockOf(ps, q) = BlockOf(ps, t)
  BY <1>1, <1>5, <1>6 DEF Together
<1> QED BY <1>5, <1>6, <1>7

LEMMA SortedFacts ==
  ASSUME Len(stateSets) \in Nat, NEW S \in SUBSET States
  PROVE  Sorted(S) \in Seq(States) /\ Members(Sorted(S)) = S
<1> DEFINE all == [q \in States |-> q]
<1>1. all \in Seq(States) /\ Members(all) = States BY DEF States, Members
<1>2. Those(all, S) \in Seq(States) /\ Members(Those(all, S)) = Members(all) \cap S BY <1>1, ThoseFacts
<1> QED BY <1>1, <1>2 DEF Sorted

\* What the minimizer finds.
TablesInv ==
  /\ acceptActions \in Seq(Actions \cup {NoAction}) /\ Len(acceptActions) = Len(stateSets)
  /\ \A q \in States : DOMAIN transitions[q] \subseteq Members(chars)

LEMMA FirstBlocksFacts ==
  ASSUME Len(stateSets) \in Nat, TablesInv
  PROVE  /\ Separates(FirstBlocks, States)
         /\ \A q, t \in States : acceptActions[q] = acceptActions[t] => Together(FirstBlocks, q, t)
<1> DEFINE taken  == {acceptActions[q] : q \in Accepting}
           used   == Those(Names, taken)
           blocks == [k \in 1..Len(used) |-> Sorted({q \in Accepting : acceptActions[q] = used[k]})]
           others == States \ Accepting
<1>1. Accepting \subseteq States /\ taken \subseteq Actions
  <2>1. \A q \in States : acceptActions[q] \in Actions \cup {NoAction} BY DEF TablesInv, States
  <2> QED BY <2>1 DEF Accepting
<1>2. Names \in Seq(Actions) /\ Members(Names) = Actions /\ Distinct(Names)
  BY NamesAssumption DEF Actions, Members, Distinct
<1>3. used \in Seq(Actions) /\ Members(used) = taken /\ Distinct(used) BY <1>1, <1>2, ThoseFacts
<1> HIDE DEF used
<1>4. Len(used) \in Nat /\ DOMAIN used = 1..Len(used) BY <1>3
<1>5. \A k \in 1..Len(used) :
        /\ blocks[k] \in Seq(States)
        /\ Members(blocks[k]) = {q \in Accepting : acceptActions[q] = used[k]}
  <2> TAKE k \in 1..Len(used)
  <2>1. {q \in Accepting : acceptActions[q] = used[k]} \in SUBSET States BY <1>1
  <2> QED BY <2>1, SortedFacts
<1>6. blocks = [k \in 1..Len(used) |-> blocks[k]] OBVIOUS
<1> HIDE DEF blocks
<1>7. blocks \in Seq(Seq(States)) /\ DOMAIN blocks = 1..Len(used)
  <2>1. blocks \in [1..Len(used) -> Seq(States)] BY <1>5, <1>6
  <2> QED BY <1>4, <2>1
<1>8. \A k \in 1..Len(used) : blocks[k] # <<>>
  <2> TAKE k \in 1..Len(used)
  <2>1. used[k] \in taken BY <1>3, <1>4 DEF Members
  <2>2. PICK q \in Accepting : acceptActions[q] = used[k] BY <2>1
  <2>3. q \in Members(blocks[k]) BY <1>5, <2>2
  <2> QED BY <2>3 DEF Members
<1>9. \A q \in Accepting : \E k \in 1..Len(used) : used[k] = acceptActions[q] BY <1>3, <1>4 DEF Members
<1>10. Separates(blocks, Accepting)
  <2>1. \A q \in Accepting : \E k \in DOMAIN blocks : q \in Members(blocks[k]) BY <1>5, <1>7, <1>9
  <2>2. \A j, k \in DOMAIN blocks : \A q \in Accepting : q \in Members(blocks[j]) /\ q \in Members(blocks[k]) => j = k
    <3> SUFFICES ASSUME NEW j \in DOMAIN blocks, NEW k \in DOMAIN blocks, NEW q,
                        q \in Members(blocks[j]), q \in Members(blocks[k])
                 PROVE  j = k
      OBVIOUS
    <3>1. used[j] = acceptActions[q] /\ used[k] = acceptActions[q] BY <1>5, <1>7
    <3> QED BY <1>3, <1>4, <1>7, <3>1 DEF Distinct
  <2>3. \A k \in DOMAIN blocks : blocks[k] # <<>> /\ Members(blocks[k]) \subseteq Accepting BY <1>5, <1>7, <1>8
  <2> QED BY <1>7, <2>1, <2>2, <2>3 DEF Separates
<1>11. \A q, t \in Accepting : acceptActions[q] = acceptActions[t] => Together(blocks, q, t)
  BY <1>5, <1>7, <1>9 DEF Together
<1>12. FirstBlocks = IF Accepting = States THEN blocks ELSE <<Sorted(others)>> \o blocks
  BY DEF FirstBlocks, blocks, used
<1>13. CASE Accepting = States BY <1>10, <1>11, <1>12, <1>13
<1>14. CASE Accepting # States
  <2> DEFINE rest == Sorted(others)
  <2>1. rest \in Seq(States) /\ Members(rest) = others BY SortedFacts
  <2>2. others # {} BY <1>1, <1>14
  <2> HIDE DEF rest
  <2>3. rest # <<>> BY <2>1, <2>2 DEF Members
  <2>4. <<rest>> \in Seq(Seq(States)) /\ DOMAIN <<rest>> = {1} /\ <<rest>>[1] = rest BY <2>1
  <2>5. Separates(<<rest>>, others) BY <2>1, <2>3, <2>4 DEF Separates
  <2>6. \A q, t \in others : Together(<<rest>>, q, t) BY <2>1, <2>4 DEF Together
  <2>7. /\ Separates(<<rest>> \o blocks, others \cup Accepting)
        /\ \A q, t : Together(<<rest>> \o blocks, q, t) <=> Together(<<rest>>, q, t) \/ Together(blocks, q, t)
    <3>1. others \cap Accepting = {} OBVIOUS
    <3> QED BY <1>10, <2>5, <3>1, JoinedBlocks
  <2>8. others \cup Accepting = States BY <1>1
  <2>9. \A q, t \in States : acceptActions[q] = acceptActions[t] =>
          (q \in others /\ t \in others) \/ (q \in Accepting /\ t \in Accepting)
    BY DEF Accepting
  <2> QED BY <1>11, <1>12, <1>14, <2>6, <2>7, <2>8, <2>9 DEF rest
<1> QED BY <1>13, <1>14

-----------------------------------------------------------------------------
(***************************************************************************)
(* The passes of the minimizer, for any lists of blocks.                   *)
(***************************************************************************)
\* The signature of a state.
Mark(ps, q) ==
  [action  |-> acceptActions[q],
   targets |-> [k \in 1..Len(chars) |->
                  IF chars[k] \in DOMAIN transitions[q] THEN BlockOf(ps, transitions[q][chars[k]]) ELSE NoBlock]]

Minimizable == SetsInv /\ TablesInv

LEMMA MinimizableFacts ==
  ASSUME Minimizable
  PROVE  /\ Len(stateSets) \in Nat /\ States = 1..Len(stateSets)
         /\ Len(chars) \in Nat /\ DOMAIN chars = 1..Len(chars)
         /\ \A q \in States : acceptActions[q] \in Actions \cup {NoAction}
         /\ \A q \in States : \A c \in DOMAIN transitions[q] :
              transitions[q][c] \in States /\ \E k \in 1..Len(chars) : chars[k] = c
<1>1. chars \in Seq(Letters) BY CharsAreLetters
<1>2. Len(chars) \in Nat /\ DOMAIN chars = 1..Len(chars) BY <1>1
<1>3. stateSets \in Seq(Sets) BY DEF Minimizable, SetsInv
<1>4. Len(stateSets) \in Nat /\ States = 1..Len(stateSets) BY <1>3 DEF States
<1>5. \A q \in States : acceptActions[q] \in Actions \cup {NoAction} BY <1>4 DEF Minimizable, TablesInv
<1>6. \A q \in States : \A c \in DOMAIN transitions[q] : \E k \in 1..Len(chars) : chars[k] = c
  BY <1>2 DEF Minimizable, TablesInv, Members
<1>7. \A q \in States : \A c \in DOMAIN transitions[q] : transitions[q][c] \in States
  BY DEF Minimizable, SetsInv
<1> QED BY <1>2, <1>4, <1>5, <1>6, <1>7

\* States have the same signature when their actions are the same, and the characters of
\* their edges, which lead to the same blocks.
LEMMA MarkFacts ==
  ASSUME Minimizable, NEW ps, Separates(ps, States), NEW q \in States
  PROVE  /\ Mark(ps, q) \in Key
         /\ \A t \in States :
              Mark(ps, q) = Mark(ps, t) <=>
                /\ acceptActions[q] = acceptActions[t] /\ DOMAIN transitions[q] = DOMAIN transitions[t]
                /\ \A c \in DOMAIN transitions[q] : Together(ps, transitions[q][c], transitions[t][c])
<1> DEFINE D == 1..Len(chars)
           to(t, k) == IF chars[k] \in DOMAIN transitions[t] THEN BlockOf(ps, transitions[t][chars[k]]) ELSE NoBlock
           targets(t) == [k \in D |-> to(t, k)]
<1>1. /\ Len(chars) \in Nat /\ Len(stateSets) \in Nat
      /\ \A t \in States : acceptActions[t] \in Actions \cup {NoAction}
      /\ \A t \in States : \A c \in DOMAIN transitions[t] :
           transitions[t][c] \in States /\ \E k \in D : chars[k] = c
  BY MinimizableFacts
<1>2. /\ \A t \in States : BlockOf(ps, t) \in 1..Len(ps)
      /\ \A t, u \in States : Together(ps, t, u) <=> BlockOf(ps, t) = BlockOf(ps, u)
  BY BlockFacts
<1>3. Len(ps) \in Nat BY DEF Separates
<1>4. \A t \in States : \A c \in DOMAIN transitions[t] :
        BlockOf(ps, transitions[t][c]) \in Nat /\ BlockOf(ps, transitions[t][c]) # NoBlock
  BY <1>1, <1>2, <1>3 DEF NoBlock
<1>5. \A t \in States : \A k \in D : to(t, k) \in Nat BY <1>4 DEF NoBlock
<1>6. \A t \in States : Mark(ps, t) = [action |-> acceptActions[t], targets |-> targets(t)] BY DEF Mark
<1>7. Mark(ps, q) \in Key
  <2>1. targets(q) \in [D -> Nat] BY <1>5
  <2> HIDE DEF targets
  <2> QED BY <1>1, <1>6, <2>1 DEF Key
<1>8. ASSUME NEW t \in States
      PROVE  Mark(ps, q) = Mark(ps, t) <=>
                /\ acceptActions[q] = acceptActions[t] /\ DOMAIN transitions[q] = DOMAIN transitions[t]
                /\ \A c \in DOMAIN transitions[q] : Together(ps, transitions[q][c], transitions[t][c])
  <2>1. Mark(ps, q) = Mark(ps, t) <=> acceptActions[q] = acceptActions[t] /\ targets(q) = targets(t)
    <3> HIDE DEF targets
    <3> QED BY <1>6
  <2>2. targets(q) = targets(t) <=> \A k \in D : to(q, k) = to(t, k)
    <3> HIDE DEF to
    <3>1. (\A k \in D : to(q, k) = to(t, k)) => targets(q) = targets(t) OBVIOUS
    <3>2. targets(q) = targets(t) => \A k \in D : to(q, k) = to(t, k)
      <4>1. \A k \in D : targets(q)[k] = to(q, k) /\ targets(t)[k] = to(t, k) OBVIOUS
      <4> HIDE DEF targets
      <4> QED BY <4>1
    <3> QED BY <3>1, <3>2
  <2> HIDE DEF targets
  <2>3. ASSUME \A k \in D : to(q, k) = to(t, k)
        PROVE  /\ DOMAIN transitions[q] = DOMAIN transitions[t]
               /\ \A c \in DOMAIN transitions[q] : Together(ps, transitions[q][c], transitions[t][c])
    <3>1. \A c \in DOMAIN transitions[q] :
            c \in DOMAIN transitions[t] /\ BlockOf(ps, transitions[q][c]) = BlockOf(ps, transitions[t][c])
      BY <1>1, <1>4, <2>3
    <3>2. \A c \in DOMAIN transitions[t] : c \in DOMAIN transitions[q] BY <1>1, <1>4, <2>3
    <3> QED BY <1>1, <1>2, <3>1, <3>2
  <2>4. ASSUME DOMAIN transitions[q] = DOMAIN transitions[t],
               \A c \in DOMAIN transitions[q] : Together(ps, transitions[q][c], transitions[t][c])
        PROVE  \A k \in D : to(q, k) = to(t, k)
    BY <1>1, <1>2, <2>4
  <2> QED BY <2>1, <2>2, <2>3, <2>4
<1> QED BY <1>7, <1>8

MarksOf(ps, b)  == {Mark(ps, ps[b][k]) : k \in DOMAIN ps[b]}
OrdersOf(ps, b) == InOrder(MarksOf(ps, b))
Buckets(ps, b)  ==
  [j \in DOMAIN OrdersOf(ps, b) |-> Those(ps[b], {q \in States : Mark(ps, q) = OrdersOf(ps, b)[j]})]

\* RefineGroup shares a block out by the signatures, and leaves it alone when there is only one.
LEMMA BucketFacts ==
  ASSUME Minimizable, NEW ps, Separates(ps, States), NEW b \in 1..Len(ps)
  PROVE  /\ Separates(Buckets(ps, b), Members(ps[b]))
         /\ \A q, t \in Members(ps[b]) : Together(Buckets(ps, b), q, t) <=> Mark(ps, q) = Mark(ps, t)
         /\ ~(Len(OrdersOf(ps, b)) > 1) => Len(Buckets(ps, b)) = 1 /\ Buckets(ps, b)[1] = ps[b]
<1> DEFINE block   == ps[b]
           marks   == MarksOf(ps, b)
           orders  == OrdersOf(ps, b)
           with(j) == {q \in States : Mark(ps, q) = orders[j]}
           buckets == Buckets(ps, b)
<1>1. block \in Seq(States) /\ block # <<>>
  <2>1. ps \in Seq(Seq(States)) /\ b \in DOMAIN ps BY DEF Separates
  <2> QED BY <2>1 DEF Separates
<1>2. \A q \in States : Mark(ps, q) \in Key BY MarkFacts
<1>3. marks = {Mark(ps, block[k]) : k \in DOMAIN block} BY DEF MarksOf
<1>4. orders = InOrder(marks) BY DEF OrdersOf
<1>5. buckets = [j \in DOMAIN orders |-> Those(block, with(j))] BY DEF Buckets
<1> HIDE DEF block, marks, orders, buckets
<1>6. Len(block) \in Nat /\ DOMAIN block = 1..Len(block) /\ \A k \in 1..Len(block) : block[k] \in States BY <1>1
<1>7. marks \in SUBSET Key BY <1>2, <1>3, <1>6
<1>8. IsFiniteSet(marks)
  <2> DEFINE f == [k \in 1..Len(block) |-> Mark(ps, block[k])]
  <2>1. f \in Surjection(1..Len(block), marks) BY <1>3, <1>6 DEF Surjection
  <2>2. IsFiniteSet(1..Len(block)) BY <1>6, FS_Interval
  <2> HIDE DEF f
  <2> QED BY <2>1, <2>2, FS_Surjection
<1>9. orders \in Seq(marks) /\ Members(orders) = marks /\ Distinct(orders)
  BY <1>4, <1>7, <1>8, KeysHaveFirsts, InOrderFacts
<1>10. Len(orders) \in Nat /\ DOMAIN orders = 1..Len(orders) BY <1>9
<1>11. DOMAIN buckets = 1..Len(orders) BY <1>5, <1>10
<1>12. ASSUME NEW j \in 1..Len(orders)
       PROVE  /\ buckets[j] \in Seq(States)
              /\ Members(buckets[j]) = {q \in Members(block) : Mark(ps, q) = orders[j]}
              /\ (\A q \in Members(block) : Mark(ps, q) = orders[j]) => buckets[j] = block
  <2>1. buckets[j] = Those(block, with(j)) BY <1>5, <1>10
  <2>2. Members(block) \subseteq States BY <1>6 DEF Members
  <2>3. \A q \in States : q \in with(j) <=> Mark(ps, q) = orders[j] OBVIOUS
  <2> HIDE DEF with
  <2>4. /\ Those(block, with(j)) \in Seq(States) /\ Members(Those(block, with(j))) = Members(block) \cap with(j)
        /\ Members(block) \subseteq with(j) => Those(block, with(j)) = block
    BY <1>1, ThoseFacts
  <2>5. Members(buckets[j]) = {q \in Members(block) : Mark(ps, q) = orders[j]} BY <2>1, <2>2, <2>3, <2>4
  <2>6. (\A q \in Members(block) : Mark(ps, q) = orders[j]) => Members(block) \subseteq with(j) BY <2>2, <2>3
  <2> QED BY <2>1, <2>4, <2>5, <2>6
<1>13. buckets \in Seq(Seq(States)) /\ Len(buckets) = Len(orders)
  <2>1. buckets = [j \in 1..Len(orders) |-> buckets[j]] BY <1>5, <1>11
  <2>2. buckets \in [1..Len(orders) -> Seq(States)] BY <1>12, <2>1
  <2> QED BY <1>10, <2>2
\* Every state of the block is in the bucket of its signature, and in no other.
<1>14. \A q \in Members(block) : \E j \in 1..Len(orders) : orders[j] = Mark(ps, q)
  BY <1>3, <1>9, <1>10 DEF Members
<1>15. \A j \in 1..Len(orders) : \E q \in Members(block) : orders[j] = Mark(ps, q)
  BY <1>3, <1>9, <1>10 DEF Members
<1>16. Separates(buckets, Members(block))
  <2>1. \A j \in DOMAIN buckets : buckets[j] # <<>> /\ Members(buckets[j]) \subseteq Members(block)
    <3> TAKE j \in DOMAIN buckets
    <3>1. PICK q \in Members(block) : orders[j] = Mark(ps, q) BY <1>11, <1>15
    <3>2. q \in Members(buckets[j]) BY <1>11, <1>12, <3>1
    <3>3. buckets[j] # <<>> BY <3>2 DEF Members
    <3> QED BY <1>11, <1>12, <3>3
  <2>2. \A q \in Members(block) : \E j \in DOMAIN buckets : q \in Members(buckets[j]) BY <1>11, <1>12, <1>14
  <2>3. \A j, k \in DOMAIN buckets : \A q \in Members(block) :
          q \in Members(buckets[j]) /\ q \in Members(buckets[k]) => j = k
    <3> SUFFICES ASSUME NEW j \in DOMAIN buckets, NEW k \in DOMAIN buckets, NEW q,
                        q \in Members(buckets[j]), q \in Members(buckets[k])
                 PROVE  j = k
      OBVIOUS
    <3>1. orders[j] = Mark(ps, q) /\ orders[k] = Mark(ps, q) BY <1>11, <1>12
    <3> QED BY <1>9, <1>10, <1>11, <3>1 DEF Distinct
  <2> QED BY <1>13, <2>1, <2>2, <2>3 DEF Separates
<1>17. ASSUME NEW q \in Members(block), NEW t \in Members(block)
       PROVE  Together(buckets, q, t) <=> Mark(ps, q) = Mark(ps, t)
  <2>1. Together(buckets, q, t) => Mark(ps, q) = Mark(ps, t) BY <1>11, <1>12 DEF Together
  <2>2. Mark(ps, q) = Mark(ps, t) => Together(buckets, q, t) BY <1>11, <1>12, <1>14 DEF Together
  <2> QED BY <2>1, <2>2
<1>18. ASSUME ~(Len(orders) > 1)
       PROVE  Len(buckets) = 1 /\ buckets[1] = block
  <2>1. 1 \in DOMAIN block /\ block[1] \in Members(block) BY <1>1, <1>6 DEF Members
  <2>2. Len(orders) = 1 BY <1>10, <1>14, <1>18, <2>1
  <2>3. \A q \in Members(block) : Mark(ps, q) = orders[1] BY <1>14, <2>2
  <2> QED BY <1>12, <1>13, <2>2, <2>3
<1> QED BY <1>16, <1>17, <1>18 DEF block, orders, buckets

Front(ps, n) == UNION {Members(ps[p]) : p \in 1..n - 1}

\* The blocks qs of a pass that has looked at the blocks in front of the n-th.
Passed(ps, qs, n) ==
  /\ n \in 1..Len(ps) + 1
  /\ Separates(qs, Front(ps, n))
  /\ \A q, t \in Front(ps, n) : Together(qs, q, t) <=> Together(ps, q, t) /\ Mark(ps, q) = Mark(ps, t)

\* Blocks that keep the states together that no word tells apart.
Blocks(ps) == Separates(ps, States) /\ \A p \in Same : Together(ps, p[1], p[2])

LEMMA FrontFacts ==
  ASSUME Minimizable, NEW ps, Separates(ps, States)
  PROVE  /\ Len(ps) \in Nat /\ Front(ps, 1) = {} /\ Front(ps, Len(ps) + 1) = States
         /\ \A n \in 1..Len(ps) :
              /\ Front(ps, n + 1) = Front(ps, n) \cup Members(ps[n]) /\ Front(ps, n) \cap Members(ps[n]) = {}
              /\ \A q \in Front(ps, n) : \A t \in Members(ps[n]) : ~Together(ps, q, t) /\ ~Together(ps, t, q)
              /\ \A q, t \in Members(ps[n]) : Together(ps, q, t)
<1>1. /\ Len(ps) \in Nat /\ DOMAIN ps = 1..Len(ps)
      /\ \A k \in DOMAIN ps : Members(ps[k]) \subseteq States
      /\ \A q \in States : \E k \in DOMAIN ps : q \in Members(ps[k])
      /\ \A j, k \in DOMAIN ps : \A q \in States : q \in Members(ps[j]) /\ q \in Members(ps[k]) => j = k
  BY DEF Separates
<1>2. Front(ps, 1) = {}
  <2>1. 1..1 - 1 = {} OBVIOUS
  <2> QED BY <2>1 DEF Front
<1>3. Front(ps, Len(ps) + 1) = States
  <2>1. (Len(ps) + 1) - 1 = Len(ps) BY <1>1
  <2> QED BY <1>1, <2>1 DEF Front
<1>4. ASSUME NEW n \in 1..Len(ps)
      PROVE  /\ Front(ps, n + 1) = Front(ps, n) \cup Members(ps[n]) /\ Front(ps, n) \cap Members(ps[n]) = {}
             /\ \A q \in Front(ps, n) : \A t \in Members(ps[n]) : ~Together(ps, q, t) /\ ~Together(ps, t, q)
             /\ \A q, t \in Members(ps[n]) : Together(ps, q, t)
  <2>1. 1..(n + 1) - 1 = (1..n - 1) \cup {n} /\ n \notin 1..n - 1 /\ 1..n - 1 \subseteq 1..Len(ps) BY <1>1
  <2>2. Front(ps, n + 1) = Front(ps, n) \cup Members(ps[n])
    <3> DEFINE all(N) == UNION {Members(ps[p]) : p \in N}
    <3>1. all((1..n - 1) \cup {n}) = all(1..n - 1) \cup Members(ps[n]) OBVIOUS
    <3>2. Front(ps, n + 1) = all((1..n - 1) \cup {n}) /\ Front(ps, n) = all(1..n - 1) BY <2>1 DEF Front
    <3> HIDE DEF all
    <3> QED BY <3>1, <3>2
  <2>3. \A q \in Front(ps, n) : \E p \in 1..n - 1 : q \in Members(ps[p]) BY DEF Front
  <2>4. Front(ps, n) \cap Members(ps[n]) = {}
    <3> SUFFICES ASSUME NEW q, q \in Front(ps, n), q \in Members(ps[n]) PROVE FALSE OBVIOUS
    <3>1. PICK p \in 1..n - 1 : q \in Members(ps[p]) BY <2>3
    <3> QED BY <1>1, <2>1, <3>1
  <2>5. \A q \in Front(ps, n) : \A t \in Members(ps[n]) : ~Together(ps, q, t) /\ ~Together(ps, t, q)
    BY <1>1, <2>4 DEF Together
  <2>6. \A q, t \in Members(ps[n]) : Together(ps, q, t) BY <1>1 DEF Together
  <2> QED BY <2>2, <2>4, <2>5, <2>6
<1> QED BY <1>1, <1>2, <1>3, <1>4

LEMMA PassStarts ==
  ASSUME Minimizable, NEW ps, Separates(ps, States)
  PROVE  Passed(ps, <<>>, 1)
<1>1. 1 \in 1..Len(ps) + 1 /\ Front(ps, 1) = {}
  <2>1. Len(ps) \in Nat /\ Front(ps, 1) = {} BY FrontFacts
  <2> QED BY <2>1
<1>2. Separates(<<>>, Front(ps, 1)) BY <1>1 DEF Separates
<1>3. \A q, t \in Front(ps, 1) : FALSE BY <1>1
<1> QED BY <1>1, <1>2, <1>3 DEF Passed

LEMMA PassGoesOn ==
  ASSUME Minimizable, NEW ps, Separates(ps, States), NEW qs, NEW n, Passed(ps, qs, n), n <= Len(ps)
  PROVE  Passed(ps, qs \o Buckets(ps, n), n + 1)
<1> DEFINE S == Front(ps, n)
           U == Members(ps[n])
           new == Buckets(ps, n)
<1>1. Len(ps) \in Nat BY FrontFacts
<1>2. n \in 1..Len(ps) /\ n + 1 \in 1..Len(ps) + 1 BY <1>1 DEF Passed
<1>3. /\ Front(ps, n + 1) = S \cup U /\ S \cap U = {}
      /\ \A q \in S : \A t \in U : ~Together(ps, q, t) /\ ~Together(ps, t, q)
      /\ \A q, t \in U : Together(ps, q, t)
  BY <1>2, FrontFacts
<1>4. Separates(new, U) /\ \A q, t \in U : Together(new, q, t) <=> Mark(ps, q) = Mark(ps, t)
  BY <1>2, BucketFacts
<1>5. Separates(qs, S) /\ \A q, t \in S : Together(qs, q, t) <=> Together(ps, q, t) /\ Mark(ps, q) = Mark(ps, t)
  BY DEF Passed
<1> HIDE DEF S, U, new
<1>6. /\ Separates(qs \o new, S \cup U)
      /\ \A q, t : Together(qs \o new, q, t) <=> Together(qs, q, t) \/ Together(new, q, t)
  BY <1>3, <1>4, <1>5, JoinedBlocks
<1>7. /\ \A q, t : Together(qs, q, t) => q \in S /\ t \in S
      /\ \A q, t : Together(new, q, t) => q \in U /\ t \in U
  BY <1>4, <1>5 DEF Together, Separates
<1>8. \A q, t \in S \cup U : Together(qs \o new, q, t) <=> Together(ps, q, t) /\ Mark(ps, q) = Mark(ps, t)
  <2> TAKE q, t \in S \cup U
  <2>1. CASE q \in S /\ t \in S BY <1>3, <1>5, <1>6, <1>7, <2>1
  <2>2. CASE q \in U /\ t \in U BY <1>3, <1>4, <1>6, <1>7, <2>2
  <2>3. CASE q \in S /\ t \in U BY <1>3, <1>6, <1>7, <2>3
  <2>4. CASE q \in U /\ t \in S BY <1>3, <1>6, <1>7, <2>4
  <2> QED BY <2>1, <2>2, <2>3, <2>4
<1> QED BY <1>2, <1>3, <1>6, <1>8 DEF Passed, new

\* A pass keeps together what no word tells apart.
LEMMA PassKeeps ==
  ASSUME Minimizable, NEW ps, Blocks(ps), NEW qs, Passed(ps, qs, Len(ps) + 1)
  PROVE  Blocks(qs)
<1>1. Separates(ps, States) BY DEF Blocks
<1>2. Front(ps, Len(ps) + 1) = States BY <1>1, FrontFacts
<1>3. Separates(qs, States) /\ \A q, t \in States : Together(qs, q, t) <=> Together(ps, q, t) /\ Mark(ps, q) = Mark(ps, t)
  BY <1>2 DEF Passed
<1>4. Same \in SUBSET SameNames /\ Alike(Same) = Same BY MinimizableFacts, SameFacts
<1>5. ASSUME NEW p \in Same PROVE Together(qs, p[1], p[2])
  <2>1. p[1] \in States /\ p[2] \in States /\ acceptActions[p[1]] = acceptActions[p[2]]
    BY <1>4 DEF SameNames, Pairs
  <2>2. DOMAIN transitions[p[1]] = DOMAIN transitions[p[2]]
    BY <1>4 DEF Alike
  <2>3. \A c \in DOMAIN transitions[p[1]] : Together(ps, transitions[p[1]][c], transitions[p[2]][c])
    <3> TAKE c \in DOMAIN transitions[p[1]]
    <3> DEFINE e == <<transitions[p[1]][c], transitions[p[2]][c]>>
    <3>1. e \in Same BY <1>4 DEF Alike
    <3>2. Together(ps, e[1], e[2]) BY <3>1 DEF Blocks
    <3> QED BY <3>2
  <2>4. Mark(ps, p[1]) = Mark(ps, p[2]) BY <1>1, <2>1, <2>2, <2>3, MarkFacts
  <2>5. Together(ps, p[1], p[2]) BY DEF Blocks
  <2> QED BY <1>3, <2>1, <2>4, <2>5
<1> QED BY <1>3, <1>5 DEF Blocks

\* A pass that changes nothing has told everything apart.
LEMMA QuietPass ==
  ASSUME Minimizable, NEW ps, Blocks(ps), Passed(ps, ps, Len(ps) + 1)
  PROVE  /\ Same = {p \in States \X States : Together(ps, p[1], p[2])}
         /\ \A q, t \in States : Together(ps, q, t) => Mark(ps, q) = Mark(ps, t)
<1> DEFINE B == {p \in States \X States : Together(ps, p[1], p[2])}
<1>1. Separates(ps, States) BY DEF Blocks
<1>2. Front(ps, Len(ps) + 1) = States BY <1>1, FrontFacts
<1>3. \A q, t \in States : Together(ps, q, t) => Mark(ps, q) = Mark(ps, t) BY <1>2 DEF Passed
<1>4. /\ Same \in SUBSET SameNames
      /\ \A C \in SUBSET SameNames : C \subseteq Alike(C) => C \subseteq Same
  BY MinimizableFacts, SameFacts
<1>5. Same \subseteq B BY <1>4 DEF Blocks, SameNames, Pairs
<1>6. ASSUME NEW p \in B
      PROVE  /\ p \in SameNames /\ DOMAIN transitions[p[1]] = DOMAIN transitions[p[2]]
             /\ \A c \in DOMAIN transitions[p[1]] : <<transitions[p[1]][c], transitions[p[2]][c]>> \in B
  <2>1. p \in States \X States /\ p[1] \in States /\ p[2] \in States /\ Mark(ps, p[1]) = Mark(ps, p[2]) BY <1>3
  <2>2. /\ acceptActions[p[1]] = acceptActions[p[2]] /\ DOMAIN transitions[p[1]] = DOMAIN transitions[p[2]]
        /\ \A c \in DOMAIN transitions[p[1]] : Together(ps, transitions[p[1]][c], transitions[p[2]][c])
    BY <1>1, <2>1, MarkFacts
  <2>3. /\ \A c \in DOMAIN transitions[p[1]] : transitions[p[1]][c] \in States
        /\ \A c \in DOMAIN transitions[p[2]] : transitions[p[2]][c] \in States
    BY <2>1, MinimizableFacts
  <2>4. \A c \in DOMAIN transitions[p[1]] : <<transitions[p[1]][c], transitions[p[2]][c]>> \in B BY <2>2, <2>3
  <2> QED BY <2>1, <2>2, <2>4 DEF SameNames, Pairs
<1> HIDE DEF B
<1>7. B \subseteq SameNames /\ B \subseteq Alike(B) BY <1>6 DEF Alike
<1>8. B \subseteq Same BY <1>4, <1>7
<1> QED BY <1>3, <1>5, <1>8 DEF B
-----------------------------------------------------------------------------
(***************************************************************************)
(* The actions of the rules, on their way to the states.                   *)
(***************************************************************************)
OfRules(a) == \A n \in DOMAIN a : a[n].action \in Actions /\ a[n].priority \in Nat
ActionsInv == OfRules(accepting) /\ (dpc # "idle" => OfRules(nfa.accepting))

LEMMA RecordedActions ==
  ASSUME NfaInv, OfRules(accepting), Nfa!Next
  PROVE  OfRules(accepting')
<1>1. CASE Nfa!FinishRule \/ Nfa!Merge
  <2>1. accepting' = [n \in DOMAIN accepting \cup {Nfa!top.accept} |->
                        IF n = Nfa!top.accept THEN [action |-> rules[r].action, priority |-> r - 1] ELSE accepting[n]]
    BY <1>1 DEF Nfa!FinishRule, Nfa!Merge, Nfa!Recorded
  <2>2. rules \in Specs /\ r \in 1..Len(rules) BY DEF NfaInv
  <2>3. Len(rules) \in Nat /\ DOMAIN rules = 1..Len(rules) BY <2>2, SpecFacts
  <2>4. rules[r].action \in Actions
    <3>1. PICK p \in Programs : \E k \in DOMAIN p : rules = p[k] BY <2>2 DEF Specs
    <3> QED BY <2>2, <2>3, <3>1, RulesAssumption DEF Actions
  <2>5. r - 1 \in Nat BY <2>2, <2>3
  <2> QED BY <2>1, <2>4, <2>5 DEF OfRules
<1>2. CASE ~(Nfa!FinishRule \/ Nfa!Merge)
  <2>1. accepting' = accepting
    BY <1>2 DEF Nfa!Next, Nfa!PassOn, Nfa!PopOperator, Nfa!PushOperator, Nfa!CloseParenthesis, Nfa!FlushOperator,
                Nfa!StartBuild, Nfa!Atom, Nfa!RejectLiteral, Nfa!Concatenate, Nfa!Alternate, Nfa!Repeat
  <2> QED BY <2>1
<1> QED BY <1>1, <1>2

LEMMA PickedActions ==
  ASSUME OfRules(nfa.accepting), NEW S
  PROVE  PickAction(S) \in Actions \cup {NoAction}
<1> DEFINE ends == S \cap DOMAIN nfa.accepting
           first(n) == \A m \in ends : nfa.accepting[n].priority <= nfa.accepting[m].priority
           picked == CHOOSE n \in ends : first(n)
<1>1. PickAction(S) = IF ends = {} THEN NoAction ELSE nfa.accepting[picked].action BY DEF PickAction
<1>2. CASE ends = {} BY <1>1, <1>2
<1>3. CASE ends # {}
  <2> DEFINE T == {nfa.accepting[n].priority : n \in ends}
  <2>1. T \in SUBSET Nat /\ T # {} BY <1>3 DEF OfRules
  <2>2. PICK m \in T : \A k \in T : m <= k BY <2>1, LeastOf
  <2>3. \E n \in ends : first(n) BY <2>2
  <2>4. picked \in ends BY <2>3
  <2> HIDE DEF picked
  <2> QED BY <1>1, <1>3, <2>4 DEF OfRules
<1> QED BY <1>2, <1>3

-----------------------------------------------------------------------------
(***************************************************************************)
(* The minimizer at work.                                                  *)
(***************************************************************************)
RefineInv ==
  /\ mindfareturn = <<>> /\ terTable = [q \in Accepting |-> acceptActions[q]]
  /\ Blocks(partitions) /\ Passed(partitions, refined, group)
  /\ ~changed => Len(refined) = group - 1 /\ \A p \in 1..group - 1 : refined[p] = partitions[p]

\* The automaton m is that of the blocks ps.
IsMinimal(ps, m) ==
  /\ Same = {p \in States \X States : BlockOf(ps, p[1]) = BlockOf(ps, p[2])}
  /\ m.start = BlockOf(ps, 1) /\ DOMAIN m.next = {BlockOf(ps, q) : q \in States}
  /\ \A q \in States :
       /\ m.next[BlockOf(ps, q)] = [c \in DOMAIN transitions[q] |-> BlockOf(ps, transitions[q][c])]
       /\ acceptActions[q] = IF BlockOf(ps, q) \in DOMAIN m.accepting THEN m.accepting[BlockOf(ps, q)] ELSE NoAction

MinimizerInv ==
  /\ dpc \in {"idle", "start", "subset"} => mindfareturn = <<>>
  /\ dpc \in {"subset", "refine", "done"} => TablesInv
  /\ dpc = "refine" => RefineInv
  /\ dpc = "done" => IsMinimal(partitions, minimal)

LEMMA SameTables ==
  ASSUME UNCHANGED <<nfa, stateSets, transitions, acceptActions>>
  PROVE  chars' = chars /\ States' = States /\ Accepting' = Accepting /\ Same' = Same
<1>1. chars' = chars BY DEF chars
<1>2. States' = States BY DEF States
<1>3. Accepting' = Accepting BY <1>2 DEF Accepting
<1>4. Same' = Same BY <1>2 DEF Same, Alike
<1> QED BY <1>1, <1>2, <1>3, <1>4

LEMMA TablesStay ==
  ASSUME TablesInv, UNCHANGED <<nfa, stateSets, transitions, acceptActions>>
  PROVE  TablesInv'
BY SameTables DEF TablesInv

LEMMA RefineFrom ==
  ASSUME UNCHANGED <<nfa, stateSets, transitions, acceptActions>>,
         mindfareturn' = <<>>, terTable' = [q \in Accepting |-> acceptActions[q]],
         Blocks(partitions'), Passed(partitions', refined', group'),
         ~changed' => Len(refined') = group' - 1 /\ \A p \in 1..group' - 1 : refined'[p] = partitions'[p]
  PROVE  RefineInv'
<1>1. chars' = chars /\ States' = States /\ Accepting' = Accepting /\ Same' = Same BY SameTables
<1>2. Blocks(partitions)' BY <1>1 DEF Blocks, Separates
<1>3. Passed(partitions, refined, group)'
  <2>1. \A q : Mark(partitions, q)' = Mark(partitions', q) BY <1>1 DEF Mark
  <2>2. Front(partitions, group)' = Front(partitions', group') BY DEF Front
  <2>3. Separates(refined, Front(partitions, group))' BY <1>1, <2>2 DEF Passed, Separates
  <2>4. group' \in 1..Len(partitions') + 1 BY DEF Passed
  <2>5. (\A q, t \in Front(partitions, group) :
           Together(refined, q, t) <=> Together(partitions, q, t) /\ Mark(partitions, q) = Mark(partitions, t))'
    <3>1. \A q, t \in Front(partitions', group') :
            Together(refined', q, t) <=>
              Together(partitions', q, t) /\ Mark(partitions', q) = Mark(partitions', t)
      BY DEF Passed
    <3> QED BY <2>1, <2>2, <3>1
  <2> QED BY <2>3, <2>4, <2>5 DEF Passed
<1> QED BY <1>1, <1>2, <1>3 DEF RefineInv

LEMMA MinimalFrom ==
  ASSUME UNCHANGED <<nfa, stateSets, transitions, acceptActions>>, IsMinimal(partitions', minimal')
  PROVE  IsMinimal(partitions, minimal)'
BY SameTables DEF IsMinimal

LEMMA SignaturesAreMarks ==
  ASSUME Minimizable, RefineInv, NEW q \in States
  PROVE  ActionForState(q) = acceptActions[q] /\ Signature(q) = Mark(partitions, q)
<1>1. ActionForState(q) = acceptActions[q]
  <2>1. DOMAIN mindfareturn = {} /\ terTable = [t \in Accepting |-> acceptActions[t]] BY DEF RefineInv
  <2> QED BY <2>1 DEF ActionForState, Accepting
<1>2. \A t : InBlock(t) = BlockOf(partitions, t) BY DEF InBlock, BlockOf
<1>3. TargetOf(q) = Mark(partitions, q).targets BY <1>2 DEF TargetOf, Mark
<1>4. Mark(partitions, q) = [action |-> acceptActions[q], targets |-> Mark(partitions, q).targets] BY DEF Mark
<1> QED BY <1>1, <1>3, <1>4 DEF Signature

LEMMA StartTables ==
  ASSUME ActionsInv, Start
  PROVE  TablesInv'
<1>1. /\ stateSets' = <<Eclosure({nfa.start})>> /\ transitions' = <<<<>>>>
      /\ acceptActions' = <<PickAction(Eclosure({nfa.start}))>> /\ dpc = "start"
  BY DEF Start
<1>2. PickAction(Eclosure({nfa.start})) \in Actions \cup {NoAction} BY <1>1, PickedActions DEF ActionsInv
<1>3. acceptActions' \in Seq(Actions \cup {NoAction}) /\ Len(acceptActions') = 1 BY <1>1, <1>2
<1>4. Len(stateSets') = 1 BY <1>1
<1>5. States' = {1} BY <1>4 DEF States
<1>6. DOMAIN transitions'[1] = {} BY <1>1
<1> QED BY <1>3, <1>4, <1>5, <1>6 DEF TablesInv

LEMMA MoveTables ==
  ASSUME DfaInv, ActionsInv, TablesInv, Move
  PROVE  TablesInv'
<1> DEFINE q0 == Head(work)
           c0 == chars[at]
           size == Len(stateSets)
<1>1. /\ dpc = "subset" /\ work # <<>> /\ at <= Len(chars) /\ nfa' = nfa
      /\ FoundAt(Moved) = {} => /\ stateSets' = Append(stateSets, Moved)
                                /\ transitions' = Append(Edges, <<>>)
                                /\ acceptActions' = Append(acceptActions, PickAction(Moved))
      /\ FoundAt(Moved) # {} => stateSets' = stateSets /\ transitions' = Edges /\ acceptActions' = acceptActions
  BY DEF Move, Moved, Target, Edges
<1>2. SetsInv BY <1>1 DEF DfaInv
<1>3. chars' = chars BY <1>1, SameNfa
<1>4. q0 \in States /\ at \in DOMAIN chars BY <1>1, InFront
<1>5. stateSets \in Seq(Sets) /\ transitions \in Seq(Moves) /\ size \in Nat /\ Len(transitions) = size /\ States = 1..size
  BY <1>2 DEF SetsInv, States
<1>6. c0 \in Members(chars) BY <1>4 DEF Members
<1>7. /\ Len(Edges) = size /\ Edges \in Seq({Edges[q] : q \in States})
      /\ \A q \in States : DOMAIN Edges[q] \subseteq Members(chars)
  <2> DEFINE f == With(transitions[q0], c0, Target)
  <2>1. DOMAIN f = DOMAIN transitions[q0] \cup {c0} BY DEF With
  <2>2. Edges = [transitions EXCEPT ![q0] = f] BY DEF Edges
  <2> HIDE DEF f, q0, c0, size
  <2>3. Len(Edges) = size /\ DOMAIN Edges = 1..size /\ \A q \in States : Edges[q] = IF q = q0 THEN f ELSE transitions[q]
    BY <1>4, <1>5, <2>2
  <2>4. \A q \in States : DOMAIN Edges[q] \subseteq Members(chars) BY <1>6, <2>1, <2>3 DEF TablesInv
  <2>5. Edges \in Seq({Edges[q] : q \in States})
    <3>1. Edges = [q \in 1..size |-> Edges[q]] BY <2>2, <2>3, <1>5
    <3>2. Edges \in [1..size -> {Edges[q] : q \in States}] BY <1>5, <3>1
    <3> QED BY <1>5, <3>2
  <2> QED BY <2>3, <2>4, <2>5
<1> HIDE DEF q0, c0
<1>8. CASE FoundAt(Moved) # {}
  <2>1. stateSets' = stateSets /\ transitions' = Edges /\ acceptActions' = acceptActions BY <1>1, <1>8
  <2>2. States' = States BY <2>1 DEF States
  <2> QED BY <1>3, <1>7, <2>1, <2>2 DEF TablesInv
<1>9. CASE FoundAt(Moved) = {}
  <2>1. /\ stateSets' = Append(stateSets, Moved) /\ transitions' = Append(Edges, <<>>)
        /\ acceptActions' = Append(acceptActions, PickAction(Moved))
    BY <1>1, <1>9
  <2>2. PickAction(Moved) \in Actions \cup {NoAction} BY <1>1, PickedActions DEF ActionsInv
  <2>3. acceptActions \in Seq(Actions \cup {NoAction}) /\ Len(acceptActions) = size BY DEF TablesInv
  <2>4. Len(stateSets') = size + 1 BY <1>5, <2>1
  <2>5. acceptActions' \in Seq(Actions \cup {NoAction}) /\ Len(acceptActions') = size + 1 BY <2>1, <2>2, <2>3
  <2>6. States' = States \cup {size + 1} /\ size + 1 \notin States BY <1>5, <2>4 DEF States
  <2>7. transitions'[size + 1] = <<>> /\ \A q \in States : transitions'[q] = Edges[q] BY <1>5, <1>7, <2>1
  <2>8. DOMAIN transitions'[size + 1] = {} BY <2>7
  <2> HIDE DEF size
  <2>9. \A q \in States' : DOMAIN transitions'[q] \subseteq Members(chars) BY <1>7, <2>6, <2>7, <2>8
  <2> QED BY <1>3, <2>4, <2>5, <2>9 DEF TablesInv
<1> QED BY <1>8, <1>9

LEMMA FinishSubsetKeeps ==
  ASSUME DfaInv, MinimizerInv, FinishSubset
  PROVE  MinimizerInv'
<1>1. /\ dpc = "subset" /\ dpc' = "refine" /\ UNCHANGED <<nfa, stateSets, transitions, acceptActions>>
      /\ terTable' = [q \in Accepting |-> acceptActions[q]] /\ mindfareturn' = mindfareturn
      /\ partitions' = FirstBlocks /\ refined' = <<>> /\ group' = 1
  BY DEF FinishSubset
<1>2. Minimizable /\ mindfareturn = <<>> BY <1>1 DEF DfaInv, MinimizerInv, Minimizable
<1>3. /\ Separates(FirstBlocks, States)
      /\ \A q, t \in States : acceptActions[q] = acceptActions[t] => Together(FirstBlocks, q, t)
  BY <1>2, MinimizableFacts, FirstBlocksFacts DEF Minimizable
<1>4. Same \in SUBSET SameNames BY <1>2, MinimizableFacts, SameFacts
<1>5. Blocks(FirstBlocks) BY <1>3, <1>4 DEF Blocks, SameNames, Pairs
<1>6. Passed(FirstBlocks, <<>>, 1) BY <1>2, <1>3, PassStarts
<1>7. RefineInv'
  <2>1. Len(refined') = group' - 1 /\ \A p \in 1..group' - 1 : refined'[p] = partitions'[p] BY <1>1
  <2> QED BY <1>1, <1>2, <1>5, <1>6, <2>1, RefineFrom
<1>8. TablesInv' BY <1>1, <1>2, TablesStay DEF Minimizable
<1> QED BY <1>1, <1>7, <1>8 DEF MinimizerInv

LEMMA RefineGroupKeeps ==
  ASSUME DfaInv, MinimizerInv, RefineGroup
  PROVE  MinimizerInv'
<1> DEFINE block  == partitions[group]
           orders == OrdersOf(partitions, group)
           new    == Buckets(partitions, group)
<1>1. /\ dpc = "refine" /\ dpc' = "refine" /\ UNCHANGED <<nfa, stateSets, transitions, acceptActions>>
      /\ terTable' = terTable /\ mindfareturn' = mindfareturn
      /\ group <= Len(partitions) /\ group' = group + 1 /\ partitions' = partitions
  BY DEF RefineGroup
<1>2. Minimizable /\ RefineInv BY <1>1 DEF DfaInv, MinimizerInv, Minimizable
<1>3. Blocks(partitions) /\ Separates(partitions, States) /\ Passed(partitions, refined, group)
  BY <1>2 DEF RefineInv, Blocks
<1>4. group \in 1..Len(partitions) /\ Len(partitions) \in Nat
  <2>1. Len(partitions) \in Nat BY <1>2, <1>3, FrontFacts
  <2> QED BY <1>1, <1>3, <2>1 DEF Passed
<1>5. \A k \in DOMAIN block : block[k] \in States
  <2>1. partitions \in Seq(Seq(States)) BY <1>3 DEF Separates
  <2>2. block \in Seq(States) BY <1>4, <2>1
  <2> QED BY <2>2
<1>6. refined' = refined \o new /\ changed' = (changed \/ Len(orders) > 1)
  <2>1. {Signature(block[k]) : k \in DOMAIN block} = MarksOf(partitions, group)
    BY <1>2, <1>5, SignaturesAreMarks DEF MarksOf
  <2>2. orders = InOrder({Signature(block[k]) : k \in DOMAIN block}) BY <2>1 DEF OrdersOf
  <2>3. \A x : {q \in States : Signature(q) = x} = {q \in States : Mark(partitions, q) = x} BY <1>2, SignaturesAreMarks
  <2>4. new = [b \in DOMAIN orders |-> Those(block, {q \in States : Signature(q) = orders[b]})] BY <2>3 DEF Buckets
  <2> HIDE DEF new, orders
  <2> QED BY <2>2, <2>4 DEF RefineGroup
<1>7. Passed(partitions, refined', group') BY <1>1, <1>2, <1>3, <1>6, PassGoesOn
<1>8. ASSUME ~changed'
      PROVE  Len(refined') = group' - 1 /\ \A p \in 1..group' - 1 : refined'[p] = partitions[p]
  <2>1. ~changed /\ ~(Len(orders) > 1) BY <1>6, <1>8, Zenon
  <2>2. Len(refined) = group - 1 /\ \A p \in 1..group - 1 : refined[p] = partitions[p] BY <1>2, <2>1 DEF RefineInv
  <2>3. Separates(new, Members(block)) /\ Len(new) = 1 /\ new[1] = block BY <1>2, <1>3, <1>4, <2>1, BucketFacts
  <2> HIDE DEF new
  <2>4. new \in Seq(Seq(States)) /\ refined \in Seq(Seq(States)) BY <1>3, <2>3 DEF Separates, Passed
  <2> HIDE DEF block
  <2>5. /\ Len(refined') = Len(refined) + Len(new)
        /\ \A p \in DOMAIN refined : refined'[p] = refined[p]
        /\ \A p \in DOMAIN new : refined'[Len(refined) + p] = new[p]
    BY <1>6, <2>4, JoinedLists
  <2>6. DOMAIN refined = 1..group - 1 /\ DOMAIN new = {1} /\ Len(refined) + 1 = group BY <1>4, <2>2, <2>3, <2>4
  <2>7. Len(refined') = group BY <2>3, <2>5, <2>6
  <2>8. \A p \in 1..group - 1 : refined'[p] = partitions[p] BY <2>2, <2>5, <2>6
  <2>9. refined'[group] = partitions[group] BY <2>3, <2>5, <2>6 DEF block
  <2>10. group' - 1 = group /\ \A p \in 1..group : p \in 1..group - 1 \/ p = group BY <1>1, <1>4
  <2> QED BY <2>7, <2>8, <2>9, <2>10
<1>9. RefineInv'
  <2>1. mindfareturn' = <<>> /\ terTable' = [q \in Accepting |-> acceptActions[q]] BY <1>1, <1>2 DEF RefineInv
  <2> QED BY <1>1, <1>3, <1>7, <1>8, <2>1, RefineFrom
<1>10. TablesInv' BY <1>1, <1>2, TablesStay DEF Minimizable
<1> QED BY <1>1, <1>9, <1>10 DEF MinimizerInv

LEMMA EndPassKeeps ==
  ASSUME DfaInv, MinimizerInv, EndPass
  PROVE  MinimizerInv'
<1>1. /\ dpc = "refine" /\ dpc' = "refine" /\ UNCHANGED <<nfa, stateSets, transitions, acceptActions>>
      /\ terTable' = terTable /\ mindfareturn' = mindfareturn
      /\ group > Len(partitions) /\ group' = 1 /\ partitions' = refined /\ refined' = <<>>
  BY DEF EndPass
<1>2. Minimizable /\ RefineInv BY <1>1 DEF DfaInv, MinimizerInv, Minimizable
<1>3. Blocks(partitions) /\ Separates(partitions, States) /\ Passed(partitions, refined, group)
  BY <1>2 DEF RefineInv, Blocks
<1>4. group = Len(partitions) + 1
  <2>1. Len(partitions) \in Nat BY <1>2, <1>3, FrontFacts
  <2> QED BY <1>1, <1>3, <2>1 DEF Passed
<1>5. Blocks(refined) BY <1>2, <1>3, <1>4, PassKeeps
<1>6. Passed(refined, <<>>, 1) BY <1>2, <1>5, PassStarts DEF Blocks
<1>7. RefineInv'
  <2>1. Len(refined') = group' - 1 /\ \A p \in 1..group' - 1 : refined'[p] = partitions'[p] BY <1>1
  <2>2. mindfareturn' = <<>> /\ terTable' = [q \in Accepting |-> acceptActions[q]] BY <1>1, <1>2 DEF RefineInv
  <2> QED BY <1>1, <1>5, <1>6, <2>1, <2>2, RefineFrom
<1>8. TablesInv' BY <1>1, <1>2, TablesStay DEF Minimizable
<1> QED BY <1>1, <1>7, <1>8 DEF MinimizerInv

\* Behind a quiet pass the first state of a block speaks for all of them.
LEMMA FinishMinimalKeeps ==
  ASSUME DfaInv, MinimizerInv, FinishMinimal
  PROVE  MinimizerInv'
<1> DEFINE ps == partitions
           first(p) == ps[p][1]
           accepts  == {p \in 1..Len(ps) : ActionForState(first(p)) # NoAction}
<1>1. /\ dpc = "refine" /\ dpc' = "done" /\ UNCHANGED <<nfa, stateSets, transitions, acceptActions>>
      /\ group > Len(ps) /\ ~changed /\ partitions' = refined
      /\ minimal' = [start |-> InBlock(1),
                     next  |-> [p \in 1..Len(ps) |->
                                  [c \in DOMAIN transitions[first(p)] |-> InBlock(transitions[first(p)][c])]],
                     accepting |-> [p \in accepts |-> ActionForState(first(p))]]
  BY DEF FinishMinimal
<1>2. Minimizable /\ RefineInv BY <1>1 DEF DfaInv, MinimizerInv, Minimizable
<1>3. Blocks(ps) /\ Separates(ps, States) /\ Passed(ps, refined, group) BY <1>2 DEF RefineInv, Blocks
<1>4. group = Len(ps) + 1 /\ Len(ps) \in Nat
  <2>1. Len(ps) \in Nat BY <1>2, <1>3, FrontFacts
  <2> QED BY <1>1, <1>3, <2>1 DEF Passed
<1>5. refined = ps
  <2>1. Len(refined) = group - 1 /\ \A p \in 1..group - 1 : refined[p] = ps[p] BY <1>1, <1>2 DEF RefineInv
  <2>2. Len(refined) = Len(ps) /\ \A p \in 1..Len(ps) : refined[p] = ps[p] BY <1>4, <2>1
  <2>3. refined \in Seq(Seq(States)) /\ ps \in Seq(Seq(States)) BY <1>3 DEF Separates, Passed
  <2> HIDE DEF ps
  <2>4. DOMAIN refined = 1..Len(ps) /\ DOMAIN ps = 1..Len(ps) BY <2>2, <2>3
  <2>5. /\ refined = [p \in 1..Len(ps) |-> refined[p]]
        /\ ps = [p \in 1..Len(ps) |-> ps[p]]
    BY <2>3, <2>4
  <2> QED BY <2>2, <2>5
<1>6. /\ Same = {p \in States \X States : Together(ps, p[1], p[2])}
      /\ \A q, t \in States : Together(ps, q, t) => Mark(ps, q) = Mark(ps, t)
  BY <1>2, <1>3, <1>4, <1>5, QuietPass
<1>7. /\ \A q \in States :
           /\ BlockOf(ps, q) \in 1..Len(ps) /\ q \in Members(ps[BlockOf(ps, q)])
           /\ \A p \in 1..Len(ps) : q \in Members(ps[p]) => p = BlockOf(ps, q)
      /\ \A q, t \in States : Together(ps, q, t) <=> BlockOf(ps, q) = BlockOf(ps, t)
  BY <1>3, BlockFacts
<1>8. \A p \in 1..Len(ps) : first(p) \in States /\ BlockOf(ps, first(p)) = p
  <2> TAKE p \in 1..Len(ps)
  <2>1. ps \in Seq(Seq(States)) /\ ps[p] # <<>> BY <1>3, <1>4 DEF Separates
  <2>2. ps[p] \in Seq(States) /\ ps[p] # <<>> BY <1>4, <2>1
  <2>3. 1 \in DOMAIN ps[p] /\ first(p) \in States BY <2>2
  <2>4. first(p) \in Members(ps[p]) BY <2>3 DEF Members
  <2> QED BY <1>7, <2>3, <2>4
<1>9. \A t : InBlock(t) = BlockOf(ps, t) BY DEF InBlock, BlockOf
<1>10. \A p \in 1..Len(ps) : ActionForState(first(p)) = acceptActions[first(p)] BY <1>2, <1>8, SignaturesAreMarks
<1> HIDE DEF ps
<1>11. /\ minimal'.start = BlockOf(ps, 1) /\ DOMAIN minimal'.next = 1..Len(ps)
       /\ \A p \in 1..Len(ps) :
            minimal'.next[p] = [c \in DOMAIN transitions[first(p)] |-> BlockOf(ps, transitions[first(p)][c])]
  BY <1>1, <1>9
<1>12. /\ \A p \in 1..Len(ps) : p \in DOMAIN minimal'.accepting <=> acceptActions[first(p)] # NoAction
       /\ \A p \in DOMAIN minimal'.accepting : p \in 1..Len(ps) /\ minimal'.accepting[p] = acceptActions[first(p)]
  BY <1>1, <1>10
<1>13. 1..Len(ps) = {BlockOf(ps, q) : q \in States} BY <1>7, <1>8
<1>14. ASSUME NEW q \in States
       PROVE  /\ minimal'.next[BlockOf(ps, q)] = [c \in DOMAIN transitions[q] |-> BlockOf(ps, transitions[q][c])]
              /\ acceptActions[q] = IF BlockOf(ps, q) \in DOMAIN minimal'.accepting
                                    THEN minimal'.accepting[BlockOf(ps, q)] ELSE NoAction
  <2> DEFINE p == BlockOf(ps, q)
             f == first(p)
  <2>1. p \in 1..Len(ps) /\ f \in States /\ BlockOf(ps, f) = p BY <1>7, <1>8
  <2>2. Mark(ps, q) = Mark(ps, f) BY <1>6, <1>7, <2>1
  <2> HIDE DEF f, p
  <2>3. /\ acceptActions[q] = acceptActions[f] /\ DOMAIN transitions[q] = DOMAIN transitions[f]
        /\ \A c \in DOMAIN transitions[q] : Together(ps, transitions[q][c], transitions[f][c])
    BY <1>2, <1>3, <2>1, <2>2, MarkFacts DEF ps
  <2>4. \A c \in DOMAIN transitions[q] : BlockOf(ps, transitions[q][c]) = BlockOf(ps, transitions[f][c])
    <3>1. \A c \in DOMAIN transitions[q] : transitions[q][c] \in States /\ transitions[f][c] \in States
      BY <1>2, <2>1, <2>3, MinimizableFacts
    <3> QED BY <1>7, <2>3, <3>1
  <2>5. minimal'.next[p] = [c \in DOMAIN transitions[f] |-> BlockOf(ps, transitions[f][c])] BY <1>11, <2>1 DEF f
  <2>6. minimal'.next[p] = [c \in DOMAIN transitions[q] |-> BlockOf(ps, transitions[q][c])] BY <2>3, <2>4, <2>5
  <2>7. acceptActions[q] = IF p \in DOMAIN minimal'.accepting THEN minimal'.accepting[p] ELSE NoAction
    <3>1. p \in DOMAIN minimal'.accepting <=> acceptActions[f] # NoAction BY <1>12, <2>1 DEF f
    <3>2. p \in DOMAIN minimal'.accepting => minimal'.accepting[p] = acceptActions[f] BY <1>12 DEF f
    <3> QED BY <2>3, <3>1, <3>2
  <2> QED BY <2>6, <2>7 DEF p
<1>15. Same = {p \in States \X States : BlockOf(ps, p[1]) = BlockOf(ps, p[2])}
  <2>1. \A p \in States \X States : Together(ps, p[1], p[2]) <=> BlockOf(ps, p[1]) = BlockOf(ps, p[2]) BY <1>7
  <2> QED BY <1>6, <2>1
<1>16. IsMinimal(ps, minimal') BY <1>11, <1>13, <1>14, <1>15 DEF IsMinimal
<1>17. partitions' = ps BY <1>1, <1>5
<1>18. IsMinimal(partitions, minimal)' BY <1>1, <1>16, <1>17, MinimalFrom
<1>19. TablesInv' BY <1>1, <1>2, TablesStay DEF Minimizable
<1> QED BY <1>1, <1>18, <1>19 DEF MinimizerInv

LEMMA MinimizerStutters ==
  ASSUME MinimizerInv, UNCHANGED dfaVars
  PROVE  MinimizerInv'
<1>1. /\ UNCHANGED <<nfa, stateSets, transitions, acceptActions>> /\ dpc' = dpc /\ mindfareturn' = mindfareturn
      /\ terTable' = terTable /\ partitions' = partitions /\ refined' = refined /\ group' = group
      /\ changed' = changed /\ minimal' = minimal
  BY DEF dfaVars
<1>2. TablesInv => TablesInv' BY <1>1, TablesStay
<1>3. RefineInv => RefineInv'
  <2> SUFFICES ASSUME RefineInv PROVE RefineInv' OBVIOUS
  <2>1. mindfareturn' = <<>> /\ terTable' = [q \in Accepting |-> acceptActions[q]] BY <1>1 DEF RefineInv
  <2>2. Blocks(partitions') /\ Passed(partitions', refined', group') BY <1>1 DEF RefineInv
  <2>3. ~changed' => Len(refined') = group' - 1 /\ \A p \in 1..group' - 1 : refined'[p] = partitions'[p]
    BY <1>1 DEF RefineInv
  <2> QED BY <1>1, <2>1, <2>2, <2>3, RefineFrom
<1>4. IsMinimal(partitions, minimal) => IsMinimal(partitions, minimal)'
  <2> SUFFICES ASSUME IsMinimal(partitions, minimal) PROVE IsMinimal(partitions, minimal)' OBVIOUS
  <2>1. IsMinimal(partitions', minimal') BY <1>1
  <2> QED BY <1>1, <2>1, MinimalFrom
<1> QED BY <1>1, <1>2, <1>3, <1>4 DEF MinimizerInv

LEMMA MinimizerStep ==
  ASSUME DfaInv, ActionsInv, MinimizerInv, DfaNext
  PROVE  MinimizerInv'
<1>1. CASE Start
  <2>1. dpc = "start" /\ dpc' = "subset" /\ mindfareturn' = mindfareturn BY <1>1 DEF Start
  <2> QED BY <1>1, <2>1, StartTables DEF MinimizerInv
<1>2. CASE NoMove \/ NextState
  <2>1. /\ dpc = "subset" /\ dpc' = "subset" /\ mindfareturn' = mindfareturn
        /\ UNCHANGED <<nfa, stateSets, transitions, acceptActions>>
    BY <1>2 DEF NoMove, NextState
  <2> QED BY <2>1, TablesStay DEF MinimizerInv
<1>3. CASE Move
  <2>1. dpc = "subset" /\ dpc' = "subset" /\ mindfareturn' = mindfareturn BY <1>3 DEF Move
  <2> QED BY <1>3, <2>1, MoveTables DEF MinimizerInv
<1>4. CASE FinishSubset BY <1>4, FinishSubsetKeeps
<1>5. CASE RefineGroup BY <1>5, RefineGroupKeeps
<1>6. CASE EndPass BY <1>6, EndPassKeeps
<1>7. CASE FinishMinimal BY <1>7, FinishMinimalKeeps
<1> QED BY <1>1, <1>2, <1>3, <1>4, <1>5, <1>6, <1>7 DEF DfaNext

\* The minimizer's blocks at every step of the generator.
MinimalInv == GeneratorInv /\ ActionsInv /\ MinimizerInv

LEMMA MinimalStep == MinimalInv /\ [Next]_vars => MinimalInv'
<1> SUFFICES ASSUME MinimalInv, [Next]_vars PROVE MinimalInv' OBVIOUS
<1>1. GeneratorInv /\ NfaInv /\ DfaInv /\ ActionsInv /\ MinimizerInv BY DEF MinimalInv, GeneratorInv
<1>2. GeneratorInv' BY <1>1, GeneratorStep
<1>3. CASE BuildNfa
  <2>1. Nfa!Next /\ UNCHANGED dfaVars BY <1>3 DEF BuildNfa
  <2>2. OfRules(accepting') /\ nfa' = nfa /\ dpc' = dpc BY <1>1, <2>1, RecordedActions DEF ActionsInv, dfaVars
  <2>3. ActionsInv' BY <1>1, <2>2 DEF ActionsInv, OfRules
  <2> QED BY <1>1, <1>2, <2>1, <2>3, MinimizerStutters DEF MinimalInv
<1>4. CASE Handover
  <2>1. /\ dpc = "idle" /\ dpc' = "start" /\ nfa'.accepting = accepting /\ mindfareturn' = mindfareturn
        /\ accepting' = accepting
    BY <1>4 DEF Handover, Submit, nfaVars
  <2>2. ActionsInv' BY <1>1, <2>1 DEF ActionsInv, OfRules
  <2>3. MinimizerInv' BY <1>1, <2>1 DEF MinimizerInv
  <2> QED BY <1>2, <2>2, <2>3 DEF MinimalInv
<1>5. CASE BuildDfa
  <2>1. DfaNext /\ accepting' = accepting BY <1>5 DEF BuildDfa, nfaVars
  <2>2. nfa' = nfa /\ dpc # "idle"
    BY <2>1 DEF DfaNext, Start, NoMove, Move, NextState, FinishSubset, RefineGroup, EndPass, FinishMinimal
  <2>3. ActionsInv' BY <1>1, <2>1, <2>2 DEF ActionsInv, OfRules
  <2>4. MinimizerInv' BY <1>1, <2>1, MinimizerStep
  <2> QED BY <1>2, <2>3, <2>4 DEF MinimalInv
<1>6. CASE Regenerate
  <2>1. dpc' = "idle" /\ mindfareturn' = <<>> /\ accepting' = <<>> BY <1>6 DEF Regenerate, Clear
  <2>2. ActionsInv' BY <2>1 DEF ActionsInv, OfRules
  <2>3. MinimizerInv' BY <2>1 DEF MinimizerInv
  <2> QED BY <1>2, <2>2, <2>3 DEF MinimalInv
<1>7. CASE UNCHANGED vars
  <2>1. UNCHANGED dfaVars /\ accepting' = accepting /\ nfa' = nfa /\ dpc' = dpc BY <1>7 DEF vars, nfaVars, dfaVars
  <2>2. ActionsInv' BY <1>1, <2>1 DEF ActionsInv, OfRules
  <2> QED BY <1>1, <1>2, <2>1, <2>2, MinimizerStutters DEF MinimalInv
<1> QED BY <1>3, <1>4, <1>5, <1>6, <1>7 DEF Next

\* At every step the blocks share out the states, a pass has split the blocks it looked at
\* by the signatures of the blocks it began with, and none has split states that no word
\* tells apart.
THEOREM BlocksFit == Spec => []MinimalInv
<1>1. Init => MinimalInv
  <2> SUFFICES ASSUME Init PROVE MinimalInv OBVIOUS
  <2>1. accepting = <<>> /\ dpc = "idle" /\ mindfareturn = <<>> BY DEF Init, Nfa!Init, DfaInit
  <2> QED BY <2>1, InitHolds DEF MinimalInv, ActionsInv, OfRules, MinimizerInv
<1>2. MinimalInv /\ [Next]_vars => MinimalInv' BY MinimalStep
<1> QED BY <1>1, <1>2, PTL DEF Spec

LEMMA MinimalIsExact == MinimalInv => MinimalExact
<1> SUFFICES ASSUME MinimalInv PROVE MinimalExact OBVIOUS
<1>1. \A t : InBlock(t) = BlockOf(partitions, t) BY DEF InBlock, BlockOf
<1>2. ASSUME dpc = "refine"
      PROVE  \A p \in Same : InBlock(p[1]) = InBlock(p[2])
  <2>1. Minimizable /\ Blocks(partitions)
    BY <1>2 DEF MinimalInv, GeneratorInv, DfaInv, MinimizerInv, RefineInv, Minimizable
  <2>2. Same \in SUBSET SameNames BY <2>1, MinimizableFacts, SameFacts
  <2>3. \A q, t \in States : Together(partitions, q, t) <=> BlockOf(partitions, q) = BlockOf(partitions, t)
    BY <2>1, BlockFacts DEF Blocks
  <2> QED BY <1>1, <2>1, <2>2, <2>3 DEF Blocks, SameNames, Pairs
<1>3. dpc = "done" => IsMinimal(partitions, minimal) BY DEF MinimalInv, MinimizerInv
<1> QED BY <1>1, <1>2, <1>3 DEF MinimalExact, IsMinimal

\* What the minimizer leaves is the automaton of the pairs of states that no word tells apart.
THEOREM MinimizerIsExact == Spec => []MinimalExact
BY BlocksFit, MinimalIsExact, PTL
-----------------------------------------------------------------------------
(***************************************************************************)
(* What expressions mean: the recursive definition has a solution, and     *)
(* parts of an expression are put together as its operators say.           *)
(***************************************************************************)
Parts(infix)     == (1..Len(infix) + 1) \X (0..Len(infix))
Split(infix, p, op) == Rightmost(Outermost(infix, p, op))
SpanStep(h, infix, w, p) ==
  CASE p[2] < p[1] -> {}
    [] p[1] <= p[2] /\ Outermost(infix, p, "|") # {} ->
         h[<<p[1], Split(infix, p, "|") - 1>>] \cup h[<<Split(infix, p, "|") + 1, p[2]>>]
    [] p[1] <= p[2] /\ Outermost(infix, p, "|") = {} /\ Outermost(infix, p, "&") # {} ->
         Chained(h[<<p[1], Split(infix, p, "&") - 1>>], h[<<Split(infix, p, "&") + 1, p[2]>>])
    [] OTHER ->
         CASE infix[p[2]] = "*" -> Repeated(h[<<p[1], p[2] - 1>>], w)
           [] infix[p[2]] = ")" -> h[<<p[1] + 1, p[2] - 1>>]
           [] OTHER -> Unit(infix[p[2]], w)
SpansOf(infix, w) == CHOOSE h : h = [p \in Parts(infix) |-> SpanStep(h, infix, w, p)]
Shorter(infix, n) == {p \in Parts(infix) : p[2] - p[1] + 1 <= n}
Solves(h, infix, w, n) == h = [p \in Shorter(infix, n) |-> SpanStep(h, infix, w, p)]

LEMMA LastOf ==
  ASSUME NEW i \in Nat, NEW j \in Nat, NEW S \in SUBSET (i..j), S # {}
  PROVE  Rightmost(S) \in S /\ \A m \in S : m <= Rightmost(S)
<1> DEFINE T == {j - k : k \in S}
<1>0. \A k \in S : k \in Int /\ k <= j OBVIOUS
<1>1. T \in SUBSET Nat /\ T # {}
  <2>1. \A k \in S : j - k \in Nat BY <1>0
  <2>2. PICK k \in S : TRUE OBVIOUS
  <2>3. j - k \in T BY <2>2
  <2> QED BY <2>1, <2>3
<1>2. PICK d \in T : \A t \in T : d <= t BY <1>1, LeastOf
<1>3. PICK k \in S : d = j - k BY <1>2
<1>4. \A m \in S : j - k <= j - m BY <1>2, <1>3
<1>5. \A m \in S : m <= k BY <1>0, <1>3, <1>4
<1> QED BY <1>3, <1>5 DEF Rightmost

LEMMA SplitFacts ==
  ASSUME NEW infix, Len(infix) \in Nat, NEW p \in Parts(infix), NEW op, Outermost(infix, p, op) # {}
  PROVE  LET k == Split(infix, p, op)
         IN  /\ k \in p[1]..p[2] /\ k \in Outermost(infix, p, op) /\ \A m \in Outermost(infix, p, op) : m <= k
             /\ <<p[1], k - 1>> \in Parts(infix) /\ <<k + 1, p[2]>> \in Parts(infix)
<1> DEFINE S == Outermost(infix, p, op)
<1>1. p[1] \in Nat /\ p[2] \in Nat /\ p[1] \in 1..Len(infix) + 1 /\ p[2] \in 0..Len(infix) BY DEF Parts
<1>2. S \in SUBSET (p[1]..p[2]) BY DEF Outermost
<1> HIDE DEF S
<1>3. Rightmost(S) \in S /\ \A m \in S : m <= Rightmost(S)
  <2>1. S # {} BY DEF S
  <2> QED BY <1>1, <1>2, <2>1, LastOf
<1> QED BY <1>1, <1>2, <1>3 DEF Split, S, Parts

\* Only shorter parts are asked for.
LEMMA StepLooksInside ==
  ASSUME NEW infix, Len(infix) \in Nat, NEW w, NEW n \in Nat, NEW p \in Shorter(infix, n + 1), NEW f, NEW h,
         \A q \in Shorter(infix, n) : h[q] = f[q]
  PROVE  SpanStep(h, infix, w, p) = SpanStep(f, infix, w, p)
<1>1. p \in Parts(infix) /\ p[2] - p[1] + 1 <= n + 1 BY DEF Shorter
<1>2. p[1] \in 1..Len(infix) + 1 /\ p[2] \in 0..Len(infix) BY <1>1 DEF Parts
<1>3. ASSUME NEW op, Outermost(infix, p, op) # {}
      PROVE  /\ h[<<p[1], Split(infix, p, op) - 1>>] = f[<<p[1], Split(infix, p, op) - 1>>]
             /\ h[<<Split(infix, p, op) + 1, p[2]>>] = f[<<Split(infix, p, op) + 1, p[2]>>]
  <2> DEFINE k == Split(infix, p, op)
  <2>1. k \in p[1]..p[2] /\ <<p[1], k - 1>> \in Parts(infix) /\ <<k + 1, p[2]>> \in Parts(infix)
    BY <1>1, <1>3, SplitFacts
  <2> HIDE DEF k
  <2>2. (k - 1) - p[1] + 1 <= n /\ p[2] - (k + 1) + 1 <= n BY <1>1, <1>2, <2>1
  <2>3. <<p[1], k - 1>> \in Shorter(infix, n) /\ <<k + 1, p[2]>> \in Shorter(infix, n)
    BY <2>1, <2>2 DEF Shorter
  <2> QED BY <2>3 DEF k
<1>4. p[1] <= p[2] => /\ h[<<p[1], p[2] - 1>>] = f[<<p[1], p[2] - 1>>]
                      /\ h[<<p[1] + 1, p[2] - 1>>] = f[<<p[1] + 1, p[2] - 1>>]
  <2> SUFFICES ASSUME p[1] <= p[2]
               PROVE  <<p[1], p[2] - 1>> \in Shorter(infix, n) /\ <<p[1] + 1, p[2] - 1>> \in Shorter(infix, n)
    OBVIOUS
  <2> QED BY <1>1, <1>2 DEF Shorter, Parts
<1>5. p[2] < p[1] \/ p[1] <= p[2] BY <1>2
<1>6. CASE p[2] < p[1]
  <2>1. ~(p[1] <= p[2]) BY <1>2, <1>6
  <2> QED BY <1>6, <2>1, Zenon DEF SpanStep
<1>7. CASE p[1] <= p[2]
  <2>1. ~(p[2] < p[1]) BY <1>2, <1>7
  <2>2. CASE Outermost(infix, p, "|") # {} BY <1>3, <1>7, <2>1, <2>2, Zenon DEF SpanStep
  <2>3. CASE Outermost(infix, p, "|") = {} /\ Outermost(infix, p, "&") # {}
    BY <1>3, <1>7, <2>1, <2>3, Zenon DEF SpanStep
  <2>4. CASE Outermost(infix, p, "|") = {} /\ Outermost(infix, p, "&") = {}
    BY <1>4, <1>7, <2>1, <2>4, Zenon DEF SpanStep
  <2> QED BY <2>2, <2>3, <2>4
<1> QED BY <1>5, <1>6, <1>7

LEMMA SpansExist ==
  ASSUME NEW infix, Len(infix) \in Nat, NEW w, NEW n \in Nat
  PROVE  \E h : Solves(h, infix, w, n)
<1> DEFINE Good(k) == \E h : Solves(h, infix, w, k)
           Bad == {k \in Nat : ~Good(k)}
<1>1. Bad = {}
  <2> SUFFICES ASSUME Bad # {} PROVE FALSE OBVIOUS
  <2>1. Bad \in SUBSET Nat OBVIOUS
  <2>2. PICK m \in Bad : \A k \in Bad : m <= k BY <2>1, LeastOf
  <2>3. m \in Nat /\ ~Good(m) BY <2>2
  <2> SUFFICES Good(m) BY <2>3
  <2>4. CASE m = 0
    <3> DEFINE h == [p \in Shorter(infix, 0) |-> {}]
    <3>1. ASSUME NEW p \in Shorter(infix, 0) PROVE \A f : SpanStep(f, infix, w, p) = {}
      <4>1. p[2] < p[1] /\ ~(p[1] <= p[2]) BY DEF Shorter, Parts
      <4> QED BY <4>1, Zenon DEF SpanStep
    <3>2. h = [p \in Shorter(infix, 0) |-> SpanStep(h, infix, w, p)] BY <3>1
    <3> HIDE DEF h
    <3> QED BY <2>4, <3>2 DEF Solves
  <2>5. CASE m # 0
    <3>1. m - 1 \in Nat /\ m - 1 \notin Bad
      <4>1. m - 1 \in Nat BY <2>3, <2>5
      <4>2. m - 1 \notin Bad
        <5> HIDE DEF Bad
        <5> QED BY <2>2, <2>3, <4>1
      <4> QED BY <4>1, <4>2
    <3>2. PICK f : Solves(f, infix, w, m - 1) BY <3>1
    <3> DEFINE A == Shorter(infix, m - 1)
               h == [p \in Shorter(infix, m) |-> IF p \in A THEN f[p] ELSE SpanStep(f, infix, w, p)]
    <3>3. A \subseteq Shorter(infix, m)
      <4>1. \A p \in Parts(infix) : p[1] \in Int /\ p[2] \in Int BY DEF Parts
      <4> QED BY <2>3, <4>1 DEF Shorter
    <3>4. \A p \in A : h[p] = f[p] BY <3>3
    <3>5. \A p \in Shorter(infix, m) : h[p] = SpanStep(f, infix, w, p) BY <3>2 DEF Solves
    <3>6. h = [p \in Shorter(infix, m) |-> h[p]] OBVIOUS
    <3> HIDE DEF h
    <3>7. ASSUME NEW p \in Shorter(infix, m) PROVE SpanStep(h, infix, w, p) = SpanStep(f, infix, w, p)
      <4>1. p \in Shorter(infix, (m - 1) + 1) BY <2>3, <3>1
      <4>2. \A q \in Shorter(infix, m - 1) : h[q] = f[q] BY <3>4
      <4>3. m - 1 \in Nat BY <3>1
      <4> HIDE DEF A, Bad
      <4> QED BY <4>1, <4>2, <4>3, StepLooksInside
    <3>8. h = [p \in Shorter(infix, m) |-> SpanStep(h, infix, w, p)] BY <3>5, <3>6, <3>7
    <3> QED BY <3>8 DEF Solves
  <2> QED BY <2>4, <2>5
<1> QED BY <1>1

LEMMA SpansUnfold ==
  ASSUME NEW infix, Len(infix) \in Nat, NEW w
  PROVE  /\ \A p \in Parts(infix) : SpansOf(infix, w)[p] = SpanStep(SpansOf(infix, w), infix, w, p)
         /\ Meaning(infix, w) = SpansOf(infix, w)[<<1, Len(infix)>>]
<1>1. Shorter(infix, Len(infix)) = Parts(infix) BY DEF Shorter, Parts
<1>2. \E h : h = [p \in Parts(infix) |-> SpanStep(h, infix, w, p)]
  <2>1. PICK h : Solves(h, infix, w, Len(infix)) BY SpansExist
  <2>2. h = [p \in Parts(infix) |-> SpanStep(h, infix, w, p)] BY <1>1, <2>1 DEF Solves
  <2> QED BY <2>2
<1>3. SpansOf(infix, w) = [p \in Parts(infix) |-> SpanStep(SpansOf(infix, w), infix, w, p)]
  BY <1>2, Zenon DEF SpansOf
<1>4. \A p \in Parts(infix) : SpansOf(infix, w)[p] = SpanStep(SpansOf(infix, w), infix, w, p)
  <2> DEFINE h == SpansOf(infix, w)
  <2>1. h = [p \in Parts(infix) |-> SpanStep(h, infix, w, p)] BY <1>3
  <2> HIDE DEF h
  <2>2. \A p \in Parts(infix) : h[p] = SpanStep(h, infix, w, p) BY <2>1
  <2> QED BY <2>2 DEF h
<1>5. Meaning(infix, w) = SpansOf(infix, w)[<<1, Len(infix)>>] BY DEF Meaning, SpansOf, SpanStep, Split, Parts
<1> QED BY <1>4, <1>5

\* The same of the tokens from i to j.
PartSpans(infix, w, i, j) == SpansOf(infix, w)[<<i, j>>]
Heads(infix, i, j, op)    == Outermost(infix, <<i, j>>, op)
Cut(infix, i, j, op)      == Split(infix, <<i, j>>, op)

\* R is what the tokens from i to j mean; they are balanced, and none of ops is outermost.
Balanced(infix, i, j) ==
  /\ i \in 1..Len(infix) /\ j \in 1..Len(infix) /\ i <= j
  /\ Depth(infix, j) = Depth(infix, i - 1)
  /\ \A k \in i..j : Depth(infix, k) >= Depth(infix, i - 1)
Operand(infix, w, i, j, R, ops) ==
  /\ Balanced(infix, i, j)
  /\ \A op \in ops : Heads(infix, i, j, op) = {}
  /\ R = PartSpans(infix, w, i, j)

LEMMA DepthStep ==
  ASSUME NEW infix, NEW k \in Nat, k # 0
  PROVE  /\ Depth(infix, k) \in Int /\ Depth(infix, k - 1) \in Int
         /\ Depth(infix, k) = CASE infix[k] = "(" -> Depth(infix, k - 1) + 1
                                [] infix[k] = ")" -> Depth(infix, k - 1) - 1
                                [] OTHER -> Depth(infix, k - 1)
<1> DEFINE seen(n, t) == {m \in 1..n : infix[m] = t}
<1>1. k - 1 \in Nat /\ 1..k = (1..k - 1) \cup {k} /\ k \notin 1..k - 1 OBVIOUS
<1>2. ASSUME NEW n \in Nat, NEW t PROVE IsFiniteSet(seen(n, t)) /\ Cardinality(seen(n, t)) \in Nat
  <2>1. IsFiniteSet(1..n) BY FS_Interval
  <2>2. seen(n, t) \in SUBSET (1..n) OBVIOUS
  <2> HIDE DEF seen
  <2> QED BY <2>1, <2>2, FS_Subset, FS_CardinalityType
<1>3. ASSUME NEW t PROVE Cardinality(seen(k, t)) = Cardinality(seen(k - 1, t)) + (IF infix[k] = t THEN 1 ELSE 0)
  <2>1. IsFiniteSet(seen(k - 1, t)) /\ Cardinality(seen(k - 1, t)) \in Nat BY <1>1, <1>2
  <2>2. k \notin seen(k - 1, t) BY <1>1
  <2>3. seen(k, t) = IF infix[k] = t THEN seen(k - 1, t) \cup {k} ELSE seen(k - 1, t) BY <1>1
  <2> HIDE DEF seen
  <2>4. Cardinality(seen(k - 1, t) \cup {k}) = Cardinality(seen(k - 1, t)) + 1 BY <2>1, <2>2, FS_AddElement
  <2> QED BY <2>1, <2>3, <2>4
<1>4. \A n : Depth(infix, n) = Cardinality(seen(n, "(")) - Cardinality(seen(n, ")")) BY DEF Depth
<1>5. /\ Cardinality(seen(k, "(")) \in Nat /\ Cardinality(seen(k, ")")) \in Nat
      /\ Cardinality(seen(k - 1, "(")) \in Nat /\ Cardinality(seen(k - 1, ")")) \in Nat
  BY <1>1, <1>2
<1>6. /\ Cardinality(seen(k, "(")) = Cardinality(seen(k - 1, "(")) + (IF infix[k] = "(" THEN 1 ELSE 0)
      /\ Cardinality(seen(k, ")")) = Cardinality(seen(k - 1, ")")) + (IF infix[k] = ")" THEN 1 ELSE 0)
  BY <1>3
<1> HIDE DEF seen
<1> QED BY <1>4, <1>5, <1>6

Part(infix, i, j) == i \in 1..Len(infix) /\ j \in 1..Len(infix) /\ i <= j
Beside(m, k, n) == m = k - 1 /\ n = k + 1
Follows(j, n)   == n = j + 1
IsLast(k, S) == k \in S /\ \A m \in S : m <= k

LEMMA CutIsLast ==
  ASSUME NEW infix, Len(infix) \in Nat, NEW i, NEW j, Part(infix, i, j),
         NEW op, Heads(infix, i, j, op) # {}
  PROVE  IsLast(Cut(infix, i, j, op), Heads(infix, i, j, op))
<1> DEFINE S == Heads(infix, i, j, op)
<1>1. S \in SUBSET (i..j) BY DEF Heads, Outermost
<1>2. i \in Nat /\ j \in Nat BY DEF Part
<1> HIDE DEF S
<1>3. Rightmost(S) \in S /\ \A m \in S : m <= Rightmost(S)
  <2>1. S # {} BY DEF S
  <2> QED BY <1>1, <1>2, <2>1, LastOf
<1>4. Cut(infix, i, j, op) = Rightmost(S) BY DEF Cut, Split, S, Heads
<1> QED BY <1>3, <1>4 DEF IsLast, S

LEMMA SplitOperand ==
  ASSUME NEW infix, Len(infix) \in Nat, NEW w, NEW i, NEW j, Part(infix, i, j),
         NEW op, Heads(infix, i, j, op) # {}, NEW m, NEW n, Beside(m, Cut(infix, i, j, op), n)
  PROVE  /\ op = "|" => PartSpans(infix, w, i, j) = PartSpans(infix, w, i, m) \cup PartSpans(infix, w, n, j)
         /\ op = "&" /\ Heads(infix, i, j, "|") = {} =>
              PartSpans(infix, w, i, j) = Chained(PartSpans(infix, w, i, m), PartSpans(infix, w, n, j))
<1> DEFINE h == SpansOf(infix, w)
           p == <<i, j>>
<1>1. p \in Parts(infix) /\ p[1] = i /\ p[2] = j BY DEF Part, Parts
<1>2. h[p] = SpanStep(h, infix, w, p) BY <1>1, SpansUnfold
<1>3. ~(j < i) /\ i <= j BY DEF Part
<1> HIDE DEF h
<1> DEFINE k == Cut(infix, i, j, op)
<1>4. Outermost(infix, p, op) # {} /\ k = Split(infix, p, op) BY DEF Heads, Cut
<1>8. m = k - 1 /\ n = k + 1 BY DEF Beside
<1>5. op = "&" /\ Heads(infix, i, j, "|") = {} => Outermost(infix, p, "|") = {} BY DEF Heads
<1> HIDE DEF p, k
<1>6. op = "|" => h[p] = h[<<i, k - 1>>] \cup h[<<k + 1, j>>]
  BY <1>1, <1>2, <1>3, <1>4, Zenon DEF SpanStep
<1>7. op = "&" /\ Outermost(infix, p, "|") = {} => h[p] = Chained(h[<<i, k - 1>>], h[<<k + 1, j>>])
  BY <1>1, <1>2, <1>3, <1>4, Zenon DEF SpanStep
<1> QED BY <1>5, <1>6, <1>7, <1>8 DEF h, p, PartSpans

LEMMA PlainOperand ==
  ASSUME NEW infix, Len(infix) \in Nat, NEW w, NEW i \in 1..Len(infix), NEW j \in 1..Len(infix), i <= j,
         Heads(infix, i, j, "|") = {}, Heads(infix, i, j, "&") = {}
  PROVE  /\ infix[j] = "*" => PartSpans(infix, w, i, j) = Repeated(PartSpans(infix, w, i, j - 1), w)
         /\ infix[j] = ")" => PartSpans(infix, w, i, j) = PartSpans(infix, w, i + 1, j - 1)
         /\ infix[j] \notin {"*", ")"} => PartSpans(infix, w, i, j) = Unit(infix[j], w)
<1> DEFINE h == SpansOf(infix, w)
           p == <<i, j>>
<1>1. p \in Parts(infix) /\ p[1] = i /\ p[2] = j BY DEF Parts
<1>2. h[p] = SpanStep(h, infix, w, p) BY <1>1, SpansUnfold
<1>3. ~(j < i) /\ i <= j OBVIOUS
<1>4. Outermost(infix, p, "|") = {} /\ Outermost(infix, p, "&") = {} BY DEF Heads
<1> HIDE DEF h, p
<1>5. h[p] = CASE infix[j] = "*" -> Repeated(h[<<i, j - 1>>], w)
               [] infix[j] = ")" -> h[<<i + 1, j - 1>>]
               [] OTHER -> Unit(infix[j], w)
  BY <1>1, <1>2, <1>3, <1>4, Zenon DEF SpanStep
<1>6. "*" # ")" OBVIOUS
<1> QED BY <1>5, <1>6 DEF h, p, PartSpans

LEMMA UnitOperand ==
  ASSUME NEW infix, Len(infix) \in Nat, NEW w, NEW k, Part(infix, k, k), infix[k] \notin {"|", "&", "*", "(", ")"}
  PROVE  Operand(infix, w, k, k, Unit(infix[k], w), {"|", "&"})
<1>0. k \in 1..Len(infix) /\ k \in Nat /\ k # 0 BY DEF Part
<1>1. Depth(infix, k) = Depth(infix, k - 1) /\ Depth(infix, k) \in Int BY <1>0, DepthStep
<1>2. \A op \in {"|", "&"} : Heads(infix, k, k, op) = {} BY <1>0 DEF Heads, Outermost
<1>3. PartSpans(infix, w, k, k) = Unit(infix[k], w)
  <2>1. k <= k BY <1>0
  <2>2. Heads(infix, k, k, "|") = {} /\ Heads(infix, k, k, "&") = {} BY <1>2
  <2> QED BY <1>0, <2>1, <2>2, PlainOperand
<1>4. \A m \in k..k : m = k BY <1>0
<1> QED BY <1>0, <1>1, <1>2, <1>3, <1>4 DEF Operand, Balanced

LEMMA RepeatedOperand ==
  ASSUME NEW infix, Len(infix) \in Nat, NEW w, NEW i, NEW j, NEW R, NEW n, Part(infix, n, n), Follows(j, n),
         Operand(infix, w, i, j, R, {"|", "&"}), infix[n] = "*"
  PROVE  Operand(infix, w, i, n, Repeated(R, w), {"|", "&"})
<1>0. n \in 1..Len(infix) /\ n = j + 1 BY DEF Part, Follows
<1>1. /\ i \in 1..Len(infix) /\ j \in 1..Len(infix) /\ i <= j /\ R = PartSpans(infix, w, i, j)
      /\ Depth(infix, j) = Depth(infix, i - 1)
      /\ \A k \in i..j : Depth(infix, k) >= Depth(infix, i - 1)
      /\ \A op \in {"|", "&"} : Heads(infix, i, j, op) = {}
  BY DEF Operand, Balanced
<1>2. i <= n /\ n - 1 = j /\ n # 0 BY <1>0, <1>1
<1>3. Depth(infix, n) = Depth(infix, j) /\ Depth(infix, j) \in Int BY <1>0, <1>2, DepthStep
<1>4. \A k \in i..n : k \in i..j \/ k = n BY <1>0, <1>1
<1>5. ASSUME NEW op \in {"|", "&"} PROVE Heads(infix, i, n, op) = {}
  <2> SUFFICES ASSUME NEW k \in Heads(infix, i, n, op) PROVE FALSE OBVIOUS
  <2>1. k \in i..n /\ infix[k] = op /\ Depth(infix, k) = Depth(infix, i - 1) BY DEF Heads, Outermost
  <2>2. k \in i..j BY <1>4, <2>1
  <2>3. k \in Heads(infix, i, j, op) BY <2>1, <2>2 DEF Heads, Outermost
  <2> QED BY <1>1, <2>3
<1>6. PartSpans(infix, w, i, n) = Repeated(R, w)
  <2>1. Heads(infix, i, n, "|") = {} /\ Heads(infix, i, n, "&") = {} BY <1>5
  <2>2. i \in 1..Len(infix) BY <1>1
  <2>3. PartSpans(infix, w, i, n) = Repeated(PartSpans(infix, w, i, n - 1), w) BY <1>0, <1>2, <2>1, <2>2, PlainOperand
  <2> QED BY <1>1, <1>2, <2>3
<1>7. \A k \in i..n : Depth(infix, k) >= Depth(infix, i - 1) BY <1>1, <1>2, <1>3, <1>4
<1> QED BY <1>0, <1>1, <1>2, <1>3, <1>5, <1>6, <1>7 DEF Operand, Balanced

LEMMA EnclosedOperand ==
  ASSUME NEW infix, Len(infix) \in Nat, NEW w, NEW i, NEW j, NEW R, NEW ops,
         NEW m, NEW n, Part(infix, m, n), Follows(m, i), Follows(j, n),
         Operand(infix, w, i, j, R, ops), infix[m] = "(", infix[n] = ")"
  PROVE  Operand(infix, w, m, n, R, {"|", "&"})
<1>0. m \in 1..Len(infix) /\ n \in 1..Len(infix) /\ i = m + 1 /\ n = j + 1 BY DEF Part, Follows
<1>1. /\ i \in 1..Len(infix) /\ j \in 1..Len(infix) /\ i <= j /\ R = PartSpans(infix, w, i, j)
      /\ Depth(infix, j) = Depth(infix, m)
      /\ \A k \in i..j : Depth(infix, k) >= Depth(infix, m)
  <2>1. i - 1 = m BY <1>0
  <2> QED BY <2>1 DEF Operand, Balanced
<1>2. m <= n /\ n - 1 = j /\ n # 0 /\ m # 0 /\ m \in Nat /\ n \in Nat BY <1>0, <1>1
<1>3. Depth(infix, n) = Depth(infix, j) - 1 /\ Depth(infix, j) \in Int BY <1>2, DepthStep
<1>4. Depth(infix, m) = Depth(infix, m - 1) + 1 /\ Depth(infix, m - 1) \in Int BY <1>2, DepthStep
<1>5. \A k \in m..n : k = m \/ k \in i..j \/ k = n BY <1>0, <1>1
<1>6. ASSUME NEW k \in m..n
      PROVE  /\ Depth(infix, k) \in Int /\ Depth(infix, k) >= Depth(infix, m - 1)
             /\ k # n => Depth(infix, k) > Depth(infix, m - 1)
  <2>1. k \in Nat /\ k # 0 BY <1>2
  <2>2. Depth(infix, k) \in Int BY <2>1, DepthStep
  <2> QED BY <1>1, <1>3, <1>4, <1>5, <2>2
<1>7. ASSUME NEW op \in {"|", "&"} PROVE Heads(infix, m, n, op) = {}
  <2> SUFFICES ASSUME NEW k \in Heads(infix, m, n, op) PROVE FALSE OBVIOUS
  <2>1. k \in m..n /\ infix[k] = op /\ Depth(infix, k) = Depth(infix, m - 1) BY DEF Heads, Outermost
  <2>2. k # n BY <2>1
  <2>3. Depth(infix, k) > Depth(infix, m - 1) /\ Depth(infix, k) \in Int BY <1>6, <2>1, <2>2
  <2> QED BY <1>4, <2>1, <2>3
<1>8. PartSpans(infix, w, m, n) = R
  <2>1. Heads(infix, m, n, "|") = {} /\ Heads(infix, m, n, "&") = {} BY <1>7
  <2>2. PartSpans(infix, w, m, n) = PartSpans(infix, w, m + 1, n - 1) BY <1>0, <1>2, <2>1, PlainOperand
  <2> QED BY <1>0, <1>1, <1>2, <2>2
<1>9. Depth(infix, n) = Depth(infix, m - 1) BY <1>1, <1>3, <1>4
<1>10. \A k \in m..n : Depth(infix, k) >= Depth(infix, m - 1) BY <1>6
<1> QED BY <1>0, <1>2, <1>7, <1>8, <1>9, <1>10 DEF Operand, Balanced

\* Two operands with an operator in between, which is then the last of the outermost ones.
LEMMA JoinedOperand ==
  ASSUME NEW infix, Len(infix) \in Nat, NEW w, NEW i, NEW k, NEW j, NEW R, NEW S, NEW ops, NEW more,
         NEW m, NEW n, Part(infix, k, k), Beside(m, k, n), Operand(infix, w, i, m, R, ops), Operand(infix, w, n, j, S, more),
         infix[k] \in {"|", "&"}, infix[k] \in more
  PROVE  /\ Balanced(infix, i, j)
         /\ \A op \in ops \cap more : op # infix[k] => Heads(infix, i, j, op) = {}
         /\ Heads(infix, i, j, infix[k]) # {} /\ Cut(infix, i, j, infix[k]) = k
<1>0. m = k - 1 /\ n = k + 1 /\ k \in 1..Len(infix) BY DEF Beside, Part
<1>1. /\ i \in 1..Len(infix) /\ m \in 1..Len(infix) /\ i <= m
      /\ Depth(infix, m) = Depth(infix, i - 1)
      /\ \A x \in i..m : Depth(infix, x) >= Depth(infix, i - 1)
      /\ \A op \in ops : Heads(infix, i, m, op) = {}
  BY DEF Operand, Balanced
<1>2. /\ n \in 1..Len(infix) /\ j \in 1..Len(infix) /\ n <= j
      /\ Depth(infix, j) = Depth(infix, k)
      /\ \A x \in n..j : Depth(infix, x) >= Depth(infix, k)
      /\ \A op \in more : Heads(infix, n, j, op) = {}
  <2>1. n - 1 = k BY <1>0
  <2> QED BY <2>1 DEF Operand, Balanced
<1>3. n - 1 = k /\ i <= j /\ k \in i..j /\ \A x \in i..j : x \in i..m \/ x = k \/ x \in n..j
  BY <1>0, <1>1, <1>2
<1>4. Depth(infix, k) = Depth(infix, m) /\ Depth(infix, m) \in Int
  <2>1. k \in Nat /\ k # 0 /\ k - 1 = m BY <1>0
  <2> QED BY <2>1, DepthStep
<1>5. Depth(infix, k) = Depth(infix, i - 1) BY <1>0, <1>1, <1>4
<1>6. ASSUME NEW op, NEW x \in Heads(infix, i, j, op)
      PROVE  x = k \/ x \in Heads(infix, i, m, op) \/ x \in Heads(infix, n, j, op)
  <2>1. x \in i..j /\ infix[x] = op /\ Depth(infix, x) = Depth(infix, i - 1) BY DEF Heads, Outermost
  <2>2. x \in i..m => x \in Heads(infix, i, m, op) BY <2>1 DEF Heads, Outermost
  <2>3. x \in n..j => x \in Heads(infix, n, j, op) BY <1>3, <1>5, <2>1 DEF Heads, Outermost
  <2> QED BY <1>3, <2>1, <2>2, <2>3
<1>7. ASSUME NEW op \in ops \cap more, op # infix[k] PROVE Heads(infix, i, j, op) = {}
  <2> SUFFICES ASSUME NEW x \in Heads(infix, i, j, op) PROVE FALSE OBVIOUS
  <2>1. infix[x] = op BY DEF Heads, Outermost
  <2> QED BY <1>1, <1>2, <1>6, <1>7, <2>1
<1>8. k \in Heads(infix, i, j, infix[k]) BY <1>3, <1>5 DEF Heads, Outermost
<1>9. \A x \in Heads(infix, i, j, infix[k]) : x <= k
  <2> TAKE x \in Heads(infix, i, j, infix[k])
  <2>1. x = k \/ x \in Heads(infix, i, m, infix[k]) BY <1>2, <1>6
  <2>2. x \in Heads(infix, i, m, infix[k]) => x \in i..m BY DEF Heads, Outermost
  <2> QED BY <1>0, <1>1, <2>1, <2>2
<1>10. Cut(infix, i, j, infix[k]) = k
  <2> DEFINE op == infix[k]
             s  == Cut(infix, i, j, op)
  <2>1. Heads(infix, i, j, op) # {} BY <1>8
  <2>2. s \in Heads(infix, i, j, op) /\ \A x \in Heads(infix, i, j, op) : x <= s
    <3> HIDE DEF op
    <3>1. Part(infix, i, j) BY <1>1, <1>2, <1>3 DEF Part
    <3>2. IsLast(s, Heads(infix, i, j, op)) BY <2>1, <3>1, CutIsLast
    <3> QED BY <3>2 DEF IsLast
  <2>3. k <= s BY <1>8, <2>2
  <2> HIDE DEF s
  <2>4. s <= k BY <1>9, <2>2
  <2>5. s \in i..j BY <2>2 DEF Heads, Outermost
  <2>6. s = k BY <1>0, <1>1, <2>3, <2>4, <2>5
  <2> QED BY <2>6 DEF s, op
<1>11. \A x \in i..j : Depth(infix, x) >= Depth(infix, i - 1) BY <1>0, <1>1, <1>2, <1>3, <1>4, <1>5
<1>12. Depth(infix, j) = Depth(infix, i - 1) BY <1>2, <1>5
<1>13. Heads(infix, i, j, infix[k]) # {} BY <1>8
<1> QED BY <1>1, <1>2, <1>3, <1>7, <1>10, <1>11, <1>12, <1>13 DEF Balanced

LEMMA ChainedOperand ==
  ASSUME NEW infix, Len(infix) \in Nat, NEW w, NEW i, NEW k, NEW j, NEW R, NEW S,
         NEW m, NEW n, Part(infix, k, k), Beside(m, k, n),
         Operand(infix, w, i, m, R, {"|"}), Operand(infix, w, n, j, S, {"|", "&"}), infix[k] = "&"
  PROVE  Operand(infix, w, i, j, Chained(R, S), {"|"})
<1>1. /\ Balanced(infix, i, j)
      /\ \A op \in {"|"} \cap {"|", "&"} : op # infix[k] => Heads(infix, i, j, op) = {}
      /\ Heads(infix, i, j, infix[k]) # {} /\ Cut(infix, i, j, infix[k]) = k
  <2> DEFINE ops  == {"|"}
             more == {"|", "&"}
  <2>1. /\ infix[k] \in {"|", "&"} /\ infix[k] \in more
        /\ Operand(infix, w, i, m, R, ops) /\ Operand(infix, w, n, j, S, more)
    OBVIOUS
  <2> HIDE DEF ops, more
  <2>2. /\ Balanced(infix, i, j)
        /\ \A op \in ops \cap more : op # infix[k] => Heads(infix, i, j, op) = {}
        /\ Heads(infix, i, j, infix[k]) # {} /\ Cut(infix, i, j, infix[k]) = k
    BY <2>1, JoinedOperand
  <2> QED BY <2>2 DEF ops, more
<1>2. Heads(infix, i, j, "|") = {} /\ Heads(infix, i, j, "&") # {} /\ Cut(infix, i, j, "&") = k
  BY <1>1
<1>3. PartSpans(infix, w, i, j) = Chained(PartSpans(infix, w, i, m), PartSpans(infix, w, n, j))
  <2> DEFINE op == "&"
  <2>1. Heads(infix, i, j, op) # {} /\ Cut(infix, i, j, op) = k /\ op = "&" BY <1>2
  <2>3. Beside(m, Cut(infix, i, j, op), n) BY <2>1
  <2> HIDE DEF op
  <2>2. Part(infix, i, j) BY <1>1 DEF Balanced, Part
  <2>4. op = "&" /\ Heads(infix, i, j, "|") = {} =>
          PartSpans(infix, w, i, j) = Chained(PartSpans(infix, w, i, m), PartSpans(infix, w, n, j))
    BY <2>1, <2>2, <2>3, SplitOperand
  <2> QED BY <1>2, <2>1, <2>4
<1>4. R = PartSpans(infix, w, i, m) /\ S = PartSpans(infix, w, n, j) BY DEF Operand, Balanced
<1>5. \A op \in {"|"} : Heads(infix, i, j, op) = {} BY <1>2
<1> QED BY <1>1, <1>3, <1>4, <1>5 DEF Operand, Balanced

LEMMA UnitedOperand ==
  ASSUME NEW infix, Len(infix) \in Nat, NEW w, NEW i, NEW k, NEW j, NEW R, NEW S,
         NEW m, NEW n, Part(infix, k, k), Beside(m, k, n),
         Operand(infix, w, i, m, R, {}), Operand(infix, w, n, j, S, {"|"}), infix[k] = "|"
  PROVE  Operand(infix, w, i, j, R \cup S, {})
<1>1. /\ Balanced(infix, i, j)
      /\ Heads(infix, i, j, infix[k]) # {} /\ Cut(infix, i, j, infix[k]) = k
  <2> DEFINE ops  == {}
             more == {"|"}
  <2>1. /\ infix[k] \in {"|", "&"} /\ infix[k] \in more
        /\ Operand(infix, w, i, m, R, ops) /\ Operand(infix, w, n, j, S, more)
    OBVIOUS
  <2> HIDE DEF ops, more
  <2>2. /\ Balanced(infix, i, j)
        /\ Heads(infix, i, j, infix[k]) # {} /\ Cut(infix, i, j, infix[k]) = k
    BY <2>1, JoinedOperand
  <2> QED BY <2>2
<1>2. PartSpans(infix, w, i, j) = PartSpans(infix, w, i, m) \cup PartSpans(infix, w, n, j)
  <2> DEFINE op == "|"
  <2>1. Heads(infix, i, j, op) # {} /\ Cut(infix, i, j, op) = k /\ op = "|" BY <1>1
  <2>3. Beside(m, Cut(infix, i, j, op), n) BY <2>1
  <2> HIDE DEF op
  <2>2. Part(infix, i, j) BY <1>1 DEF Balanced, Part
  <2>4. op = "|" => PartSpans(infix, w, i, j) = PartSpans(infix, w, i, m) \cup PartSpans(infix, w, n, j)
    BY <2>1, <2>2, <2>3, SplitOperand
  <2> QED BY <2>1, <2>4
<1>3. R = PartSpans(infix, w, i, m) /\ S = PartSpans(infix, w, n, j) BY DEF Operand, Balanced
<1> QED BY <1>1, <1>2, <1>3 DEF Operand, Balanced

\* What holds of more operators holds of fewer.
LEMMA WeakerOperand ==
  ASSUME NEW infix, NEW w, NEW i, NEW j, NEW R, NEW ops, NEW less, Operand(infix, w, i, j, R, ops), less \subseteq ops
  PROVE  Operand(infix, w, i, j, R, less)
BY DEF Operand

-----------------------------------------------------------------------------
(***************************************************************************)
(* toPostfix: the postfix expression is calculated on a stack of values,   *)
(* and the value left in the end is what the expression means.             *)
(***************************************************************************)
Spans(w) == SUBSET (Places(w) \X Places(w))
Last(s)  == s[Len(s)]
Beneath(s) == SubSeq(s, 1, Len(s) - 1)

\* From the stack s the token x makes the stack t.
Calculates(s, x, w, t) ==
  \/ x \notin {"*", "&", "|"} /\ t = Append(s, Unit(x, w))
  \/ x = "*" /\ s # <<>> /\ t = Append(Beneath(s), Repeated(Last(s), w))
  \/ x = "&" /\ Len(s) >= 2 /\ t = Append(Beneath(Beneath(s)), Chained(Last(Beneath(s)), Last(s)))
  \/ x = "|" /\ Len(s) >= 2 /\ t = Append(Beneath(Beneath(s)), Last(Beneath(s)) \cup Last(s))

\* V is the history of the stack while the expression p is calculated, s its end.
Evaluated(V, p, w, s) ==
  /\ V \in [0..Len(p) -> Seq(Spans(w))] /\ V[0] = <<>> /\ V[Len(p)] = s
  /\ \A k \in 0..Len(p) - 1 : Calculates(V[k], p[k + 1], w, V[k + 1])
Value(p, w, s) == \E V : Evaluated(V, p, w, s)

LEMMA BeneathFacts ==
  ASSUME NEW T, NEW s \in Seq(T), s # <<>>
  PROVE  /\ Len(s) \in Nat \ {0} /\ Last(s) \in T
         /\ Beneath(s) \in Seq(T) /\ Len(Beneath(s)) = Len(s) - 1
         /\ \A k \in 1..Len(s) - 1 : Beneath(s)[k] = s[k]
BY DEF Beneath, Last

LEMMA SpansClosed ==
  ASSUME NEW w, Len(w) \in Nat
  PROVE  /\ \A x : Unit(x, w) \in Spans(w)
         /\ \A R : Repeated(R, w) \in Spans(w)
         /\ \A R, S \in Spans(w) : Chained(R, S) \in Spans(w) /\ R \cup S \in Spans(w)
<1>1. \A x : Unit(x, w) \in Spans(w)
  <2> TAKE x
  <2>1. \A a \in 1..Len(w) : a - 1 \in Places(w) /\ a \in Places(w) BY DEF Places
  <2>2. {<<a, a>> : a \in Places(w)} \in Spans(w) BY DEF Spans
  <2>3. {<<a - 1, a>> : a \in {b \in 1..Len(w) : w[b] = x}} \in Spans(w) BY <2>1 DEF Spans
  <2> QED BY <2>2, <2>3 DEF Unit
<1>2. \A R : Repeated(R, w) \in Spans(w) BY DEF Repeated, Spans
<1>3. ASSUME NEW R \in Spans(w), NEW S \in Spans(w) PROVE Chained(R, S) \in Spans(w)
  <2>1. \A q \in R \X S : q[1][1] \in Places(w) /\ q[2][2] \in Places(w) BY DEF Spans
  <2>2. \A q \in {x \in R \X S : x[1][2] = x[2][1]} : <<q[1][1], q[2][2]>> \in Places(w) \X Places(w) BY <2>1
  <2> QED BY <2>2 DEF Chained, Spans
<1> QED BY <1>1, <1>2, <1>3 DEF Spans

LEMMA CalculatesType ==
  ASSUME NEW w, Len(w) \in Nat, NEW s \in Seq(Spans(w)), NEW x, NEW t, Calculates(s, x, w, t)
  PROVE  t \in Seq(Spans(w))
<1>1. CASE x \notin {"*", "&", "|"} /\ t = Append(s, Unit(x, w)) BY <1>1, SpansClosed
<1>2. CASE x = "*" /\ s # <<>> /\ t = Append(Beneath(s), Repeated(Last(s), w))
  BY <1>2, SpansClosed, BeneathFacts
<1>3. ASSUME Len(s) >= 2
      PROVE  Beneath(Beneath(s)) \in Seq(Spans(w)) /\ Last(s) \in Spans(w) /\ Last(Beneath(s)) \in Spans(w)
  <2>1. s # <<>> BY <1>3
  <2>2. Beneath(s) \in Seq(Spans(w)) /\ Len(Beneath(s)) = Len(s) - 1 /\ Last(s) \in Spans(w) BY <2>1, BeneathFacts
  <2>3. Beneath(s) # <<>> BY <1>3, <2>2
  <2> QED BY <2>2, <2>3, BeneathFacts
<1>4. CASE x = "&" /\ Len(s) >= 2 /\ t = Append(Beneath(Beneath(s)), Chained(Last(Beneath(s)), Last(s)))
  <2>1. Chained(Last(Beneath(s)), Last(s)) \in Spans(w) BY <1>3, <1>4, SpansClosed
  <2> QED BY <1>3, <1>4, <2>1
<1>5. CASE x = "|" /\ Len(s) >= 2 /\ t = Append(Beneath(Beneath(s)), Last(Beneath(s)) \cup Last(s))
  <2>1. Last(Beneath(s)) \cup Last(s) \in Spans(w) BY <1>3, <1>5, SpansClosed
  <2> QED BY <1>3, <1>5, <2>1
<1> QED BY <1>1, <1>2, <1>4, <1>5 DEF Calculates

LEMMA ValueOfNothing ==
  ASSUME NEW w
  PROVE  Value(<<>>, w, <<>>)
<1> DEFINE V == [k \in 0..0 |-> <<>>]
<1>1. V \in [0..Len(<<>>) -> Seq(Spans(w))] /\ V[0] = <<>> /\ V[Len(<<>>)] = <<>> OBVIOUS
<1>2. \A k \in 0..Len(<<>>) - 1 : FALSE OBVIOUS
<1> HIDE DEF V
<1>3. Evaluated(V, <<>>, w, <<>>) BY <1>1, <1>2 DEF Evaluated
<1> QED BY <1>3 DEF Value

LEMMA ValueGrows ==
  ASSUME NEW T, NEW p \in Seq(T), NEW w, Len(w) \in Nat, NEW s, Value(p, w, s), NEW x \in T, NEW t, Calculates(s, x, w, t)
  PROVE  Value(Append(p, x), w, t)
<1>1. PICK V : Evaluated(V, p, w, s) BY DEF Value
<1> DEFINE n == Len(p)
           q == Append(p, x)
           U == [k \in 0..n + 1 |-> IF k <= n THEN V[k] ELSE t]
<1>2. n \in Nat /\ Len(q) = n + 1 /\ \A k \in 1..n : q[k] = p[k] OBVIOUS
<1>3. q[n + 1] = x OBVIOUS
<1>4. V \in [0..n -> Seq(Spans(w))] /\ V[0] = <<>> /\ V[n] = s
  BY <1>1 DEF Evaluated
<1>5. \A k \in 0..n - 1 : Calculates(V[k], p[k + 1], w, V[k + 1]) BY <1>1 DEF Evaluated
<1> HIDE DEF n, q
<1>6. t \in Seq(Spans(w))
  <2>1. s \in Seq(Spans(w)) BY <1>2, <1>4
  <2> QED BY <2>1, CalculatesType
<1>7. U \in [0..n + 1 -> Seq(Spans(w))] BY <1>2, <1>4, <1>6
<1>8. U[0] = <<>> /\ U[n + 1] = t /\ U[n] = s /\ \A k \in 0..n : U[k] = V[k] BY <1>2, <1>4
<1> HIDE DEF U
<1>9. ASSUME NEW k \in 0..(n + 1) - 1 PROVE Calculates(U[k], q[k + 1], w, U[k + 1])
  <2>1. CASE k = n BY <1>3, <1>8, <2>1
  <2>2. CASE k # n
    <3>1. k \in 0..n - 1 /\ k \in 0..n /\ k + 1 \in 0..n /\ k + 1 \in 1..n BY <1>2, <2>2
    <3>2. U[k] = V[k] /\ U[k + 1] = V[k + 1] /\ q[k + 1] = p[k + 1] BY <1>2, <1>8, <3>1
    <3> QED BY <1>5, <3>1, <3>2
  <2> QED BY <2>1, <2>2
<1>10. Evaluated(U, q, w, t) BY <1>2, <1>7, <1>8, <1>9 DEF Evaluated
<1> QED BY <1>10 DEF Value, q

\* The tokens fall into gaps between the operators on the stack: a gap is empty, or one value
\* of the stack is what its tokens mean.  (a, b) is the gap, u and v count the values below
\* its beginning and its end; none of the operators in need is outermost in it.
Ahead(infix, n) == IF n > Len(infix) THEN ")" ELSE infix[n]
Top(ops)        == IF ops = <<>> THEN "(" ELSE Last(ops)
Need(top, ahead) ==
  IF ahead \notin {"&", "|", ")"} \/ top = "&" THEN {"|", "&"}
  ELSE IF top = "|" \/ ahead = "&" THEN {"|"} ELSE {}
Filled(infix, w, s, a, b, v, need) == v <= Len(s) /\ Operand(infix, w, a + 1, b - 1, s[v], need)
Gap(infix, w, s, a, b, u, v, need) ==
  /\ a \in Nat /\ b \in Nat /\ u \in Nat /\ v \in Nat /\ a < b
  /\ \/ b = a + 1 /\ v = u
     \/ b # a + 1 /\ v = u + 1 /\ Filled(infix, w, s, a, b, v, need)

\* An operator may lie on another only if it binds tighter.
Fits(under, op) == (under = "&" => op = "(") /\ (under = "|" => op \in {"&", "("})
Under(ops, h)   == IF h = 1 THEN "(" ELSE ops[h - 1]
Level(infix, w, ops, s, at_, below, h) ==
  /\ ops[h] \in {"(", "|", "&"} /\ at_[h] \in 1..Len(infix) /\ infix[at_[h]] = ops[h]
  /\ Gap(infix, w, s, at_[h - 1], at_[h], below[h - 1], below[h], IF ops[h] = "&" THEN {"|"} ELSE {})
  /\ at_[h] = at_[h - 1] + 1 <=> ops[h] = "("
  /\ Fits(Under(ops, h), ops[h])
Stacked(infix, w, ops, s, at_, below) ==
  /\ at_ \in [0..Len(ops) -> Nat] /\ below \in [0..Len(ops) -> Nat] /\ at_[0] = 0 /\ below[0] = 0
  /\ \A j, k \in 0..Len(ops) : j <= k => below[j] <= below[k]
  /\ \A h \in 1..Len(ops) : Level(infix, w, ops, s, at_, below, h)
Tip(infix, w, ops, s, a, u, n) ==
  /\ Gap(infix, w, s, a, n, u, Len(s), Need(Top(ops), Ahead(infix, n)))
  /\ n # a + 1 => ~Awaits(infix[n - 1])
Parsing(infix, w, ops, s, n) ==
  \E at_, below : /\ Stacked(infix, w, ops, s, at_, below)
                  /\ Tip(infix, w, ops, s, at_[Len(ops)], below[Len(ops)], n)

Alternates(infix) ==
  /\ Len(infix) \in Nat \ {0} /\ Begins(infix[1]) /\ ~Awaits(infix[Len(infix)])
  /\ \A m \in 1..Len(infix) - 1 : Begins(infix[m + 1]) <=> Awaits(infix[m])

LEMMA GapKept ==
  ASSUME NEW infix, NEW w, NEW s, NEW t, NEW a, NEW b, NEW u, NEW v, NEW n, NEW need,
         Gap(infix, w, s, a, b, u, v, need), n \in Nat, v <= n, n <= Len(t), Len(t) \in Nat,
         \A k \in 1..n : t[k] = s[k]
  PROVE  Gap(infix, w, t, a, b, u, v, need)
<1>1. a \in Nat /\ b \in Nat /\ u \in Nat /\ v \in Nat /\ a < b BY DEF Gap
<1>2. CASE b = a + 1 /\ v = u BY <1>1, <1>2 DEF Gap
<1>3. CASE b # a + 1 /\ v = u + 1 /\ Filled(infix, w, s, a, b, v, need)
  <2>1. v \in 1..n /\ v <= Len(t) BY <1>1, <1>3
  <2>2. t[v] = s[v] BY <2>1
  <2>3. Filled(infix, w, t, a, b, v, need) BY <1>3, <2>1, <2>2 DEF Filled
  <2> QED BY <1>1, <1>3, <2>3 DEF Gap
<1> QED BY <1>2, <1>3 DEF Gap

LEMMA StackedKept ==
  ASSUME NEW infix, NEW w, NEW ops, Len(ops) \in Nat, NEW s, NEW t, NEW at_, NEW below, NEW n,
         Stacked(infix, w, ops, s, at_, below), n = below[Len(ops)], n <= Len(t), Len(t) \in Nat,
         \A k \in 1..n : t[k] = s[k]
  PROVE  Stacked(infix, w, ops, t, at_, below)
<1>1. /\ at_ \in [0..Len(ops) -> Nat] /\ below \in [0..Len(ops) -> Nat] /\ at_[0] = 0 /\ below[0] = 0
      /\ \A j, k \in 0..Len(ops) : j <= k => below[j] <= below[k]
      /\ \A h \in 1..Len(ops) : Level(infix, w, ops, s, at_, below, h)
  BY DEF Stacked
<1>2. n \in Nat BY <1>1
<1>3. ASSUME NEW h \in 1..Len(ops) PROVE Level(infix, w, ops, t, at_, below, h)
  <2>1. Level(infix, w, ops, s, at_, below, h) BY <1>1
  <2>2. below[h] <= n BY <1>1
  <2>3. ASSUME NEW need, Gap(infix, w, s, at_[h - 1], at_[h], below[h - 1], below[h], need)
        PROVE  Gap(infix, w, t, at_[h - 1], at_[h], below[h - 1], below[h], need)
    BY <1>2, <2>2, <2>3, GapKept
  <2> QED BY <2>1, <2>3 DEF Level
<1> QED BY <1>1, <1>3 DEF Stacked

\* An operand stands where a gap begins, an operator or ")" where it ends.
LEMMA EmptyAt ==
  ASSUME NEW infix, Alternates(infix), NEW w, NEW ops, NEW s, NEW a, NEW u, NEW n, Tip(infix, w, ops, s, a, u, n),
         n <= Len(infix), Begins(infix[n])
  PROVE  n = a + 1
<1>1. a \in Nat /\ n \in Nat /\ a < n /\ (n # a + 1 => ~Awaits(infix[n - 1])) BY DEF Tip, Gap
<1>2. Len(infix) \in Nat BY DEF Alternates
<1>3. CASE n = 1 BY <1>1, <1>3
<1>4. CASE n # 1
  <2> DEFINE m == n - 1
  <2>1. m \in 1..Len(infix) - 1 /\ n = m + 1 BY <1>1, <1>2, <1>4
  <2> HIDE DEF m
  <2>2. Awaits(infix[m]) BY <2>1 DEF Alternates
  <2>3. m = n - 1 BY <1>1, <2>1
  <2> QED BY <1>1, <2>2, <2>3
<1> QED BY <1>3, <1>4

LEMMA FilledAt ==
  ASSUME NEW infix, Alternates(infix), NEW w, NEW ops, NEW s, NEW a, NEW u, NEW n, Tip(infix, w, ops, s, a, u, n),
         n <= Len(infix) + 1, n <= Len(infix) => ~Begins(infix[n]), a # 0 => Awaits(infix[a])
  PROVE  n # a + 1
<1>1. a \in Nat /\ n \in Nat /\ a < n BY DEF Tip, Gap
<1>2. Len(infix) \in Nat \ {0} BY DEF Alternates
<1> SUFFICES ASSUME n = a + 1 PROVE FALSE OBVIOUS
<1>3. CASE a = 0
  <2>1. n = 1 /\ 1 <= Len(infix) BY <1>2, <1>3
  <2> QED BY <2>1 DEF Alternates
<1>4. CASE a # 0 /\ a <= Len(infix) - 1
  <2>1. a \in 1..Len(infix) - 1 BY <1>1, <1>2, <1>4
  <2>2. Begins(infix[a + 1]) BY <1>4, <2>1 DEF Alternates
  <2> QED BY <1>1, <1>2, <1>4, <2>2
<1>5. CASE a # 0 /\ ~(a <= Len(infix) - 1)
  <2>1. a = Len(infix) BY <1>1, <1>2, <1>5
  <2> QED BY <1>5, <2>1 DEF Alternates
<1> QED BY <1>3, <1>4, <1>5

LEMMA GapWeaker ==
  ASSUME NEW infix, NEW w, NEW s, NEW a, NEW b, NEW u, NEW v, NEW need, NEW less,
         Gap(infix, w, s, a, b, u, v, need), less \subseteq need
  PROVE  Gap(infix, w, s, a, b, u, v, less)
<1>1. Filled(infix, w, s, a, b, v, need) => Filled(infix, w, s, a, b, v, less) BY WeakerOperand DEF Filled
<1> QED BY <1>1 DEF Gap

LEMMA TopAwaits ==
  ASSUME NEW infix, NEW w, NEW ops, Len(ops) \in Nat, NEW s, NEW at_, NEW below,
         Stacked(infix, w, ops, s, at_, below), at_[Len(ops)] # 0
  PROVE  Awaits(infix[at_[Len(ops)]])
<1>1. Len(ops) # 0 BY DEF Stacked
<1>2. Len(ops) \in 1..Len(ops) BY <1>1
<1>3. Level(infix, w, ops, s, at_, below, Len(ops)) BY <1>2 DEF Stacked
<1> QED BY <1>3 DEF Level, Awaits

LEMMA StackedParts ==
  ASSUME NEW infix, NEW w, NEW ops, NEW s, NEW at_, NEW below, Stacked(infix, w, ops, s, at_, below)
  PROVE  /\ at_ \in [0..Len(ops) -> Nat] /\ below \in [0..Len(ops) -> Nat] /\ at_[0] = 0 /\ below[0] = 0
         /\ \A j, k \in 0..Len(ops) : j <= k => below[j] <= below[k]
         /\ \A h \in 1..Len(ops) : Level(infix, w, ops, s, at_, below, h)
BY DEF Stacked

\* An operator is pushed.
LEMMA Pushed ==
  ASSUME NEW infix, Alternates(infix), NEW w, NEW T, NEW ops \in Seq(T), NEW op \in T, NEW s, Len(s) \in Nat, NEW n,
         Parsing(infix, w, ops, s, n), n <= Len(infix), infix[n] = op, op \in {"(", "|", "&"}, Fits(Top(ops), op)
  PROVE  Parsing(infix, w, Append(ops, op), s, n + 1)
<1>1. PICK at_, below : /\ Stacked(infix, w, ops, s, at_, below)
                        /\ Tip(infix, w, ops, s, at_[Len(ops)], below[Len(ops)], n)
  BY DEF Parsing
<1> DEFINE o == Len(ops)
           p == Append(ops, op)
           a == at_[o]
           u == below[o]
           A == [h \in 0..o + 1 |-> IF h <= o THEN at_[h] ELSE n]
           B == [h \in 0..o + 1 |-> IF h <= o THEN below[h] ELSE Len(s)]
<1>2. o \in Nat /\ Len(p) = o + 1 /\ p[o + 1] = op /\ \A h \in 1..o : p[h] = ops[h] OBVIOUS
<1>3. Gap(infix, w, s, a, n, u, Len(s), Need(Top(ops), Ahead(infix, n))) BY <1>1 DEF Tip
<1>4. a \in Nat /\ n \in Nat /\ u \in Nat /\ a < n /\ u <= Len(s) BY <1>3 DEF Gap
<1>5. /\ at_ \in [0..o -> Nat] /\ below \in [0..o -> Nat] /\ at_[0] = 0 /\ below[0] = 0
      /\ \A j, k \in 0..o : j <= k => below[j] <= below[k]
      /\ \A h \in 1..o : Level(infix, w, ops, s, at_, below, h)
  BY <1>1, StackedParts
<1>6. n = a + 1 <=> op = "("
  <2>1. CASE op = "("
    <3>1. Begins(infix[n]) BY <2>1 DEF Begins
    <3> QED BY <1>1, <2>1, <3>1, EmptyAt
  <2>2. CASE op # "("
    <3>1. ~Begins(infix[n]) BY <2>2 DEF Begins
    <3>2. a # 0 => Awaits(infix[a]) BY <1>1, <1>2, TopAwaits
    <3>3. n <= Len(infix) + 1 BY <1>4 DEF Alternates
    <3> HIDE DEF a, u
    <3>4. Tip(infix, w, ops, s, a, u, n) BY <1>1 DEF a, u
    <3>5. n # a + 1 BY <3>1, <3>2, <3>3, <3>4, FilledAt
    <3> QED BY <2>2, <3>5
  <2> QED BY <2>1, <2>2
<1> HIDE DEF o, p
<1>7. A \in [0..o + 1 -> Nat] /\ B \in [0..o + 1 -> Nat] BY <1>2, <1>4, <1>5
<1>8. /\ \A h \in 0..o : A[h] = at_[h] /\ B[h] = below[h]
      /\ A[o + 1] = n /\ B[o + 1] = Len(s) /\ A[0] = 0 /\ B[0] = 0 /\ A[o] = a /\ B[o] = u
  BY <1>2, <1>5
<1> HIDE DEF A, B, a
<1>9. \A j, k \in 0..o + 1 : j <= k => B[j] <= B[k]
  <2> SUFFICES ASSUME NEW j \in 0..o + 1, NEW k \in 0..o + 1, j <= k PROVE B[j] <= B[k] OBVIOUS
  <2>1. \A h \in 0..o : below[h] <= u BY <1>2, <1>5
  <2>2. CASE k = o + 1 /\ j = o + 1 BY <1>8, <2>2
  <2>3. CASE k = o + 1 /\ j # o + 1
    <3>1. j \in 0..o BY <1>2, <2>3
    <3>2. B[j] = below[j] /\ below[j] <= u /\ below[j] \in Nat BY <1>5, <1>8, <2>1, <3>1
    <3> QED BY <1>4, <1>8, <2>3, <3>2
  <2>4. CASE k # o + 1
    <3>1. j \in 0..o /\ k \in 0..o BY <1>2, <2>4
    <3> QED BY <1>5, <1>8, <3>1
  <2> QED BY <2>2, <2>3, <2>4
<1>10. ASSUME NEW h \in 1..o + 1 PROVE Level(infix, w, p, s, A, B, h)
  <2>1. CASE h # o + 1
    <3>1. h \in 1..o /\ h \in 0..o /\ h - 1 \in 0..o BY <1>2, <2>1
    <3>2. A[h] = at_[h] /\ A[h - 1] = at_[h - 1] /\ B[h] = below[h] /\ B[h - 1] = below[h - 1] /\ p[h] = ops[h]
      BY <1>2, <1>8, <3>1
    <3>3. Under(p, h) = Under(ops, h)
      <4>1. h # 1 => h - 1 \in 1..o BY <3>1
      <4> QED BY <1>2, <4>1 DEF Under
    <3>4. Level(infix, w, ops, s, at_, below, h) BY <1>5, <3>1
    <3> QED BY <3>2, <3>3, <3>4 DEF Level
  <2>2. CASE h = o + 1
    <3>1. h - 1 = o BY <1>2, <2>2
    <3>2. A[h] = n /\ A[h - 1] = a /\ B[h] = Len(s) /\ B[h - 1] = u /\ p[h] = op BY <1>2, <1>8, <2>2, <3>1
    <3>3. Under(p, h) = Top(ops)
      <4>1. CASE o = 0 BY <1>2, <2>2, <4>1 DEF Under, Top, o
      <4>2. CASE o # 0
        <5>1. o \in 1..o /\ ops # <<>> /\ h # 1 BY <1>2, <2>2, <4>2 DEF o
        <5>2. Under(p, h) = ops[o] BY <1>2, <3>1, <5>1 DEF Under
        <5> QED BY <5>1, <5>2 DEF Top, Last, o
      <4> QED BY <4>1, <4>2
    <3>4. Ahead(infix, n) = op BY <1>4 DEF Ahead, Alternates
    <3>5. (IF op = "&" THEN {"|"} ELSE {}) \subseteq Need(Top(ops), Ahead(infix, n))
      BY <3>4 DEF Need, Fits
    <3>6. Gap(infix, w, s, a, n, u, Len(s), IF op = "&" THEN {"|"} ELSE {}) BY <1>3, <3>5, GapWeaker DEF a
    <3>7. n \in 1..Len(infix) BY <1>4 DEF Alternates
    <3> HIDE DEF u
    <3> QED BY <1>6, <3>2, <3>3, <3>6, <3>7 DEF Level
  <2> QED BY <2>1, <2>2
<1>11. Stacked(infix, w, p, s, A, B) BY <1>2, <1>7, <1>8, <1>9, <1>10 DEF Stacked
<1>12. Tip(infix, w, p, s, A[Len(p)], B[Len(p)], n + 1) BY <1>2, <1>4, <1>8 DEF Tip, Gap
<1> QED BY <1>11, <1>12 DEF Parsing, p

LEMMA Uncovered ==
  ASSUME NEW infix, NEW w, NEW T, NEW ops \in Seq(T), ops # <<>>, NEW s, NEW at_, NEW below,
         Stacked(infix, w, ops, s, at_, below)
  PROVE  /\ Level(infix, w, ops, s, at_, below, Len(ops)) /\ Under(ops, Len(ops)) = Top(Beneath(ops))
         /\ \E A, B : /\ Stacked(infix, w, Beneath(ops), s, A, B)
                      /\ A[Len(Beneath(ops))] = at_[Len(ops) - 1] /\ B[Len(Beneath(ops))] = below[Len(ops) - 1]
<1> DEFINE o == Len(ops)
           p == Beneath(ops)
           A == [h \in 0..o - 1 |-> at_[h]]
           B == [h \in 0..o - 1 |-> below[h]]
<1>1. o \in Nat \ {0} /\ Len(p) = o - 1 /\ \A h \in 1..o - 1 : p[h] = ops[h] BY BeneathFacts
<1>2. /\ at_ \in [0..o -> Nat] /\ below \in [0..o -> Nat] /\ at_[0] = 0 /\ below[0] = 0
      /\ \A j, k \in 0..o : j <= k => below[j] <= below[k]
      /\ \A h \in 1..o : Level(infix, w, ops, s, at_, below, h)
  BY StackedParts
<1>3. p # <<>> <=> o # 1
  <2>1. p \in Seq(T) BY BeneathFacts
  <2> QED BY <1>1, <2>1
<1> HIDE DEF o, p
<1>4. A \in [0..o - 1 -> Nat] /\ B \in [0..o - 1 -> Nat] /\ \A h \in 0..o - 1 : A[h] = at_[h] /\ B[h] = below[h]
  BY <1>1, <1>2
<1> HIDE DEF A, B
<1>5. A[0] = 0 /\ B[0] = 0 /\ A[o - 1] = at_[o - 1] /\ B[o - 1] = below[o - 1] BY <1>1, <1>2, <1>4
<1>6. \A j, k \in 0..o - 1 : j <= k => B[j] <= B[k]
  <2> TAKE j, k \in 0..o - 1
  <2>1. j \in 0..o /\ k \in 0..o BY <1>1
  <2> QED BY <1>2, <1>4, <2>1
<1>7. ASSUME NEW h \in 1..o - 1 PROVE Level(infix, w, p, s, A, B, h)
  <2>1. h \in 1..o /\ h \in 0..o - 1 /\ h - 1 \in 0..o - 1 BY <1>1
  <2>2. A[h] = at_[h] /\ A[h - 1] = at_[h - 1] /\ B[h] = below[h] /\ B[h - 1] = below[h - 1] /\ p[h] = ops[h]
    BY <1>1, <1>4, <2>1
  <2>3. Under(p, h) = Under(ops, h)
    <3>1. h # 1 => h - 1 \in 1..o - 1 BY <2>1
    <3> QED BY <1>1, <3>1 DEF Under
  <2>4. Level(infix, w, ops, s, at_, below, h) BY <1>2, <2>1
  <2> QED BY <2>2, <2>3, <2>4 DEF Level
<1>8. Stacked(infix, w, p, s, A, B) BY <1>1, <1>4, <1>5, <1>6, <1>7 DEF Stacked
<1>9. Under(ops, o) = Top(p)
  <2>1. CASE o = 1 BY <1>3, <2>1 DEF Under, Top
  <2>2. CASE o # 1
    <3>1. Under(ops, o) = ops[o - 1] BY <2>2 DEF Under
    <3>2. Top(p) = p[o - 1] BY <1>1, <1>3, <2>2 DEF Top, Last
    <3>3. o - 1 \in 1..o - 1 BY <1>1, <2>2
    <3> QED BY <1>1, <3>1, <3>2, <3>3
  <2> QED BY <2>1, <2>2
<1>10. Level(infix, w, ops, s, at_, below, o) BY <1>1, <1>2
<1>11. \E X, Y : Stacked(infix, w, p, s, X, Y) /\ X[Len(p)] = at_[o - 1] /\ Y[Len(p)] = below[o - 1]
  BY <1>1, <1>5, <1>8
<1> QED BY <1>9, <1>10, <1>11 DEF o, p

\* "&" or "|" is popped: it joins the values of the gaps on its two sides.
LEMMA Popped ==
  ASSUME NEW infix, Alternates(infix), NEW w, NEW T, NEW ops \in Seq(T), ops # <<>>, NEW Z, NEW s \in Seq(Z), NEW n,
         Parsing(infix, w, ops, s, n), n <= Len(infix) + 1, Last(ops) \in {"|", "&"},
         Ahead(infix, n) \in {"&", "|", ")"}, Ahead(infix, n) = "&" => Last(ops) = "&",
         NEW t, \E R : t = Append(Beneath(Beneath(s)), R) /\ R = IF Last(ops) = "&" THEN Chained(Last(Beneath(s)), Last(s))
                                                          ELSE Last(Beneath(s)) \cup Last(s)
  PROVE  Len(s) >= 2 /\ Parsing(infix, w, Beneath(ops), t, n)
<1>1. PICK at_, below : /\ Stacked(infix, w, ops, s, at_, below)
                        /\ Tip(infix, w, ops, s, at_[Len(ops)], below[Len(ops)], n)
  BY DEF Parsing
<1> DEFINE o    == Len(ops)
           op   == Last(ops)
           p    == Beneath(ops)
           k    == at_[o]
           u    == below[o]
           i    == at_[o - 1]
           x    == below[o - 1]
           here == Need(op, Ahead(infix, n))
           left == IF op = "&" THEN {"|"} ELSE {}
<1>2. o \in Nat \ {0} /\ Top(ops) = op /\ op = ops[o] /\ Len(p) = o - 1 BY BeneathFacts DEF Top, Last
<1>3. Level(infix, w, ops, s, at_, below, o) /\ Under(ops, o) = Top(p) BY <1>1, Uncovered
<1>4. PICK A, B : Stacked(infix, w, p, s, A, B) /\ A[Len(p)] = i /\ B[Len(p)] = x BY <1>1, Uncovered
<1>5. Tip(infix, w, ops, s, k, u, n) /\ (k # 0 => Awaits(infix[k])) BY <1>1, <1>2, TopAwaits
<1>6. op \in {"|", "&"} OBVIOUS
<1> HIDE DEF o, p, op, k, u, i, x
<1>7. /\ k \in 1..Len(infix) /\ infix[k] = op /\ Gap(infix, w, s, i, k, x, u, left)
      /\ k # i + 1 /\ Fits(Top(p), op)
  BY <1>2, <1>3, <1>6 DEF Level, k, i, x, u
<1>8. Gap(infix, w, s, k, n, u, Len(s), here) /\ (n # k + 1 => ~Awaits(infix[n - 1])) BY <1>2, <1>5 DEF Tip
<1>9. n # k + 1
  <2>1. n <= Len(infix) => ~Begins(infix[n])
    <3>1. n <= Len(infix) => Ahead(infix, n) = infix[n] BY <1>8 DEF Ahead, Gap, Alternates
    <3> QED BY <3>1 DEF Begins
  <2> QED BY <1>5, <2>1, FilledAt
<1>10. /\ i \in Nat /\ k \in Nat /\ n \in Nat /\ x \in Nat /\ u \in Nat /\ i < k /\ k < n
       /\ u = x + 1 /\ Len(s) = u + 1
       /\ Operand(infix, w, i + 1, k - 1, s[u], left) /\ Operand(infix, w, k + 1, n - 1, s[Len(s)], here)
  BY <1>7, <1>8, <1>9 DEF Gap, Filled
<1>11. Len(s) >= 2 /\ s # <<>> BY <1>10
<1>12. /\ Last(s) = s[Len(s)] /\ Beneath(s) \in Seq(Z) /\ Len(Beneath(s)) = u /\ Last(Beneath(s)) = s[u]
       /\ Beneath(Beneath(s)) \in Seq(Z) /\ Len(Beneath(Beneath(s))) = x /\ \A v \in 1..x : Beneath(Beneath(s))[v] = s[v]
  <2>1. Beneath(s) \in Seq(Z) /\ Len(Beneath(s)) = u /\ \A v \in 1..u : Beneath(s)[v] = s[v]
    <3>1. /\ Beneath(s) \in Seq(Z) /\ Len(Beneath(s)) = Len(s) - 1
          /\ \A v \in 1..Len(s) - 1 : Beneath(s)[v] = s[v]
      BY <1>11, BeneathFacts
    <3>2. Len(s) - 1 = u BY <1>10
    <3> QED BY <3>1, <3>2
  <2>2. Beneath(s) # <<>> BY <1>10, <2>1
  <2>3. Beneath(Beneath(s)) \in Seq(Z) /\ Len(Beneath(Beneath(s))) = x /\ \A v \in 1..x : Beneath(Beneath(s))[v] = Beneath(s)[v]
    <3> DEFINE f == Beneath(s)
    <3> HIDE DEF f
    <3>1. f \in Seq(Z) /\ f # <<>> BY <2>1, <2>2 DEF f
    <3>2. /\ Beneath(f) \in Seq(Z) /\ Len(Beneath(f)) = Len(f) - 1
          /\ \A v \in 1..Len(f) - 1 : Beneath(f)[v] = f[v]
      BY <3>1, BeneathFacts
    <3>3. Len(f) - 1 = x BY <1>10, <2>1 DEF f
    <3> QED BY <3>2, <3>3 DEF f
  <2>4. Last(Beneath(s)) = s[u] BY <1>10, <2>1 DEF Last
  <2>5. \A v \in 1..x : v \in 1..u BY <1>10
  <2> QED BY <2>1, <2>3, <2>4, <2>5 DEF Last
<1> DEFINE R == IF op = "&" THEN Chained(Last(Beneath(s)), Last(s)) ELSE Last(Beneath(s)) \cup Last(s)
<1>13. t = Append(Beneath(Beneath(s)), R) BY DEF op
<1> HIDE DEF R
<1>14. Len(t) = u /\ t[u] = R /\ \A v \in 1..x : t[v] = s[v]
  <2>1. Len(t) = x + 1 /\ t[x + 1] = R /\ \A v \in 1..x : t[v] = Beneath(Beneath(s))[v] BY <1>10, <1>12, <1>13
  <2> QED BY <1>10, <1>12, <2>1
<1>15. Operand(infix, w, i + 1, n - 1, R, IF op = "&" THEN {"|"} ELSE {})
  <2> DEFINE b == i + 1
             e == n - 1
             m == k - 1
             d == k + 1
  <2>1. Beside(m, k, d) /\ Part(infix, k, k) BY <1>7, <1>10 DEF Beside, Part
  <2>2. Operand(infix, w, b, m, s[u], left) /\ Operand(infix, w, d, e, s[Len(s)], here) BY <1>10
  <2>3. Len(infix) \in Nat BY DEF Alternates
  <2> HIDE DEF b, e, m, d
  <2>4. CASE op = "&"
    <3>1. here = {"|", "&"} /\ left = {"|"} BY <2>4 DEF Need
    <3>2. R = Chained(s[u], s[Len(s)]) BY <1>12, <2>4 DEF R
    <3>3. Operand(infix, w, b, e, Chained(s[u], s[Len(s)]), {"|"})
      BY <1>7, <2>1, <2>2, <2>3, <2>4, <3>1, ChainedOperand
    <3> QED BY <2>4, <3>2, <3>3 DEF b, e
  <2>5. CASE op # "&"
    <3>1. op = "|" BY <1>6, <2>5
    <3>2. here = {"|"} /\ left = {} BY <2>5, <3>1 DEF Need, op
    <3>3. R = s[u] \cup s[Len(s)] BY <1>12, <2>5 DEF R
    <3>4. Operand(infix, w, b, e, s[u] \cup s[Len(s)], {})
      BY <1>7, <2>1, <2>2, <2>3, <3>1, <3>2, UnitedOperand
    <3> QED BY <2>5, <3>3, <3>4 DEF b, e
  <2> QED BY <2>4, <2>5
<1>16. Need(Top(p), Ahead(infix, n)) \subseteq IF op = "&" THEN {"|"} ELSE {}
  BY <1>6, <1>7 DEF Need, Fits, op
<1>17. Stacked(infix, w, p, t, A, B)
  <2>1. x <= Len(t) /\ Len(t) \in Nat /\ Len(p) \in Nat BY <1>2, <1>10, <1>14
  <2> QED BY <1>4, <1>14, <2>1, StackedKept
<1>18. Gap(infix, w, t, i, n, x, Len(t), Need(Top(p), Ahead(infix, n)))
  <2>1. n # i + 1 BY <1>10
  <2>2. Gap(infix, w, t, i, n, x, Len(t), IF op = "&" THEN {"|"} ELSE {})
    <3>1. Filled(infix, w, t, i, n, Len(t), IF op = "&" THEN {"|"} ELSE {})
      <4>1. t[Len(t)] = R /\ Len(t) <= Len(t) BY <1>10, <1>14
      <4> QED BY <1>15, <4>1 DEF Filled
    <3>2. Len(t) = x + 1 /\ i < n BY <1>10, <1>14
    <3> QED BY <1>10, <2>1, <3>1, <3>2 DEF Gap
  <2> QED BY <1>16, <2>2, GapWeaker
<1>19. Tip(infix, w, p, t, A[Len(p)], B[Len(p)], n) BY <1>4, <1>8, <1>9, <1>18 DEF Tip
<1> QED BY <1>11, <1>17, <1>19 DEF Parsing, p

\* ")" takes the "(" and the gap behind it together.
LEMMA ParenthesisClosed ==
  ASSUME NEW infix, Alternates(infix), NEW w, NEW T, NEW ops \in Seq(T), ops # <<>>, NEW s, Len(s) \in Nat, NEW n,
         Parsing(infix, w, ops, s, n), n <= Len(infix), Last(ops) = "(", infix[n] = ")"
  PROVE  Parsing(infix, w, Beneath(ops), s, n + 1)
<1>1. PICK at_, below : /\ Stacked(infix, w, ops, s, at_, below)
                        /\ Tip(infix, w, ops, s, at_[Len(ops)], below[Len(ops)], n)
  BY DEF Parsing
<1> DEFINE o    == Len(ops)
           p    == Beneath(ops)
           k    == at_[o]
           u    == below[o]
           i    == at_[o - 1]
           x    == below[o - 1]
           here == Need(Top(ops), Ahead(infix, n))
<1>2. o \in Nat \ {0} /\ ops[o] = "(" /\ Len(p) = o - 1 BY BeneathFacts DEF Last
<1>3. Level(infix, w, ops, s, at_, below, o) BY <1>1, Uncovered
<1>4. PICK A, B : Stacked(infix, w, p, s, A, B) /\ A[Len(p)] = i /\ B[Len(p)] = x BY <1>1, Uncovered
<1>5. Tip(infix, w, ops, s, k, u, n) /\ (k # 0 => Awaits(infix[k])) BY <1>1, <1>2, TopAwaits
<1>6. Len(infix) \in Nat BY DEF Alternates
<1> HIDE DEF o, p, k, u, i, x, here
<1>7. k \in 1..Len(infix) /\ infix[k] = "(" /\ Gap(infix, w, s, i, k, x, u, {}) /\ k = i + 1
  BY <1>2, <1>3 DEF Level, k, i, x, u
<1>8. Gap(infix, w, s, k, n, u, Len(s), here) BY <1>2, <1>5 DEF Tip, here
<1>9. n # k + 1
  <2>1. ~Begins(infix[n]) /\ n <= Len(infix) + 1 BY <1>6, <1>8 DEF Begins, Gap
  <2> QED BY <1>5, <2>1, FilledAt
<1>10. /\ i \in Nat /\ k \in Nat /\ n \in Nat /\ x \in Nat /\ i < k /\ k < n
       /\ u = x /\ Len(s) = x + 1 /\ Operand(infix, w, k + 1, n - 1, s[Len(s)], here)
  BY <1>7, <1>8, <1>9 DEF Gap, Filled
<1>11. Operand(infix, w, k, n, s[Len(s)], {"|", "&"})
  <2> DEFINE b == k + 1
             e == n - 1
  <2>1. Part(infix, k, n) /\ Follows(k, b) /\ Follows(e, n) BY <1>6, <1>7, <1>10 DEF Part, Follows
  <2>2. Operand(infix, w, b, e, s[Len(s)], here) BY <1>10
  <2> HIDE DEF b, e
  <2> QED BY <1>6, <1>7, <2>1, <2>2, EnclosedOperand
<1>12. Need(Top(p), Ahead(infix, n + 1)) \subseteq {"|", "&"} BY DEF Need
<1>13. Gap(infix, w, s, i, n + 1, x, Len(s), Need(Top(p), Ahead(infix, n + 1)))
  <2>1. Filled(infix, w, s, i, n + 1, Len(s), {"|", "&"})
    <3>1. (n + 1) - 1 = n /\ i + 1 = k /\ Len(s) <= Len(s) BY <1>7, <1>10
    <3> QED BY <1>11, <3>1 DEF Filled
  <2>2. n + 1 # i + 1 /\ n + 1 \in Nat /\ i < n + 1 /\ Len(s) = x + 1 BY <1>10
  <2>3. Gap(infix, w, s, i, n + 1, x, Len(s), {"|", "&"}) BY <1>10, <2>1, <2>2 DEF Gap
  <2> QED BY <1>12, <2>3, GapWeaker
<1>14. Tip(infix, w, p, s, A[Len(p)], B[Len(p)], n + 1)
  <2>1. (n + 1) - 1 = n BY <1>10
  <2> QED BY <1>4, <1>13, <2>1 DEF Tip, Awaits
<1> QED BY <1>4, <1>14 DEF Parsing, p

\* A new value replaces what the stack has above the gap's beginning.
LEMMA GapRead ==
  ASSUME NEW infix, NEW w, NEW ops, Len(ops) \in Nat, NEW s, NEW at_, NEW below, NEW n \in Nat,
         Stacked(infix, w, ops, s, at_, below), NEW a, a = at_[Len(ops)], NEW u, u = below[Len(ops)], a < n,
         NEW t, Len(t) \in Nat, Len(t) = u + 1, \A v \in 1..u : t[v] = s[v],
         Operand(infix, w, a + 1, n, t[Len(t)], {"|", "&"}), ~Awaits(infix[n])
  PROVE  Parsing(infix, w, ops, t, n + 1)
<1>1. a \in Nat /\ u \in Nat BY DEF Stacked
<1>2. Stacked(infix, w, ops, t, at_, below)
  <2>1. u <= Len(t) BY <1>1
  <2> QED BY <2>1, StackedKept
<1>3. Filled(infix, w, t, a, n + 1, Len(t), {"|", "&"})
  <2>1. (n + 1) - 1 = n /\ Len(t) <= Len(t) OBVIOUS
  <2> QED BY <2>1 DEF Filled
<1>4. Gap(infix, w, t, a, n + 1, u, Len(t), Need(Top(ops), Ahead(infix, n + 1)))
  <2>1. n + 1 # a + 1 /\ n + 1 \in Nat /\ a < n + 1 BY <1>1
  <2>2. Gap(infix, w, t, a, n + 1, u, Len(t), {"|", "&"}) BY <1>1, <1>3, <2>1 DEF Gap
  <2>3. Need(Top(ops), Ahead(infix, n + 1)) \subseteq {"|", "&"} BY DEF Need
  <2> QED BY <2>2, <2>3, GapWeaker
<1>5. Tip(infix, w, ops, t, a, u, n + 1)
  <2>1. (n + 1) - 1 = n OBVIOUS
  <2> QED BY <1>4, <2>1 DEF Tip
<1> QED BY <1>2, <1>5 DEF Parsing

LEMMA OperandRead ==
  ASSUME NEW infix, Alternates(infix), NEW w, NEW ops, Len(ops) \in Nat, NEW Z, NEW s \in Seq(Z), NEW n,
         Parsing(infix, w, ops, s, n), n <= Len(infix), infix[n] \notin {"(", ")", "|", "&", "*"},
         Unit(infix[n], w) \in Z
  PROVE  Parsing(infix, w, ops, Append(s, Unit(infix[n], w)), n + 1)
<1>1. PICK at_, below : /\ Stacked(infix, w, ops, s, at_, below)
                        /\ Tip(infix, w, ops, s, at_[Len(ops)], below[Len(ops)], n)
  BY DEF Parsing
<1> DEFINE a == at_[Len(ops)]
           u == below[Len(ops)]
           R == Unit(infix[n], w)
           t == Append(s, R)
<1>2. Begins(infix[n]) /\ ~Awaits(infix[n]) /\ Len(infix) \in Nat BY DEF Begins, Awaits, Alternates
<1>3. n = a + 1 BY <1>1, <1>2, EmptyAt
<1>4. a \in Nat /\ n \in Nat /\ u \in Nat /\ Len(s) = u BY <1>1, <1>3 DEF Tip, Gap
<1> HIDE DEF R, a, u
<1>5. Len(t) = u + 1 /\ t[Len(t)] = R /\ \A v \in 1..u : t[v] = s[v] BY <1>4 DEF R
<1>6. Operand(infix, w, n, n, R, {"|", "&"})
  <2>1. Part(infix, n, n) BY <1>2, <1>3, <1>4 DEF Part
  <2> QED BY <1>2, <2>1, UnitOperand DEF R
<1> HIDE DEF t
<1>7. Parsing(infix, w, ops, t, n + 1)
  <2>1. Operand(infix, w, a + 1, n, t[Len(t)], {"|", "&"}) BY <1>3, <1>5, <1>6
  <2>2. Len(t) \in Nat /\ a < n BY <1>3, <1>4, <1>5
  <2> QED BY <1>1, <1>2, <1>4, <1>5, <2>1, <2>2, GapRead DEF a, u
<1> QED BY <1>7 DEF t, R

LEMMA StarRead ==
  ASSUME NEW infix, Alternates(infix), NEW w, NEW ops, Len(ops) \in Nat, NEW Z, NEW s \in Seq(Z), NEW n,
         Parsing(infix, w, ops, s, n), n <= Len(infix), infix[n] = "*"
  PROVE  s # <<>> /\ Parsing(infix, w, ops, Append(Beneath(s), Repeated(Last(s), w)), n + 1)
<1>1. PICK at_, below : /\ Stacked(infix, w, ops, s, at_, below)
                        /\ Tip(infix, w, ops, s, at_[Len(ops)], below[Len(ops)], n)
  BY DEF Parsing
<1> DEFINE a == at_[Len(ops)]
           u == below[Len(ops)]
           R == Repeated(Last(s), w)
           t == Append(Beneath(s), R)
<1>2. ~Begins(infix[n]) /\ ~Awaits(infix[n]) /\ Len(infix) \in Nat BY DEF Begins, Awaits, Alternates
<1>3. Gap(infix, w, s, a, n, u, Len(s), Need(Top(ops), Ahead(infix, n))) BY <1>1 DEF Tip
<1>4. n # a + 1
  <2>1. a # 0 => Awaits(infix[a]) BY <1>1, TopAwaits
  <2>2. n <= Len(infix) + 1 BY <1>2, <1>3 DEF Gap
  <2> HIDE DEF a, u
  <2>3. Tip(infix, w, ops, s, a, u, n) BY <1>1 DEF a, u
  <2> QED BY <1>2, <2>1, <2>2, <2>3, FilledAt
<1>5. Need(Top(ops), Ahead(infix, n)) = {"|", "&"}
  <2>1. Ahead(infix, n) = "*" BY <1>2, <1>3 DEF Ahead, Gap
  <2> QED BY <2>1 DEF Need
<1> HIDE DEF a, u, R
<1>6. /\ a \in Nat /\ n \in Nat /\ u \in Nat /\ a < n /\ Len(s) = u + 1
      /\ Operand(infix, w, a + 1, n - 1, s[Len(s)], {"|", "&"})
  BY <1>3, <1>4, <1>5 DEF Gap, Filled
<1>7. s # <<>> BY <1>6
<1>8. Last(s) = s[Len(s)] /\ Len(t) = u + 1 /\ t[Len(t)] = R /\ \A v \in 1..u : t[v] = s[v]
  <2>1. Beneath(s) \in Seq(Z) /\ Len(Beneath(s)) = Len(s) - 1 /\ \A v \in 1..Len(s) - 1 : Beneath(s)[v] = s[v]
    BY <1>7, BeneathFacts
  <2>2. Len(s) - 1 = u BY <1>6
  <2>3. Len(t) = u + 1 /\ t[u + 1] = R /\ \A v \in 1..u : t[v] = Beneath(s)[v] BY <1>6, <2>1, <2>2
  <2> QED BY <2>1, <2>2, <2>3 DEF Last
<1>9. Operand(infix, w, a + 1, n, R, {"|", "&"})
  <2> DEFINE b == a + 1
             e == n - 1
  <2>1. Part(infix, n, n) /\ Follows(e, n) BY <1>2, <1>6 DEF Part, Follows
  <2>2. Operand(infix, w, b, e, s[Len(s)], {"|", "&"}) BY <1>6
  <2> HIDE DEF b, e
  <2>3. Operand(infix, w, b, n, Repeated(s[Len(s)], w), {"|", "&"}) BY <1>2, <2>1, <2>2, RepeatedOperand
  <2> QED BY <1>8, <2>3 DEF b, R
<1> HIDE DEF t
<1>10. Parsing(infix, w, ops, t, n + 1)
  <2>1. Operand(infix, w, a + 1, n, t[Len(t)], {"|", "&"}) BY <1>8, <1>9
  <2>2. Len(t) \in Nat BY <1>6, <1>8
  <2> QED BY <1>1, <1>2, <1>6, <1>8, <2>1, <2>2, GapRead DEF a, u
<1> QED BY <1>7, <1>10 DEF t, R

LEMMA ParsingStarts ==
  ASSUME NEW infix, NEW w
  PROVE  Parsing(infix, w, <<>>, <<>>, 1)
<1> DEFINE A == [h \in 0..0 |-> 0]
<1>1. Len(<<>>) = 0 OBVIOUS
<1>2. A \in [0..0 -> Nat] /\ A[0] = 0 OBVIOUS
<1> HIDE DEF A
<1>3. Stacked(infix, w, <<>>, <<>>, A, A) BY <1>1, <1>2 DEF Stacked
<1>4. Tip(infix, w, <<>>, <<>>, A[Len(<<>>)], A[Len(<<>>)], 1) BY <1>1, <1>2 DEF Tip, Gap
<1> QED BY <1>3, <1>4 DEF Parsing

\* In the end one value is left.
LEMMA ParsingEnds ==
  ASSUME NEW infix, Alternates(infix), NEW w, NEW Z, NEW s \in Seq(Z), NEW n,
         Parsing(infix, w, <<>>, s, n), n > Len(infix), n <= Len(infix) + 1
  PROVE  s = <<Meaning(infix, w)>>
<1>1. PICK at_, below : /\ Stacked(infix, w, <<>>, s, at_, below)
                        /\ Tip(infix, w, <<>>, s, at_[Len(<<>>)], below[Len(<<>>)], n)
  BY DEF Parsing
<1>2. at_[Len(<<>>)] = 0 /\ below[Len(<<>>)] = 0 BY <1>1 DEF Stacked
<1>3. Gap(infix, w, s, 0, n, 0, Len(s), Need(Top(<<>>), Ahead(infix, n))) BY <1>1, <1>2 DEF Tip
<1>4. n \in Nat /\ n = Len(infix) + 1 /\ Len(infix) \in Nat \ {0} BY <1>3 DEF Gap, Alternates
<1>5. Len(s) = 1 /\ Operand(infix, w, 1, Len(infix), s[1], Need(Top(<<>>), Ahead(infix, n)))
  BY <1>3, <1>4 DEF Gap, Filled
<1>6. s[1] = Meaning(infix, w) BY <1>4, <1>5, SpansUnfold DEF Operand, PartSpans
<1> QED BY <1>5, <1>6

-----------------------------------------------------------------------------
(***************************************************************************)
(* buildNFA: what an automaton spells.  A marking gives every node places  *)
(* of the text; an automaton leads from a node at a place to another if    *)
(* every marking does that the edges keep.                                 *)
(***************************************************************************)
Rel(R, a, b)    == <<a, b>> \in R
Via(c, w, a, b) == Rel(Unit(c, w), a, b)
Markings(E, w)  == [DOMAIN E -> SUBSET Places(w)]
Keeps(T, E, w)  ==
  \A n \in DOMAIN E : \A e \in E[n] : \A a \in T[n] : \A b \in Places(w) : Via(e[1], w, a, b) => b \in T[e[2]]
Leads(E, w, a, m, b, n) == \A T \in Markings(E, w) : a \in T[m] /\ Keeps(T, E, w) => b \in T[n]

Region(E, I)      == I \subseteq DOMAIN E /\ \A n \in I : \A e \in E[n] : e[2] \in I
Piece(E, I, m, n) == Region(E, I) /\ m \in I /\ n \in I /\ E[n] = {}
Spells(E, w, m, n, R) ==
  R \in Spans(w) /\ \A a, b \in Places(w) : Rel(R, a, b) <=> Leads(E, w, a, m, b, n)

LEMMA EmptyMove ==
  ASSUME NEW w, NEW a, NEW b
  PROVE  Via("eps", w, a, b) <=> a = b /\ a \in Places(w)
BY DEF Via, Rel, Unit

LEMMA RelOfChained ==
  ASSUME NEW w, NEW R \in Spans(w), NEW S \in Spans(w), NEW a, NEW c
  PROVE  Rel(Chained(R, S), a, c) <=> \E b \in Places(w) : Rel(R, a, b) /\ Rel(S, b, c)
<1>1. ASSUME Rel(Chained(R, S), a, c) PROVE \E b \in Places(w) : Rel(R, a, b) /\ Rel(S, b, c)
  <2>1. PICK q \in {x \in R \X S : x[1][2] = x[2][1]} : <<a, c>> = <<q[1][1], q[2][2]>>
    BY <1>1 DEF Rel, Chained
  <2>2. q[1] \in R /\ q[2] \in S /\ q[1][2] = q[2][1] /\ a = q[1][1] /\ c = q[2][2] BY <2>1
  <2>3. q[1] = <<a, q[1][2]>> /\ q[2] = <<q[1][2], c>> /\ q[1][2] \in Places(w) BY <2>2 DEF Spans
  <2> QED BY <2>2, <2>3 DEF Rel
<1>2. ASSUME NEW b \in Places(w), Rel(R, a, b), Rel(S, b, c) PROVE Rel(Chained(R, S), a, c)
  <2> DEFINE q == <<<<a, b>>, <<b, c>>>>
  <2>1. q \in R \X S /\ q[1][2] = q[2][1] BY <1>2 DEF Rel
  <2>2. <<q[1][1], q[2][2]>> \in Chained(R, S) BY <2>1 DEF Chained
  <2> QED BY <2>2 DEF Rel
<1> QED BY <1>1, <1>2

Carries(R, T) == \A a \in T : \A b : Rel(R, a, b) => b \in T

LEMMA RelOfRepeated ==
  ASSUME NEW w, NEW R \in Spans(w), NEW a \in Places(w), NEW b \in Places(w)
  PROVE  Rel(Repeated(R, w), a, b) <=> \A T \in SUBSET Places(w) : a \in T /\ Carries(R, T) => b \in T
<1> DEFINE p == <<a, b>>
<1>1. p \in Places(w) \X Places(w) /\ p[1] = a /\ p[2] = b OBVIOUS
<1>2. ASSUME NEW T \in SUBSET Places(w)
      PROVE  Carries(R, T) <=> \A q \in R : q[1] \in T => q[2] \in T
  <2>1. \A q \in R : q = <<q[1], q[2]>> BY DEF Spans
  <2> QED BY <2>1 DEF Carries, Rel
<1> HIDE DEF p
<1>3. p \in Repeated(R, w) <=>
        \A T \in SUBSET Places(w) : p[1] \in T /\ (\A q \in R : q[1] \in T => q[2] \in T) => p[2] \in T
  BY <1>1 DEF Repeated
<1>4. p \in Repeated(R, w) <=> \A T \in SUBSET Places(w) : a \in T /\ Carries(R, T) => b \in T
  BY <1>1, <1>2, <1>3
<1> QED BY <1>4 DEF p, Rel

LEMMA LeadsStarts ==
  ASSUME NEW E, NEW w, NEW a, NEW m
  PROVE  Leads(E, w, a, m, a, m)
BY DEF Leads

LEMMA LeadsOn ==
  ASSUME NEW E, NEW w, NEW a, NEW m, NEW b, NEW n \in DOMAIN E, Leads(E, w, a, m, b, n),
         NEW e \in E[n], NEW c \in Places(w), Via(e[1], w, b, c)
  PROVE  Leads(E, w, a, m, c, e[2])
BY DEF Leads, Keeps

\* What lies outside of a closed region does not matter.
LEMMA Local ==
  ASSUME NEW E, NEW F, NEW w, NEW I, Region(E, I), Region(F, I), \A x \in I : E[x] = F[x],
         NEW m \in I, NEW n \in I, NEW a, NEW b, Leads(E, w, a, m, b, n)
  PROVE  Leads(F, w, a, m, b, n)
<1> SUFFICES ASSUME NEW T \in Markings(F, w), a \in T[m], Keeps(T, F, w) PROVE b \in T[n]
  BY DEF Leads
<1> DEFINE U == [x \in DOMAIN E |-> IF x \in I THEN T[x] ELSE {}]
<1>1. I \subseteq DOMAIN E /\ I \subseteq DOMAIN F BY DEF Region
<1>2. U \in Markings(E, w) BY <1>1 DEF Markings
<1>3. \A x \in I : U[x] = T[x] BY <1>1
<1>4. \A x \in DOMAIN E : x \notin I => U[x] = {} OBVIOUS
<1> HIDE DEF U
<1>5. Keeps(U, E, w)
  <2> SUFFICES ASSUME NEW x \in DOMAIN E, NEW e \in E[x], NEW p \in U[x], NEW q \in Places(w), Via(e[1], w, p, q)
               PROVE  q \in U[e[2]]
    BY DEF Keeps
  <2>1. x \in I BY <1>4
  <2>2. e \in F[x] /\ e[2] \in I /\ x \in DOMAIN F /\ p \in T[x] BY <1>1, <1>3, <2>1 DEF Region
  <2>3. q \in T[e[2]] BY <2>2 DEF Keeps
  <2> QED BY <1>3, <2>2, <2>3
<1>6. b \in U[n] BY <1>2, <1>3, <1>5 DEF Leads
<1> QED BY <1>3, <1>6

LEMMA SpellsLocal ==
  ASSUME NEW E, NEW F, NEW w, NEW I, Region(E, I), Region(F, I), \A x \in I : E[x] = F[x],
         NEW m \in I, NEW n \in I, NEW R, Spells(E, w, m, n, R)
  PROVE  Spells(F, w, m, n, R)
BY Local DEF Spells

\* Edges behind the end of a piece take nothing away.
LEMMA LeadsInside ==
  ASSUME NEW E, NEW F, NEW w, NEW I, NEW s, NEW t, Piece(E, I, s, t), I \subseteq DOMAIN F,
         \A x \in I : x # t => F[x] = E[x],
         NEW n \in I, NEW a, NEW b, Leads(E, w, a, s, b, n)
  PROVE  Leads(F, w, a, s, b, n)
<1> SUFFICES ASSUME NEW T \in Markings(F, w), a \in T[s], Keeps(T, F, w) PROVE b \in T[n]
  BY DEF Leads
<1> DEFINE U == [x \in DOMAIN E |-> IF x \in I THEN T[x] ELSE {}]
<1>1. I \subseteq DOMAIN E /\ s \in I /\ E[t] = {} BY DEF Piece, Region
<1>2. U \in Markings(E, w) BY <1>1 DEF Markings
<1>3. \A x \in I : U[x] = T[x] BY <1>1
<1>4. \A x \in DOMAIN E : x \notin I => U[x] = {} OBVIOUS
<1> HIDE DEF U
<1>5. Keeps(U, E, w)
  <2> SUFFICES ASSUME NEW x \in DOMAIN E, NEW e \in E[x], NEW p \in U[x], NEW q \in Places(w), Via(e[1], w, p, q)
               PROVE  q \in U[e[2]]
    BY DEF Keeps
  <2>1. x \in I /\ x # t BY <1>1, <1>4
  <2>2. e \in F[x] /\ e[2] \in I /\ x \in DOMAIN F /\ p \in T[x] BY <1>3, <2>1 DEF Piece, Region
  <2>3. q \in T[e[2]] BY <2>2 DEF Keeps
  <2> QED BY <1>3, <2>2, <2>3
<1>6. b \in U[n] BY <1>1, <1>2, <1>3, <1>5 DEF Leads
<1> QED BY <1>3, <1>6

LEMMA LeadsThen ==
  ASSUME NEW E, NEW w, NEW a, NEW m, NEW b, NEW n, NEW c, NEW k, Leads(E, w, a, m, b, n), Leads(E, w, b, n, c, k)
  PROVE  Leads(E, w, a, m, c, k)
BY DEF Leads

LEMMA EmptyEdges ==
  ASSUME NEW F, NEW w, NEW x \in DOMAIN F, NEW Z, F[x] = {"eps"} \X Z
  PROVE  /\ \A e \in F[x] : e[1] = "eps" /\ e[2] \in Z
         /\ \A a, m : \A b \in Places(w) : \A z \in Z : Leads(F, w, a, m, b, x) => Leads(F, w, a, m, b, z)
<1>1. \A e \in F[x] : e[1] = "eps" /\ e[2] \in Z OBVIOUS
<1>2. ASSUME NEW a, NEW m, NEW b \in Places(w), NEW z \in Z, Leads(F, w, a, m, b, x) PROVE Leads(F, w, a, m, b, z)
  <2> DEFINE e == <<"eps", z>>
  <2>1. e \in F[x] /\ e[1] = "eps" /\ e[2] = z OBVIOUS
  <2>2. Via(e[1], w, b, b) BY <2>1, EmptyMove
  <2> HIDE DEF e
  <2>3. Leads(F, w, a, m, b, e[2]) BY <1>2, <2>1, <2>2, LeadsOn
  <2> QED BY <2>1, <2>3
<1> QED BY <1>1, <1>2

LEMMA AtomSpells ==
  ASSUME NEW F, NEW w, Len(w) \in Nat, NEW m \in DOMAIN F, NEW n \in DOMAIN F, m # n, NEW c,
         F[m] = {<<c, n>>}, F[n] = {}
  PROVE  Piece(F, {m, n}, m, n) /\ Spells(F, w, m, n, Unit(c, w))
<1> DEFINE e == <<c, n>>
<1>1. e \in F[m] /\ e[1] = c /\ e[2] = n /\ \A d \in F[m] : d = e OBVIOUS
<1> HIDE DEF e
<1>2. Piece(F, {m, n}, m, n) BY <1>1 DEF Piece, Region
<1>3. ASSUME NEW a \in Places(w), NEW b \in Places(w), Via(c, w, a, b) PROVE Leads(F, w, a, m, b, n)
  <2>1. Leads(F, w, a, m, a, m) BY LeadsStarts
  <2>2. Leads(F, w, a, m, b, e[2]) BY <1>1, <1>3, <2>1, LeadsOn
  <2> QED BY <1>1, <2>2
<1>4. ASSUME NEW a \in Places(w), NEW b \in Places(w), Leads(F, w, a, m, b, n) PROVE Via(c, w, a, b)
  <2> DEFINE T == [y \in DOMAIN F |-> {p \in Places(w) : (y = m /\ p = a) \/ (y = n /\ Via(c, w, a, p))}]
  <2>1. T \in Markings(F, w) BY DEF Markings
  <2>2. \A y \in DOMAIN F : \A p : p \in T[y] <=> p \in Places(w) /\ ((y = m /\ p = a) \/ (y = n /\ Via(c, w, a, p)))
    OBVIOUS
  <2> HIDE DEF T
  <2>3. Keeps(T, F, w)
    <3> SUFFICES ASSUME NEW y \in DOMAIN F, NEW d \in F[y], NEW p \in T[y], NEW q \in Places(w), Via(d[1], w, p, q)
                 PROVE  q \in T[d[2]]
      BY DEF Keeps
    <3>1. y = m /\ p = a BY <2>2
    <3> QED BY <1>1, <2>2, <3>1
  <2>4. a \in T[m] BY <2>2
  <2>5. b \in T[n] BY <1>4, <2>1, <2>3, <2>4 DEF Leads
  <2> QED BY <2>2, <2>5
<1>5. Unit(c, w) \in Spans(w) BY SpansClosed
<1>6. Spells(F, w, m, n, Unit(c, w)) BY <1>3, <1>4, <1>5 DEF Spells, Via
<1> QED BY <1>2, <1>6

LEMMA ConcatSpells ==
  ASSUME NEW E, NEW F, NEW w, Len(w) \in Nat, NEW I, NEW J, NEW s, NEW t, NEW x, NEW y, NEW R, NEW S,
         Piece(E, I, s, t), Piece(E, J, x, y), I \cap J = {}, DOMAIN F = DOMAIN E,
         F[t] = {"eps"} \X {x}, \A k \in I \cup J : k # t => F[k] = E[k],
         Spells(E, w, s, t, R), Spells(E, w, x, y, S)
  PROVE  Piece(F, I \cup J, s, y) /\ Spells(F, w, s, y, Chained(R, S))
<1>1. /\ I \subseteq DOMAIN E /\ J \subseteq DOMAIN E /\ s \in I /\ t \in I /\ x \in J /\ y \in J
      /\ E[t] = {} /\ E[y] = {} /\ (\A k \in I : \A e \in E[k] : e[2] \in I) /\ (\A k \in J : \A e \in E[k] : e[2] \in J)
  BY DEF Piece, Region
<1>2. t \in DOMAIN F /\ x # t /\ y # t /\ t \notin J BY <1>1
<1>3. /\ \A e \in F[t] : e[1] = "eps" /\ e[2] = x
      /\ \A a, m : \A b \in Places(w) : Leads(F, w, a, m, b, t) => Leads(F, w, a, m, b, x)
  BY <1>2, EmptyEdges
<1>4. R \in Spans(w) /\ S \in Spans(w) BY DEF Spells
<1>5. Piece(F, I \cup J, s, y) BY <1>1, <1>2, <1>3 DEF Piece, Region
<1>6. ASSUME NEW a \in Places(w), NEW c \in Places(w), Rel(Chained(R, S), a, c) PROVE Leads(F, w, a, s, c, y)
  <2>1. PICK b \in Places(w) : Rel(R, a, b) /\ Rel(S, b, c) BY <1>4, <1>6, RelOfChained
  <2>2. Leads(E, w, a, s, b, t) /\ Leads(E, w, b, x, c, y) BY <2>1 DEF Spells
  <2>3. Leads(F, w, a, s, b, t)
    <3>1. \A k \in I : k # t => F[k] = E[k] OBVIOUS
    <3> QED BY <1>1, <2>2, <3>1, LeadsInside
  <2>4. Leads(F, w, b, x, c, y)
    <3>1. \A k \in J : k # y => F[k] = E[k] BY <1>2
    <3> QED BY <1>1, <2>2, <3>1, LeadsInside
  <2> QED BY <1>3, <2>3, <2>4, LeadsThen
<1>7. ASSUME NEW a \in Places(w), NEW c \in Places(w), Leads(F, w, a, s, c, y) PROVE Rel(Chained(R, S), a, c)
  <2> DEFINE Here(k, p) == k \in I /\ Leads(E, w, a, s, p, k)
             There(k, p) == k \in J /\ \E b \in Places(w) : Rel(R, a, b) /\ Leads(E, w, b, x, p, k)
             T == [k \in DOMAIN F |-> {p \in Places(w) : Here(k, p) \/ There(k, p)}]
  <2>1. T \in Markings(F, w) BY DEF Markings
  <2>2. \A k \in DOMAIN F : \A p : p \in T[k] <=> p \in Places(w) /\ (Here(k, p) \/ There(k, p)) OBVIOUS
  <2> HIDE DEF T
  <2>3. Keeps(T, F, w)
    <3> SUFFICES ASSUME NEW k \in DOMAIN F, NEW e \in F[k], NEW p \in T[k], NEW q \in Places(w), Via(e[1], w, p, q)
                 PROVE  q \in T[e[2]]
      BY DEF Keeps
    <3>1. p \in Places(w) /\ (Here(k, p) \/ There(k, p)) BY <2>2
    <3>2. CASE Here(k, p) /\ k # t
      <4>1. e \in E[k] /\ e[2] \in I BY <1>1, <3>2
      <4>2. Leads(E, w, a, s, q, e[2]) BY <1>1, <3>2, <4>1, LeadsOn
      <4> QED BY <1>1, <2>2, <4>1, <4>2
    <3>3. CASE Here(k, p) /\ k = t
      <4>1. e[2] = x /\ q = p BY <1>3, <3>3, EmptyMove
      <4>2. Rel(R, a, p) BY <3>1, <3>3 DEF Spells
      <4>3. Leads(E, w, p, x, p, x) BY LeadsStarts
      <4>4. There(x, p) BY <1>1, <3>1, <4>2, <4>3
      <4> QED BY <1>1, <2>2, <3>1, <4>1, <4>4
    <3>4. CASE There(k, p)
      <4>1. k \in J /\ k # t BY <1>2, <3>4
      <4>2. e \in E[k] /\ e[2] \in J BY <1>1, <4>1
      <4>3. PICK b \in Places(w) : Rel(R, a, b) /\ Leads(E, w, b, x, p, k) BY <3>4
      <4>4. Leads(E, w, b, x, q, e[2]) BY <1>1, <4>1, <4>2, <4>3, LeadsOn
      <4> QED BY <1>1, <2>2, <4>2, <4>3, <4>4
    <3> QED BY <3>1, <3>2, <3>3, <3>4
  <2>4. a \in T[s]
    <3>1. Leads(E, w, a, s, a, s) BY LeadsStarts
    <3> QED BY <1>1, <2>2, <3>1
  <2>5. c \in T[y] BY <1>7, <2>1, <2>3, <2>4 DEF Leads
  <2>6. There(y, c) BY <1>1, <2>2, <2>5
  <2>7. PICK b \in Places(w) : Rel(R, a, b) /\ Leads(E, w, b, x, c, y) BY <2>6
  <2>8. Rel(S, b, c) BY <2>7 DEF Spells
  <2> QED BY <1>4, <2>7, <2>8, RelOfChained
<1>8. Chained(R, S) \in Spans(w) BY <1>4, SpansClosed
<1> QED BY <1>5, <1>6, <1>7, <1>8 DEF Spells

\* m is a node with empty edges to s and x; m and n are new; what is equal outside of t and y.
Forked(F, m, s, x)      == F[m] = {"eps"} \X {s, x}
Enlarged(E, F, m, n)    == DOMAIN F = DOMAIN E \cup {m, n} /\ m \notin DOMAIN E /\ n \notin DOMAIN E /\ m # n
EqualBut(E, F, S, t, y) == \A k \in S : k \notin {t, y} => F[k] = E[k]
Apart(E, I, s, t, J, x, y) == Piece(E, I, s, t) /\ Piece(E, J, x, y) /\ I \cap J = {}

LEMMA AlternateSpells ==
  ASSUME NEW E, NEW F, NEW w, Len(w) \in Nat, NEW I, NEW J, NEW s, NEW t, NEW x, NEW y, NEW R, NEW S, NEW m, NEW n,
         Apart(E, I, s, t, J, x, y), Enlarged(E, F, m, n),
         Forked(F, m, s, x), F[n] = {}, Forked(F, t, n, n), Forked(F, y, n, n), EqualBut(E, F, I \cup J, t, y),
         Spells(E, w, s, t, R), Spells(E, w, x, y, S)
  PROVE  Piece(F, I \cup J \cup {m, n}, m, n) /\ Spells(F, w, m, n, R \cup S)
<1>0. /\ Piece(E, I, s, t) /\ Piece(E, J, x, y) /\ I \cap J = {}
      /\ DOMAIN F = DOMAIN E \cup {m, n} /\ m \notin DOMAIN E /\ n \notin DOMAIN E /\ m # n
      /\ F[m] = {"eps"} \X {s, x} /\ F[t] = {"eps"} \X {n} /\ F[y] = {"eps"} \X {n}
      /\ \A k \in I \cup J : k \notin {t, y} => F[k] = E[k]
  BY DEF Apart, Enlarged, Forked, EqualBut
<1> USE <1>0
<1>1. /\ I \subseteq DOMAIN E /\ J \subseteq DOMAIN E /\ s \in I /\ t \in I /\ x \in J /\ y \in J
      /\ E[t] = {} /\ E[y] = {} /\ (\A k \in I : \A e \in E[k] : e[2] \in I) /\ (\A k \in J : \A e \in E[k] : e[2] \in J)
  BY DEF Piece, Region
<1>2. /\ t \in DOMAIN F /\ y \in DOMAIN F /\ m \in DOMAIN F /\ n \in DOMAIN F /\ t \notin J /\ y \notin I
      /\ m \notin I /\ m \notin J /\ n \notin I /\ n \notin J
  BY <1>1
<1>3. /\ \A e \in F[t] : e[1] = "eps" /\ e[2] = n
      /\ \A a, k : \A b \in Places(w) : Leads(F, w, a, k, b, t) => Leads(F, w, a, k, b, n)
  BY <1>2, EmptyEdges
<1>4. /\ \A e \in F[y] : e[1] = "eps" /\ e[2] = n
      /\ \A a, k : \A b \in Places(w) : Leads(F, w, a, k, b, y) => Leads(F, w, a, k, b, n)
  BY <1>2, EmptyEdges
<1>5. /\ \A e \in F[m] : e[1] = "eps" /\ e[2] \in {s, x}
      /\ \A a, k : \A b \in Places(w) : \A z \in {s, x} : Leads(F, w, a, k, b, m) => Leads(F, w, a, k, b, z)
  <2> DEFINE Z == {s, x}
  <2>1. F[m] = {"eps"} \X Z OBVIOUS
  <2> HIDE DEF Z
  <2>2. /\ \A e \in F[m] : e[1] = "eps" /\ e[2] \in Z
        /\ \A a, k : \A b \in Places(w) : \A z \in Z : Leads(F, w, a, k, b, m) => Leads(F, w, a, k, b, z)
    BY <1>2, <2>1, EmptyEdges
  <2> QED BY <2>2 DEF Z
<1>6. R \in Spans(w) /\ S \in Spans(w) BY DEF Spells
<1>7. Piece(F, I \cup J \cup {m, n}, m, n)
  <2>1. ASSUME NEW k \in I \cup J \cup {m, n}, NEW e \in F[k] PROVE e[2] \in I \cup J \cup {m, n}
    <3>1. CASE k \in I /\ k # t BY <1>1, <1>2, <2>1, <3>1
    <3>2. CASE k \in J /\ k # y BY <1>1, <1>2, <2>1, <3>2
    <3>3. CASE k \in {t, y, m, n} BY <1>1, <1>3, <1>4, <1>5, <2>1, <3>3
    <3> QED BY <3>1, <3>2, <3>3
  <2> QED BY <1>1, <1>2, <2>1 DEF Piece, Region
<1>8. ASSUME NEW a \in Places(w), NEW c \in Places(w), Rel(R \cup S, a, c) PROVE Leads(F, w, a, m, c, n)
  <2>1. Leads(F, w, a, m, a, m) BY LeadsStarts
  <2>2. CASE Rel(R, a, c)
    <3>1. Leads(E, w, a, s, c, t) BY <2>2 DEF Spells
    <3>2. \A k \in I : k # t => F[k] = E[k] BY <1>2
    <3>3. Leads(F, w, a, s, c, t) BY <1>1, <1>2, <3>1, <3>2, LeadsInside
    <3>4. Leads(F, w, a, m, a, s) BY <1>5, <2>1
    <3> QED BY <1>3, <3>3, <3>4, LeadsThen
  <2>3. CASE Rel(S, a, c)
    <3>1. Leads(E, w, a, x, c, y) BY <2>3 DEF Spells
    <3>2. \A k \in J : k # y => F[k] = E[k] BY <1>2
    <3>3. Leads(F, w, a, x, c, y) BY <1>1, <1>2, <3>1, <3>2, LeadsInside
    <3>4. Leads(F, w, a, m, a, x) BY <1>5, <2>1
    <3> QED BY <1>4, <3>3, <3>4, LeadsThen
  <2> QED BY <1>8, <2>2, <2>3 DEF Rel
<1>9. ASSUME NEW a \in Places(w), NEW c \in Places(w), Leads(F, w, a, m, c, n) PROVE Rel(R \cup S, a, c)
  <2> DEFINE Start_(k, p) == k = m /\ p = a
             Here(k, p)   == k \in I /\ Leads(E, w, a, s, p, k)
             There(k, p)  == k \in J /\ Leads(E, w, a, x, p, k)
             End_(k, p)   == k = n /\ (Rel(R, a, p) \/ Rel(S, a, p))
             T == [k \in DOMAIN F |-> {p \in Places(w) : Start_(k, p) \/ Here(k, p) \/ There(k, p) \/ End_(k, p)}]
  <2>1. T \in Markings(F, w) BY DEF Markings
  <2>2. \A k \in DOMAIN F : \A p : p \in T[k] <=>
          p \in Places(w) /\ (Start_(k, p) \/ Here(k, p) \/ There(k, p) \/ End_(k, p))
    OBVIOUS
  <2> HIDE DEF T
  <2>3. Keeps(T, F, w)
    <3> SUFFICES ASSUME NEW k \in DOMAIN F, NEW e \in F[k], NEW p \in T[k], NEW q \in Places(w), Via(e[1], w, p, q)
                 PROVE  q \in T[e[2]]
      BY DEF Keeps
    <3>1. p \in Places(w) /\ (Start_(k, p) \/ Here(k, p) \/ There(k, p) \/ End_(k, p)) BY <2>2
    <3>2. CASE Here(k, p) /\ k # t
      <4>1. e \in E[k] /\ e[2] \in I BY <1>1, <1>2, <3>2
      <4>2. Leads(E, w, a, s, q, e[2]) BY <1>1, <3>2, <4>1, LeadsOn
      <4> QED BY <1>1, <2>2, <4>1, <4>2
    <3>3. CASE Here(k, p) /\ k = t
      <4>1. e[2] = n /\ q = p BY <1>3, <3>3, EmptyMove
      <4>2. Rel(R, a, p) BY <3>1, <3>3 DEF Spells
      <4> QED BY <1>2, <2>2, <3>1, <4>1, <4>2
    <3>4. CASE There(k, p) /\ k # y
      <4>1. e \in E[k] /\ e[2] \in J BY <1>1, <1>2, <3>4
      <4>2. Leads(E, w, a, x, q, e[2]) BY <1>1, <3>4, <4>1, LeadsOn
      <4> QED BY <1>1, <2>2, <4>1, <4>2
    <3>5. CASE There(k, p) /\ k = y
      <4>1. e[2] = n /\ q = p BY <1>4, <3>5, EmptyMove
      <4>2. Rel(S, a, p) BY <3>1, <3>5 DEF Spells
      <4> QED BY <1>2, <2>2, <3>1, <4>1, <4>2
    <3>6. CASE Start_(k, p)
      <4>1. e[2] \in {s, x} /\ q = p BY <1>5, <3>6, EmptyMove
      <4>2. Leads(E, w, a, s, a, s) /\ Leads(E, w, a, x, a, x) BY LeadsStarts
      <4> QED BY <1>1, <1>2, <2>2, <3>1, <3>6, <4>1, <4>2
    <3>7. CASE End_(k, p) BY <3>7
    <3> QED BY <3>1, <3>2, <3>3, <3>4, <3>5, <3>6, <3>7
  <2>4. a \in T[m] BY <1>2, <2>2
  <2>5. c \in T[n] BY <1>9, <2>1, <2>3, <2>4 DEF Leads
  <2>6. End_(n, c) BY <1>2, <2>2, <2>5
  <2> QED BY <2>6 DEF Rel
<1>10. R \cup S \in Spans(w) BY <1>6, SpansClosed
<1> QED BY <1>7, <1>8, <1>9, <1>10 DEF Spells

LEMMA RepeatSpells ==
  ASSUME NEW E, NEW F, NEW w, Len(w) \in Nat, NEW I, NEW s, NEW t, NEW R, NEW m, NEW n,
         Piece(E, I, s, t), Enlarged(E, F, m, n), Forked(F, m, s, n), F[n] = {}, Forked(F, t, s, n),
         EqualBut(E, F, I, t, t), Spells(E, w, s, t, R)
  PROVE  Piece(F, I \cup {m, n}, m, n) /\ Spells(F, w, m, n, Repeated(R, w))
<1>0. /\ DOMAIN F = DOMAIN E \cup {m, n} /\ m \notin DOMAIN E /\ n \notin DOMAIN E /\ m # n
      /\ F[m] = {"eps"} \X {s, n} /\ F[t] = {"eps"} \X {s, n}
      /\ \A k \in I : k # t => F[k] = E[k]
  BY DEF Enlarged, Forked, EqualBut
<1> USE <1>0
<1>1. /\ I \subseteq DOMAIN E /\ s \in I /\ t \in I /\ E[t] = {} /\ (\A k \in I : \A e \in E[k] : e[2] \in I)
  BY DEF Piece, Region
<1>2. t \in DOMAIN F /\ m \in DOMAIN F /\ n \in DOMAIN F /\ m \notin I /\ n \notin I BY <1>1
<1>3. /\ \A e \in F[t] : e[1] = "eps" /\ e[2] \in {s, n}
      /\ \A a, k : \A b \in Places(w) : \A z \in {s, n} : Leads(F, w, a, k, b, t) => Leads(F, w, a, k, b, z)
  <2> DEFINE Z == {s, n}
  <2>1. F[t] = {"eps"} \X Z OBVIOUS
  <2> HIDE DEF Z
  <2>2. /\ \A e \in F[t] : e[1] = "eps" /\ e[2] \in Z
        /\ \A a, k : \A b \in Places(w) : \A z \in Z : Leads(F, w, a, k, b, t) => Leads(F, w, a, k, b, z)
    BY <1>2, <2>1, EmptyEdges
  <2> QED BY <2>2 DEF Z
<1>4. /\ \A e \in F[m] : e[1] = "eps" /\ e[2] \in {s, n}
      /\ \A a, k : \A b \in Places(w) : \A z \in {s, n} : Leads(F, w, a, k, b, m) => Leads(F, w, a, k, b, z)
  <2> DEFINE Z == {s, n}
  <2>1. F[m] = {"eps"} \X Z OBVIOUS
  <2> HIDE DEF Z
  <2>2. /\ \A e \in F[m] : e[1] = "eps" /\ e[2] \in Z
        /\ \A a, k : \A b \in Places(w) : \A z \in Z : Leads(F, w, a, k, b, m) => Leads(F, w, a, k, b, z)
    BY <1>2, <2>1, EmptyEdges
  <2> QED BY <2>2 DEF Z
<1>5. R \in Spans(w) BY DEF Spells
<1>6. Piece(F, I \cup {m, n}, m, n)
  <2>1. ASSUME NEW k \in I \cup {m, n}, NEW e \in F[k] PROVE e[2] \in I \cup {m, n}
    <3>1. CASE k \in I /\ k # t BY <1>1, <1>2, <2>1, <3>1
    <3>2. CASE k \in {t, m, n} BY <1>1, <1>3, <1>4, <2>1, <3>2
    <3> QED BY <3>1, <3>2
  <2> QED BY <1>1, <1>2, <2>1 DEF Piece, Region
<1>7. ASSUME NEW a \in Places(w), NEW c \in Places(w), Rel(Repeated(R, w), a, c) PROVE Leads(F, w, a, m, c, n)
  <2> DEFINE Q == {p \in Places(w) : Leads(F, w, a, m, p, s) /\ Leads(F, w, a, m, p, n)}
  <2>1. Leads(F, w, a, m, a, m) BY LeadsStarts
  <2>2. a \in Q BY <1>4, <2>1
  <2>3. Carries(R, Q)
    <3> SUFFICES ASSUME NEW p \in Q, NEW q, Rel(R, p, q) PROVE q \in Q BY DEF Carries
    <3>1. p \in Places(w) /\ q \in Places(w) BY <1>5 DEF Rel, Spans
    <3>2. Leads(E, w, p, s, q, t) BY <3>1 DEF Spells
    <3>3. Leads(F, w, p, s, q, t) BY <1>1, <1>2, <3>2, LeadsInside
    <3>4. Leads(F, w, a, m, p, s) OBVIOUS
    <3>5. Leads(F, w, a, m, q, t) BY <3>3, <3>4, LeadsThen
    <3> QED BY <1>3, <3>1, <3>5
  <2>4. Q \in SUBSET Places(w) OBVIOUS
  <2> HIDE DEF Q
  <2>5. c \in Q BY <1>5, <1>7, <2>2, <2>3, <2>4, RelOfRepeated
  <2> QED BY <2>5 DEF Q
<1>8. ASSUME NEW a \in Places(w), NEW c \in Places(w), Leads(F, w, a, m, c, n) PROVE Rel(Repeated(R, w), a, c)
  <2> DEFINE Often(p)     == Rel(Repeated(R, w), a, p)
             Start_(k, p) == k = m /\ p = a
             Here(k, p)   == k \in I /\ \E b \in Places(w) : Often(b) /\ Leads(E, w, b, s, p, k)
             End_(k, p)   == k = n /\ Often(p)
             T == [k \in DOMAIN F |-> {p \in Places(w) : Start_(k, p) \/ Here(k, p) \/ End_(k, p)}]
  <2>1. Often(a) BY <1>5, RelOfRepeated
  <2>2. ASSUME NEW b \in Places(w), NEW p \in Places(w), Often(b), Rel(R, b, p) PROVE Often(p)
    <3> SUFFICES ASSUME NEW Q \in SUBSET Places(w), a \in Q, Carries(R, Q) PROVE p \in Q
      BY <1>5, RelOfRepeated
    <3>1. b \in Q BY <1>5, <2>2, RelOfRepeated
    <3> QED BY <2>2, <3>1 DEF Carries
  <2>3. T \in Markings(F, w) BY DEF Markings
  <2>4. \A k \in DOMAIN F : \A p : p \in T[k] <=> p \in Places(w) /\ (Start_(k, p) \/ Here(k, p) \/ End_(k, p))
    OBVIOUS
  <2> HIDE DEF T, Often
  <2>5. Keeps(T, F, w)
    <3> SUFFICES ASSUME NEW k \in DOMAIN F, NEW e \in F[k], NEW p \in T[k], NEW q \in Places(w), Via(e[1], w, p, q)
                 PROVE  q \in T[e[2]]
      BY DEF Keeps
    <3>1. p \in Places(w) /\ (Start_(k, p) \/ Here(k, p) \/ End_(k, p)) BY <2>4
    <3>2. Leads(E, w, p, s, p, s) BY LeadsStarts
    <3>3. ASSUME Often(p), q = p, e[2] \in {s, n} PROVE q \in T[e[2]]
      BY <1>1, <1>2, <2>4, <3>1, <3>2, <3>3
    <3>4. CASE Here(k, p) /\ k # t
      <4>1. e \in E[k] /\ e[2] \in I BY <1>1, <1>2, <3>4
      <4>2. PICK b \in Places(w) : Often(b) /\ Leads(E, w, b, s, p, k) BY <3>4
      <4>3. Leads(E, w, b, s, q, e[2]) BY <1>1, <3>4, <4>1, <4>2, LeadsOn
      <4> QED BY <1>1, <2>4, <4>1, <4>2, <4>3
    <3>5. CASE Here(k, p) /\ k = t
      <4>1. e[2] \in {s, n} /\ q = p BY <1>3, <3>5, EmptyMove
      <4>2. PICK b \in Places(w) : Often(b) /\ Leads(E, w, b, s, p, t) BY <3>5
      <4>3. Rel(R, b, p) BY <3>1, <4>2 DEF Spells
      <4>4. Often(p) BY <2>2, <3>1, <4>2, <4>3
      <4> QED BY <3>3, <4>1, <4>4
    <3>6. CASE Start_(k, p)
      <4>1. e[2] \in {s, n} /\ q = p BY <1>4, <3>6, EmptyMove
      <4> QED BY <2>1, <3>3, <3>6, <4>1
    <3>7. CASE End_(k, p) BY <3>7
    <3> QED BY <3>1, <3>4, <3>5, <3>6, <3>7
  <2>6. a \in T[m] BY <1>2, <2>4
  <2>7. c \in T[n] BY <1>8, <2>3, <2>5, <2>6 DEF Leads
  <2>8. End_(n, c) BY <1>2, <2>4, <2>7
  <2> QED BY <2>8 DEF Often
<1>9. Repeated(R, w) \in Spans(w) BY SpansClosed
<1> QED BY <1>6, <1>7, <1>8, <1>9 DEF Spells

\* The finished automata and the fragments own disjoint pieces of the net.
Owns(E, table, frags, D, O) ==
  /\ \A k \in DOMAIN table : Piece(E, D[k], table[k].start, table[k].accept)
  /\ \A i \in DOMAIN frags : Piece(E, O[i], frags[i].start, frags[i].accept)
  /\ \A j, k \in DOMAIN table : j # k => D[j] \cap D[k] = {}
  /\ \A i, j \in DOMAIN frags : i # j => O[i] \cap O[j] = {}
  /\ \A k \in DOMAIN table : \A i \in DOMAIN frags : D[k] \cap O[i] = {}
Layout(E, table, frags) == \E D, O : Owns(E, table, frags, D, O)

\* The finished automata spell what their rules mean, the fragments the values of a stack.
SpeaksTable(E, table, rs, w) ==
  \A k \in DOMAIN table : Spells(E, w, table[k].start, table[k].accept, Meaning(rs[k].infix, w))
SpeaksStack(E, frags, s, w) ==
  Len(frags) = Len(s) /\ \A i \in DOMAIN frags : Spells(E, w, frags[i].start, frags[i].accept, s[i])

\* From the net E to the net F: the fragments become more, as the token c asks for.
Follow(E, F, table, frags, more, c) ==
  /\ Layout(F, table, more)
  /\ \A w : Len(w) \in Nat =>
       /\ \A rs : SpeaksTable(E, table, rs, w) => SpeaksTable(F, table, rs, w)
       /\ \A s \in Seq(Spans(w)) : \A t :
            SpeaksStack(E, frags, s, w) /\ Calculates(s, c, w, t) => SpeaksStack(F, more, t, w)

\* The sequence p begins with the first l elements of s, and has one more, at e.
Replaced(s, p, l, e) ==
  /\ l \in Nat /\ Len(s) \in Nat /\ l <= Len(s) /\ DOMAIN s = 1..Len(s)
  /\ e = l + 1 /\ DOMAIN p = 1..e /\ Len(p) = e /\ \A i \in 1..l : p[i] = s[i]
Aside(E, F, N, I) == N \cap I = {} /\ I \subseteq DOMAIN F /\ \A x \in I : F[x] = E[x]
Spares(E, F, N, table, D, l, O) ==
  (\A k \in DOMAIN table : Aside(E, F, N, D[k])) /\ \A i \in 1..l : Aside(E, F, N, O[i])
Covers(F, N, f) == Piece(F, N, f.start, f.accept)

LEMMA Untouched ==
  ASSUME NEW E, NEW F, NEW N, NEW I, NEW m, NEW n, Piece(E, I, m, n), Aside(E, F, N, I)
  PROVE  Piece(F, I, m, n) /\ \A w, R : Spells(E, w, m, n, R) => Spells(F, w, m, n, R)
<1>1. Region(E, I) /\ m \in I /\ n \in I BY DEF Piece
<1>2. Region(F, I) /\ Piece(F, I, m, n) BY DEF Piece, Region, Aside
<1>3. \A x \in I : E[x] = F[x] BY DEF Aside
<1> QED BY <1>1, <1>2, <1>3, SpellsLocal

LEMMA Relaid ==
  ASSUME NEW E, NEW F, NEW table, NEW frags, NEW more, NEW D, NEW O, Owns(E, table, frags, D, O),
         NEW l, NEW e, Replaced(frags, more, l, e), NEW N, Covers(F, N, more[e]),
         Spares(E, F, N, table, D, l, O)
  PROVE  /\ Layout(F, table, more)
         /\ \A w, rs : SpeaksTable(E, table, rs, w) => SpeaksTable(F, table, rs, w)
         /\ \A w, s, t : /\ SpeaksStack(E, frags, s, w) /\ Replaced(s, t, l, e)
                         /\ Spells(F, w, more[e].start, more[e].accept, t[e])
                         => SpeaksStack(F, more, t, w)
<1>9. /\ l \in Nat /\ Len(frags) \in Nat /\ l <= Len(frags) /\ DOMAIN frags = 1..Len(frags)
      /\ e = l + 1 /\ DOMAIN more = 1..l + 1 /\ Len(more) = l + 1 /\ \A i \in 1..l : more[i] = frags[i]
  BY DEF Replaced
<1> DEFINE Q == [i \in 1..l + 1 |-> IF i = l + 1 THEN N ELSE O[i]]
<1>1. Q[l + 1] = N /\ \A i \in 1..l : Q[i] = O[i] BY <1>9
<1>2. \A i \in 1..l + 1 : i = l + 1 \/ i \in 1..l BY <1>9
<1>3. \A i \in 1..l : i \in DOMAIN frags BY <1>9
<1> HIDE DEF Q
<1>4. ASSUME NEW k \in DOMAIN table
      PROVE  /\ Piece(F, D[k], table[k].start, table[k].accept)
             /\ \A w, R : Spells(E, w, table[k].start, table[k].accept, R)
                            => Spells(F, w, table[k].start, table[k].accept, R)
  <2>1. Piece(E, D[k], table[k].start, table[k].accept) BY DEF Owns
  <2>2. Aside(E, F, N, D[k]) BY DEF Spares
  <2> QED BY <2>1, <2>2, Untouched
<1>5. ASSUME NEW i \in 1..l
      PROVE  /\ Piece(F, O[i], more[i].start, more[i].accept)
             /\ \A w, R : Spells(E, w, frags[i].start, frags[i].accept, R)
                            => Spells(F, w, more[i].start, more[i].accept, R)
  <2>1. Piece(E, O[i], frags[i].start, frags[i].accept) BY <1>3 DEF Owns
  <2>2. Aside(E, F, N, O[i]) /\ more[i] = frags[i] BY <1>9 DEF Spares
  <2> QED BY <2>1, <2>2, Untouched
<1>6. Owns(F, table, more, D, Q)
  <2>1. \A i \in DOMAIN more : Piece(F, Q[i], more[i].start, more[i].accept) BY <1>1, <1>2, <1>5, <1>9 DEF Covers
  <2>2. \A j, k \in DOMAIN table : j # k => D[j] \cap D[k] = {} BY DEF Owns
  <2>3. \A i, j \in 1..l : i # j => O[i] \cap O[j] = {} BY <1>3 DEF Owns
  <2>4. \A i \in 1..l : N \cap O[i] = {} BY DEF Aside, Spares
  <2>5. \A i, j \in DOMAIN more : i # j => Q[i] \cap Q[j] = {} BY <1>1, <1>2, <1>9, <2>3, <2>4
  <2>6. \A k \in DOMAIN table : \A i \in 1..l : D[k] \cap O[i] = {} BY <1>3 DEF Owns
  <2>7. \A k \in DOMAIN table : N \cap D[k] = {} BY DEF Aside, Spares
  <2>8. \A k \in DOMAIN table : \A i \in DOMAIN more : D[k] \cap Q[i] = {} BY <1>1, <1>2, <1>9, <2>6, <2>7
  <2> QED BY <1>4, <2>1, <2>2, <2>5, <2>8 DEF Owns
<1>7. ASSUME NEW w, NEW s, NEW t, SpeaksStack(E, frags, s, w), Replaced(s, t, l, e),
             Spells(F, w, more[e].start, more[e].accept, t[e])
      PROVE  SpeaksStack(F, more, t, w)
  <2>1. ASSUME NEW i \in 1..l PROVE Spells(F, w, more[i].start, more[i].accept, t[i])
    <3>1. Spells(E, w, frags[i].start, frags[i].accept, s[i]) BY <1>3, <1>7 DEF SpeaksStack
    <3>2. t[i] = s[i] BY <1>7 DEF Replaced
    <3> QED BY <1>5, <3>1, <3>2
  <2>2. \A i \in DOMAIN more : Spells(F, w, more[i].start, more[i].accept, t[i]) BY <1>2, <1>7, <1>9, <2>1
  <2>3. Len(t) = l + 1 BY <1>7, <1>9 DEF Replaced
  <2> QED BY <1>9, <2>2, <2>3 DEF SpeaksStack
<1>8. ASSUME NEW w, NEW rs, SpeaksTable(E, table, rs, w) PROVE SpeaksTable(F, table, rs, w)
  BY <1>4, <1>8 DEF SpeaksTable
<1> QED BY <1>6, <1>7, <1>8 DEF Layout

LEMMA AtomFollows ==
  ASSUME NEW E, NEW F, NEW table, NEW Z, NEW frags \in Seq(Z), Layout(E, table, frags), NEW m, NEW n,
         m \notin DOMAIN E, n \notin DOMAIN E, m # n, DOMAIN F = DOMAIN E \cup {m, n},
         \A x \in DOMAIN E : F[x] = E[x], NEW c, F[m] = {<<c, n>>}, F[n] = {}, c \notin {"*", "&", "|"}
  PROVE  Follow(E, F, table, frags, Append(frags, [start |-> m, accept |-> n]), c)
<1>1. PICK D, O : Owns(E, table, frags, D, O) BY DEF Layout
<1> DEFINE more == Append(frags, [start |-> m, accept |-> n])
           l    == Len(frags)
           e    == l + 1
           N    == {m, n}
<1>2. /\ l \in Nat /\ e = l + 1 /\ DOMAIN frags = 1..l /\ Replaced(frags, more, l, e)
      /\ more[e].start = m /\ more[e].accept = n
  BY DEF Replaced
<1>3. \A w : Len(w) \in Nat => Piece(F, N, m, n) /\ Spells(F, w, m, n, Unit(c, w)) BY AtomSpells
<1>4. Piece(F, N, m, n)
  <2>1. Len(<<>>) \in Nat OBVIOUS
  <2> QED BY <1>3, <2>1
<1>5. \A I : I \subseteq DOMAIN E => Aside(E, F, N, I) BY DEF Aside
<1>6. Spares(E, F, N, table, D, l, O)
  <2>1. \A k \in DOMAIN table : Aside(E, F, N, D[k]) BY <1>1, <1>5 DEF Owns, Piece, Region
  <2>2. \A i \in 1..l : Aside(E, F, N, O[i]) BY <1>1, <1>2, <1>5 DEF Owns, Piece, Region
  <2> QED BY <2>1, <2>2 DEF Spares
<1>7. Covers(F, N, more[e]) BY <1>2, <1>4 DEF Covers
<1> HIDE DEF N, more, e, l
<1>8. /\ Layout(F, table, more)
      /\ \A w, rs : SpeaksTable(E, table, rs, w) => SpeaksTable(F, table, rs, w)
      /\ \A w, s, t : /\ SpeaksStack(E, frags, s, w) /\ Replaced(s, t, l, e)
                      /\ Spells(F, w, more[e].start, more[e].accept, t[e])
                      => SpeaksStack(F, more, t, w)
  BY <1>1, <1>2, <1>4, <1>6, <1>7, Relaid
<1>9. ASSUME NEW w, Len(w) \in Nat, NEW s \in Seq(Spans(w)), NEW t, SpeaksStack(E, frags, s, w), Calculates(s, c, w, t)
      PROVE  SpeaksStack(F, more, t, w)
  <2>1. t = Append(s, Unit(c, w)) BY <1>9 DEF Calculates
  <2>2. Len(s) = l BY <1>9 DEF SpeaksStack, l
  <2>3. Replaced(s, t, l, e) /\ t[e] = Unit(c, w) BY <1>2, <2>1, <2>2 DEF Replaced
  <2> QED BY <1>2, <1>3, <1>8, <1>9, <2>3
<1> QED BY <1>8, <1>9 DEF Follow, more

\* What is not popped is left alone.
Agrees(E, F, N) == DOMAIN E \subseteq DOMAIN F /\ \A x \in DOMAIN E : x \notin N => F[x] = E[x]
Beyond(E, N, O, frags, l) == \A x \in N : x \notin DOMAIN E \/ \E i \in DOMAIN frags : i \notin 1..l /\ x \in O[i]

LEMMA SparesTheRest ==
  ASSUME NEW E, NEW F, NEW N, NEW table, NEW frags, NEW D, NEW O, Owns(E, table, frags, D, O), NEW l,
         \A i \in 1..l : i \in DOMAIN frags, Agrees(E, F, N), Beyond(E, N, O, frags, l)
  PROVE  Spares(E, F, N, table, D, l, O)
<1>1. ASSUME NEW k \in DOMAIN table PROVE Aside(E, F, N, D[k])
  <2>1. D[k] \subseteq DOMAIN E BY DEF Owns, Piece, Region
  <2>2. N \cap D[k] = {} BY <2>1 DEF Owns, Beyond
  <2> QED BY <2>1, <2>2 DEF Aside, Agrees
<1>2. ASSUME NEW i \in 1..l PROVE Aside(E, F, N, O[i])
  <2>0. i \in DOMAIN frags OBVIOUS
  <2>1. O[i] \subseteq DOMAIN E BY <2>0 DEF Owns, Piece, Region
  <2>2. N \cap O[i] = {} BY <2>0, <2>1 DEF Owns, Beyond
  <2> QED BY <2>1, <2>2 DEF Aside, Agrees
<1> QED BY <1>1, <1>2 DEF Spares

\* The last two of the fragments, and those below them.
LEMMA OnePopped ==
  ASSUME NEW Z, NEW s \in Seq(Z), s # <<>>, NEW x
  PROVE  /\ Len(s) - 1 \in Nat /\ Len(s) \in DOMAIN s /\ DOMAIN s = 1..Len(s) /\ Last(s) = s[Len(s)]
         /\ Replaced(s, Append(Beneath(s), x), Len(s) - 1, Len(s))
         /\ Append(Beneath(s), x)[Len(s)] = x
<1> DEFINE f == Beneath(s)
<1>1. f \in Seq(Z) /\ Len(f) = Len(s) - 1 /\ \A k \in 1..Len(s) - 1 : f[k] = s[k] BY BeneathFacts
<1>2. Len(s) \in Nat \ {0} /\ Last(s) = s[Len(s)] /\ DOMAIN s = 1..Len(s) BY DEF Last
<1> HIDE DEF f
<1> DEFINE p == Append(f, x)
<1>3. /\ DOMAIN p = 1..Len(f) + 1 /\ Len(p) = Len(f) + 1 /\ p[Len(f) + 1] = x
      /\ \A k \in 1..Len(f) : p[k] = f[k]
  BY <1>1
<1> HIDE DEF p
<1>4. Replaced(s, p, Len(s) - 1, Len(s)) BY <1>1, <1>2, <1>3 DEF Replaced
<1>5. p[Len(s)] = x BY <1>1, <1>2, <1>3
<1>6. Len(s) - 1 \in Nat /\ Len(s) \in 1..Len(s) BY <1>2
<1> QED BY <1>2, <1>4, <1>5, <1>6 DEF p, f

LEMMA TwoPopped ==
  ASSUME NEW Z, NEW s \in Seq(Z), Len(s) >= 2, NEW x
  PROVE  /\ Len(s) - 2 \in Nat /\ Len(s) - 1 \in DOMAIN s /\ Len(s) \in DOMAIN s /\ DOMAIN s = 1..Len(s)
         /\ Last(s) = s[Len(s)] /\ Last(Beneath(s)) = s[Len(s) - 1]
         /\ Replaced(s, Append(Beneath(Beneath(s)), x), Len(s) - 2, Len(s) - 1)
         /\ Append(Beneath(Beneath(s)), x)[Len(s) - 1] = x
<1> DEFINE f == Beneath(s)
           p == Append(Beneath(f), x)
<1>1. s # <<>> /\ Len(s) \in Nat OBVIOUS
<1>2. f \in Seq(Z) /\ Len(f) = Len(s) - 1 /\ \A k \in 1..Len(s) - 1 : f[k] = s[k] BY <1>1, BeneathFacts
<1>3. DOMAIN s = 1..Len(s) /\ Last(s) = s[Len(s)] BY DEF Last
<1> HIDE DEF f
<1>4. f # <<>> BY <1>1, <1>2
<1>5. Last(f) = f[Len(f)] /\ Replaced(f, p, Len(f) - 1, Len(f)) /\ p[Len(f)] = x BY <1>2, <1>4, OnePopped
<1> HIDE DEF p
<1>6. Len(f) - 1 = Len(s) - 2 /\ Len(f) \in 1..Len(s) - 1 BY <1>1, <1>2
<1>7. Last(f) = s[Len(s) - 1] BY <1>2, <1>5, <1>6
<1>8. Replaced(s, p, Len(s) - 2, Len(s) - 1) BY <1>1, <1>2, <1>3, <1>5, <1>6 DEF Replaced
<1> QED BY <1>1, <1>2, <1>3, <1>5, <1>7, <1>8 DEF f, p

LEMMA ConcatFollows ==
  ASSUME NEW E, NEW F, NEW table, NEW Z, NEW frags \in Seq(Z), Len(frags) >= 2, Layout(E, table, frags),
         NEW under, under = Last(Beneath(frags)), NEW over, over = Last(frags), DOMAIN F = DOMAIN E,
         F[under.accept] = E[under.accept] \cup ({"eps"} \X {over.start}),
         \A x \in DOMAIN E : x # under.accept => F[x] = E[x]
  PROVE  Follow(E, F, table, frags, Append(Beneath(Beneath(frags)), [start |-> under.start, accept |-> over.accept]), "&")
<1>1. PICK D, O : Owns(E, table, frags, D, O) BY DEF Layout
<1> DEFINE x    == [start |-> under.start, accept |-> over.accept]
           more == Append(Beneath(Beneath(frags)), x)
           l    == Len(frags) - 2
           e    == Len(frags) - 1
           n    == Len(frags)
           N    == O[e] \cup O[n]
<1>2. /\ l \in Nat /\ e \in DOMAIN frags /\ n \in DOMAIN frags /\ e \notin 1..l /\ n \notin 1..l /\ e # n
      /\ \A i \in 1..l : i \in DOMAIN frags
      /\ over = frags[n] /\ under = frags[e] /\ Replaced(frags, more, l, e) /\ more[e] = x
  <2> HIDE DEF x
  <2>1. /\ Len(frags) - 2 \in Nat /\ e \in DOMAIN frags /\ n \in DOMAIN frags /\ DOMAIN frags = 1..Len(frags)
        /\ Last(frags) = frags[n] /\ Last(Beneath(frags)) = frags[e]
        /\ Replaced(frags, more, l, e) /\ more[e] = x
    BY TwoPopped
  <2> HIDE DEF more
  <2>2. Len(frags) \in Nat OBVIOUS
  <2>3. l \in Nat /\ e \notin 1..l /\ n \notin 1..l /\ e # n BY <2>2
  <2>4. \A i \in 1..l : i \in 1..Len(frags) BY <2>2
  <2>5. over = frags[n] /\ under = frags[e] BY <2>1
  <2> HIDE DEF l, e, n
  <2> QED BY <2>1, <2>3, <2>4, <2>5
<1>3. /\ Piece(E, O[e], under.start, under.accept) /\ Piece(E, O[n], over.start, over.accept)
      /\ O[e] \cap O[n] = {}
  BY <1>1, <1>2 DEF Owns
<1>4. /\ F[under.accept] = {"eps"} \X {over.start} /\ under.accept \in O[e]
      /\ \A k \in O[e] \cup O[n] : k # under.accept => F[k] = E[k]
  BY <1>3 DEF Piece, Region
<1>5. Agrees(E, F, N) BY <1>4 DEF Agrees
<1>6. Beyond(E, N, O, frags, l) BY <1>2 DEF Beyond
<1>7. x.start = under.start /\ x.accept = over.accept OBVIOUS
<1>8. ASSUME NEW w, Len(w) \in Nat, NEW R, NEW S, Spells(E, w, under.start, under.accept, R),
             Spells(E, w, over.start, over.accept, S)
      PROVE  Spells(F, w, x.start, x.accept, Chained(R, S))
  BY <1>3, <1>4, <1>7, <1>8, ConcatSpells
<1>9. Covers(F, N, x)
  <2>1. Region(F, N) BY <1>3, <1>4 DEF Piece, Region
  <2>2. F[over.accept] = {} /\ over.accept \in N /\ under.start \in N BY <1>3, <1>4 DEF Piece
  <2> QED BY <1>7, <2>1, <2>2 DEF Covers, Piece
<1> HIDE DEF N, more, e, l, n, x
<1>10. Spares(E, F, N, table, D, l, O) BY <1>1, <1>2, <1>5, <1>6, SparesTheRest
<1>11. Covers(F, N, more[e]) BY <1>2, <1>9
<1>12. /\ Layout(F, table, more)
       /\ \A w, rs : SpeaksTable(E, table, rs, w) => SpeaksTable(F, table, rs, w)
       /\ \A w, s, t : /\ SpeaksStack(E, frags, s, w) /\ Replaced(s, t, l, e)
                       /\ Spells(F, w, more[e].start, more[e].accept, t[e])
                       => SpeaksStack(F, more, t, w)
  BY <1>1, <1>2, <1>10, <1>11, Relaid
<1>13. ASSUME NEW w, Len(w) \in Nat, NEW s \in Seq(Spans(w)), NEW t, SpeaksStack(E, frags, s, w), Calculates(s, "&", w, t)
       PROVE  SpeaksStack(F, more, t, w)
  <2>1. Len(s) >= 2 /\ t = Append(Beneath(Beneath(s)), Chained(Last(Beneath(s)), Last(s))) BY <1>13 DEF Calculates
  <2>2. Len(s) = n BY <1>13 DEF SpeaksStack, n
  <2>3. Replaced(s, t, l, e) /\ t[e] = Chained(s[e], s[n])
    <3> DEFINE y == Chained(Last(Beneath(s)), Last(s))
    <3>1. t = Append(Beneath(Beneath(s)), y) BY <2>1
    <3> HIDE DEF y
    <3>2. /\ Last(s) = s[Len(s)] /\ Last(Beneath(s)) = s[Len(s) - 1]
          /\ Replaced(s, Append(Beneath(Beneath(s)), y), Len(s) - 2, Len(s) - 1)
          /\ Append(Beneath(Beneath(s)), y)[Len(s) - 1] = y
      BY <2>1, TwoPopped
    <3> QED BY <2>2, <3>1, <3>2 DEF y, l, e, n
  <2>4. Spells(E, w, under.start, under.accept, s[e]) /\ Spells(E, w, over.start, over.accept, s[n])
    BY <1>2, <1>13 DEF SpeaksStack
  <2>5. Spells(F, w, more[e].start, more[e].accept, t[e]) BY <1>2, <1>8, <1>13, <2>3, <2>4
  <2> QED BY <1>12, <1>13, <2>3, <2>5
<1> QED BY <1>12, <1>13 DEF Follow, more, x

\* The node t gets empty edges to x and y.
Grown(E, F, t, x, y) == F[t] = E[t] \cup ({"eps"} \X {x, y})

LEMMA AlternateFollows ==
  ASSUME NEW E, NEW F, NEW table, NEW Z, NEW frags \in Seq(Z), Len(frags) >= 2, Layout(E, table, frags),
         NEW under, under = Last(Beneath(frags)), NEW over, over = Last(frags), NEW m, NEW n,
         Enlarged(E, F, m, n), Forked(F, m, under.start, over.start), F[n] = {},
         Grown(E, F, under.accept, n, n), Grown(E, F, over.accept, n, n),
         EqualBut(E, F, DOMAIN E, under.accept, over.accept)
  PROVE  Follow(E, F, table, frags, Append(Beneath(Beneath(frags)), [start |-> m, accept |-> n]), "|")
<1>0. /\ m \notin DOMAIN E /\ n \notin DOMAIN E /\ m # n /\ DOMAIN F = DOMAIN E \cup {m, n}
      /\ F[m] = {"eps"} \X {under.start, over.start}
      /\ F[under.accept] = E[under.accept] \cup ({"eps"} \X {n})
      /\ F[over.accept] = E[over.accept] \cup ({"eps"} \X {n})
      /\ \A x \in DOMAIN E : x \notin {under.accept, over.accept} => F[x] = E[x]
  BY DEF Enlarged, Forked, Grown, EqualBut
<1> USE <1>0
<1>1. PICK D, O : Owns(E, table, frags, D, O) BY DEF Layout
<1> DEFINE x    == [start |-> m, accept |-> n]
           more == Append(Beneath(Beneath(frags)), x)
           l    == Len(frags) - 2
           e    == Len(frags) - 1
           h    == Len(frags)
           N    == O[e] \cup O[h] \cup {m, n}
<1>2. /\ l \in Nat /\ e \in DOMAIN frags /\ h \in DOMAIN frags /\ e \notin 1..l /\ h \notin 1..l /\ e # h
      /\ \A i \in 1..l : i \in DOMAIN frags
      /\ over = frags[h] /\ under = frags[e] /\ Replaced(frags, more, l, e) /\ more[e] = x
  <2> HIDE DEF x
  <2>1. /\ Len(frags) - 2 \in Nat /\ e \in DOMAIN frags /\ h \in DOMAIN frags /\ DOMAIN frags = 1..Len(frags)
        /\ Last(frags) = frags[h] /\ Last(Beneath(frags)) = frags[e]
        /\ Replaced(frags, more, l, e) /\ more[e] = x
    BY TwoPopped
  <2> HIDE DEF more
  <2>2. Len(frags) \in Nat OBVIOUS
  <2>3. l \in Nat /\ e \notin 1..l /\ h \notin 1..l /\ e # h BY <2>2
  <2>4. \A i \in 1..l : i \in 1..Len(frags) BY <2>2
  <2>5. over = frags[h] /\ under = frags[e] BY <2>1
  <2> HIDE DEF l, e, h
  <2> QED BY <2>1, <2>3, <2>4, <2>5
<1>3. /\ Piece(E, O[e], under.start, under.accept) /\ Piece(E, O[h], over.start, over.accept)
      /\ O[e] \cap O[h] = {}
  BY <1>1, <1>2 DEF Owns
<1>4. /\ F[under.accept] = {"eps"} \X {n} /\ under.accept \in O[e]
      /\ F[over.accept] = {"eps"} \X {n} /\ over.accept \in O[h]
      /\ \A k \in O[e] \cup O[h] : k \notin {under.accept, over.accept} => F[k] = E[k]
  BY <1>3 DEF Piece, Region
<1>5. Agrees(E, F, N) BY <1>4 DEF Agrees
<1>6. Beyond(E, N, O, frags, l) BY <1>2 DEF Beyond
<1>7. x.start = m /\ x.accept = n OBVIOUS
<1>8. ASSUME NEW w, Len(w) \in Nat, NEW R, NEW S, Spells(E, w, under.start, under.accept, R),
             Spells(E, w, over.start, over.accept, S)
      PROVE  Spells(F, w, x.start, x.accept, R \cup S)
  <2>1. /\ Enlarged(E, F, m, n) /\ Forked(F, m, under.start, over.start)
        /\ Forked(F, under.accept, n, n) /\ Forked(F, over.accept, n, n)
        /\ EqualBut(E, F, O[e] \cup O[h], under.accept, over.accept)
    BY <1>4 DEF Enlarged, Forked, EqualBut
  <2> DEFINE I == O[e]
             J == O[h]
  <2>2. /\ Apart(E, I, under.start, under.accept, J, over.start, over.accept)
        /\ EqualBut(E, F, I \cup J, under.accept, over.accept)
    BY <1>3, <2>1 DEF Apart
  <2> HIDE DEF I, J
  <2>3. Spells(F, w, m, n, R \cup S) BY <1>8, <2>1, <2>2, AlternateSpells
  <2> QED BY <1>7, <2>3
<1>9. Covers(F, N, x)
  <2>1. N \subseteq DOMAIN F /\ under.start \in O[e] /\ over.start \in O[h] BY <1>3 DEF Piece, Region
  <2>2. ASSUME NEW k \in N, NEW y \in F[k] PROVE y[2] \in N
    <3>1. CASE k = m BY <2>1, <2>2, <3>1
    <3>2. CASE k \in {n, under.accept, over.accept} BY <1>4, <2>2, <3>2
    <3>3. CASE k \in O[e] \cup O[h] /\ k \notin {under.accept, over.accept}
      BY <1>3, <1>4, <2>2, <3>3 DEF Piece, Region
    <3> QED BY <3>1, <3>2, <3>3
  <2> QED BY <1>7, <2>1, <2>2 DEF Covers, Piece, Region
<1> HIDE DEF N, more, e, l, h, x
<1>10. Spares(E, F, N, table, D, l, O) BY <1>1, <1>2, <1>5, <1>6, SparesTheRest
<1>11. Covers(F, N, more[e]) BY <1>2, <1>9
<1>12. /\ Layout(F, table, more)
       /\ \A w, rs : SpeaksTable(E, table, rs, w) => SpeaksTable(F, table, rs, w)
       /\ \A w, s, t : /\ SpeaksStack(E, frags, s, w) /\ Replaced(s, t, l, e)
                       /\ Spells(F, w, more[e].start, more[e].accept, t[e])
                       => SpeaksStack(F, more, t, w)
  BY <1>1, <1>2, <1>10, <1>11, Relaid
<1>13. ASSUME NEW w, Len(w) \in Nat, NEW s \in Seq(Spans(w)), NEW t, SpeaksStack(E, frags, s, w), Calculates(s, "|", w, t)
       PROVE  SpeaksStack(F, more, t, w)
  <2>1. Len(s) >= 2 /\ t = Append(Beneath(Beneath(s)), Last(Beneath(s)) \cup Last(s)) BY <1>13 DEF Calculates
  <2>2. Len(s) = h BY <1>13 DEF SpeaksStack, h
  <2>3. Replaced(s, t, l, e) /\ t[e] = s[e] \cup s[h]
    <3> DEFINE y == Last(Beneath(s)) \cup Last(s)
    <3>1. t = Append(Beneath(Beneath(s)), y) BY <2>1
    <3> HIDE DEF y
    <3>2. /\ Last(s) = s[Len(s)] /\ Last(Beneath(s)) = s[Len(s) - 1]
          /\ Replaced(s, Append(Beneath(Beneath(s)), y), Len(s) - 2, Len(s) - 1)
          /\ Append(Beneath(Beneath(s)), y)[Len(s) - 1] = y
      BY <2>1, TwoPopped
    <3> QED BY <2>2, <3>1, <3>2 DEF y, l, e, h
  <2>4. Spells(E, w, under.start, under.accept, s[e]) /\ Spells(E, w, over.start, over.accept, s[h])
    BY <1>2, <1>13 DEF SpeaksStack
  <2>5. Spells(F, w, more[e].start, more[e].accept, t[e]) BY <1>2, <1>8, <1>13, <2>3, <2>4
  <2> QED BY <1>12, <1>13, <2>3, <2>5
<1> QED BY <1>12, <1>13 DEF Follow, more, x

LEMMA RepeatFollows ==
  ASSUME NEW E, NEW F, NEW table, NEW Z, NEW frags \in Seq(Z), frags # <<>>, Layout(E, table, frags),
         NEW over, over = Last(frags), NEW m, NEW n,
         Enlarged(E, F, m, n), Forked(F, m, over.start, n), F[n] = {}, Grown(E, F, over.accept, over.start, n),
         EqualBut(E, F, DOMAIN E, over.accept, over.accept)
  PROVE  Follow(E, F, table, frags, Append(Beneath(frags), [start |-> m, accept |-> n]), "*")
<1>0. /\ m \notin DOMAIN E /\ n \notin DOMAIN E /\ m # n /\ DOMAIN F = DOMAIN E \cup {m, n}
      /\ F[m] = {"eps"} \X {over.start, n}
      /\ F[over.accept] = E[over.accept] \cup ({"eps"} \X {over.start, n})
      /\ \A x \in DOMAIN E : x # over.accept => F[x] = E[x]
  BY DEF Enlarged, Forked, Grown, EqualBut
<1> USE <1>0
<1>1. PICK D, O : Owns(E, table, frags, D, O) BY DEF Layout
<1> DEFINE x    == [start |-> m, accept |-> n]
           more == Append(Beneath(frags), x)
           l    == Len(frags) - 1
           e    == Len(frags)
           N    == O[e] \cup {m, n}
<1>2. /\ l \in Nat /\ e \in DOMAIN frags /\ e \notin 1..l
      /\ \A i \in 1..l : i \in DOMAIN frags
      /\ over = frags[e] /\ Replaced(frags, more, l, e) /\ more[e] = x
  <2> HIDE DEF x
  <2>1. /\ Len(frags) - 1 \in Nat /\ e \in DOMAIN frags /\ DOMAIN frags = 1..Len(frags)
        /\ Last(frags) = frags[e]
        /\ Replaced(frags, more, l, e) /\ more[e] = x
    BY OnePopped
  <2> HIDE DEF more
  <2>2. Len(frags) \in Nat OBVIOUS
  <2>3. l \in Nat /\ e \notin 1..l BY <2>1, <2>2
  <2>4. \A i \in 1..l : i \in 1..Len(frags) BY <2>2
  <2>5. over = frags[e] BY <2>1
  <2> HIDE DEF l, e
  <2> QED BY <2>1, <2>3, <2>4, <2>5
<1>3. Piece(E, O[e], over.start, over.accept) BY <1>1, <1>2 DEF Owns
<1>4. /\ F[over.accept] = {"eps"} \X {over.start, n} /\ over.accept \in O[e]
      /\ \A k \in O[e] : k # over.accept => F[k] = E[k]
  BY <1>3 DEF Piece, Region
<1>5. Agrees(E, F, N) BY <1>4 DEF Agrees
<1>6. Beyond(E, N, O, frags, l) BY <1>2 DEF Beyond
<1>7. x.start = m /\ x.accept = n OBVIOUS
<1>8. ASSUME NEW w, Len(w) \in Nat, NEW R, Spells(E, w, over.start, over.accept, R)
      PROVE  Spells(F, w, x.start, x.accept, Repeated(R, w))
  <2>1. /\ Enlarged(E, F, m, n) /\ Forked(F, m, over.start, n) /\ Forked(F, over.accept, over.start, n)
        /\ EqualBut(E, F, O[e], over.accept, over.accept)
    BY <1>4 DEF Enlarged, Forked, EqualBut
  <2> QED BY <1>3, <1>7, <1>8, <2>1, RepeatSpells
<1>9. Covers(F, N, x)
  <2>1. N \subseteq DOMAIN F /\ over.start \in O[e] BY <1>3 DEF Piece, Region
  <2>2. ASSUME NEW k \in N, NEW y \in F[k] PROVE y[2] \in N
    <3>1. CASE k = m BY <2>1, <2>2, <3>1
    <3>2. CASE k \in {n, over.accept} BY <1>4, <2>1, <2>2, <3>2
    <3>3. CASE k \in O[e] /\ k # over.accept
      BY <1>3, <1>4, <2>2, <3>3 DEF Piece, Region
    <3> QED BY <3>1, <3>2, <3>3
  <2> QED BY <1>7, <2>1, <2>2 DEF Covers, Piece, Region
<1> HIDE DEF N, more, e, l, x
<1>10. Spares(E, F, N, table, D, l, O) BY <1>1, <1>2, <1>5, <1>6, SparesTheRest
<1>11. Covers(F, N, more[e]) BY <1>2, <1>9
<1>12. /\ Layout(F, table, more)
       /\ \A w, rs : SpeaksTable(E, table, rs, w) => SpeaksTable(F, table, rs, w)
       /\ \A w, s, t : /\ SpeaksStack(E, frags, s, w) /\ Replaced(s, t, l, e)
                       /\ Spells(F, w, more[e].start, more[e].accept, t[e])
                       => SpeaksStack(F, more, t, w)
  BY <1>1, <1>2, <1>10, <1>11, Relaid
<1>13. ASSUME NEW w, Len(w) \in Nat, NEW s \in Seq(Spans(w)), NEW t, SpeaksStack(E, frags, s, w), Calculates(s, "*", w, t)
       PROVE  SpeaksStack(F, more, t, w)
  <2>1. s # <<>> /\ t = Append(Beneath(s), Repeated(Last(s), w)) BY <1>13 DEF Calculates
  <2>2. Len(s) = e BY <1>13 DEF SpeaksStack, e
  <2>3. Replaced(s, t, l, e) /\ t[e] = Repeated(s[e], w)
    <3> DEFINE y == Repeated(Last(s), w)
    <3>1. t = Append(Beneath(s), y) BY <2>1
    <3> HIDE DEF y
    <3>2. /\ Last(s) = s[Len(s)]
          /\ Replaced(s, Append(Beneath(s), y), Len(s) - 1, Len(s))
          /\ Append(Beneath(s), y)[Len(s)] = y
      BY <2>1, OnePopped
    <3> QED BY <2>2, <3>1, <3>2 DEF y, l, e
  <2>4. Spells(E, w, over.start, over.accept, s[e]) BY <1>2, <1>13 DEF SpeaksStack
  <2>5. Spells(F, w, more[e].start, more[e].accept, t[e]) BY <1>2, <1>8, <1>13, <2>3, <2>4
  <2> QED BY <1>12, <1>13, <2>3, <2>5
<1> QED BY <1>12, <1>13 DEF Follow, more, x

\* The fragment that is left becomes the automaton of the next rule.
LEMMA Filed ==
  ASSUME NEW E, NEW Y, NEW table \in Seq(Y), NEW f \in Y, Layout(E, table, <<f>>), NEW more, more = Append(table, f)
  PROVE  /\ Layout(E, more, <<>>)
         /\ \A w, rs : /\ SpeaksTable(E, table, rs, w)
                       /\ SpeaksStack(E, <<f>>, <<Meaning(rs[Len(table) + 1].infix, w)>>, w)
                       => SpeaksTable(E, more, rs, w)
<1>1. PICK D, O : Owns(E, table, <<f>>, D, O) BY DEF Layout
<1>2. /\ Len(table) \in Nat /\ DOMAIN table = 1..Len(table) /\ DOMAIN more = 1..Len(table) + 1
      /\ more[Len(table) + 1] = f /\ \A k \in 1..Len(table) : more[k] = table[k]
  OBVIOUS
<1> DEFINE n == Len(table) + 1
           M == [k \in 1..n |-> IF k = n THEN O[1] ELSE D[k]]
<1>3. /\ n \notin 1..Len(table) /\ (\A k \in DOMAIN more : k = n \/ k \in 1..Len(table)) /\ more[n] = f /\ n \in DOMAIN more
      /\ \A k \in 1..Len(table) : k \in DOMAIN more
  BY <1>2
<1>4. M[n] = O[1] /\ \A k \in 1..Len(table) : M[k] = D[k] BY <1>2
<1>5. 1 \in DOMAIN <<f>> /\ <<f>>[1] = f OBVIOUS
<1>6. /\ Piece(E, O[1], f.start, f.accept) /\ \A k \in 1..Len(table) : Piece(E, D[k], table[k].start, table[k].accept)
      /\ \A k \in 1..Len(table) : D[k] \cap O[1] = {}
      /\ \A j, k \in 1..Len(table) : j # k => D[j] \cap D[k] = {}
  BY <1>1, <1>2, <1>5 DEF Owns
<1> HIDE DEF M, n
<1>7. Owns(E, more, <<>>, M, O)
  <2>1. \A k \in DOMAIN more : Piece(E, M[k], more[k].start, more[k].accept) BY <1>2, <1>3, <1>4, <1>6
  <2>2. \A j, k \in DOMAIN more : j # k => M[j] \cap M[k] = {} BY <1>3, <1>4, <1>6
  <2>3. \A i : i \notin DOMAIN <<>> OBVIOUS
  <2> QED BY <2>1, <2>2, <2>3 DEF Owns
<1>8. ASSUME NEW w, NEW rs, SpeaksTable(E, table, rs, w), SpeaksStack(E, <<f>>, <<Meaning(rs[Len(table) + 1].infix, w)>>, w)
      PROVE  SpeaksTable(E, more, rs, w)
  <2> DEFINE R == Meaning(rs[n].infix, w)
  <2>1. SpeaksStack(E, <<f>>, <<R>>, w) BY <1>8 DEF n
  <2> HIDE DEF R
  <2>2. <<R>>[1] = R OBVIOUS
  <2>3. Spells(E, w, f.start, f.accept, R) BY <1>5, <2>1, <2>2 DEF SpeaksStack
  <2>4. \A k \in 1..Len(table) : Spells(E, w, more[k].start, more[k].accept, Meaning(rs[k].infix, w))
    BY <1>2, <1>8 DEF SpeaksTable
  <2> QED BY <1>3, <2>3, <2>4 DEF SpeaksTable, R
<1> QED BY <1>7, <1>8 DEF Layout

\* mergeNFA: one more node leads to all automata.
Gathers(F, table, z) == z \in DOMAIN F /\ F[z] = {"eps"} \X {table[k].start : k \in DOMAIN table}
Merges(F, table, z)  ==
  /\ Gathers(F, table, z)
  /\ \E D, O : Owns(F, table, <<>>, D, O) /\ \A k \in DOMAIN table : z \notin D[k]

LEMMA Merging ==
  ASSUME NEW E, NEW F, NEW table, Layout(E, table, <<>>), NEW z, z \notin DOMAIN E, DOMAIN F = DOMAIN E \cup {z},
         \A x \in DOMAIN E : F[x] = E[x], Gathers(F, table, z)
  PROVE  Merges(F, table, z) /\ \A w, rs : SpeaksTable(E, table, rs, w) => SpeaksTable(F, table, rs, w)
<1>1. PICK D, O : Owns(E, table, <<>>, D, O) BY DEF Layout
<1> DEFINE N == {z}
<1>2. ASSUME NEW k \in DOMAIN table
      PROVE  Piece(E, D[k], table[k].start, table[k].accept) /\ Aside(E, F, N, D[k]) /\ z \notin D[k]
  <2>1. Piece(E, D[k], table[k].start, table[k].accept) BY <1>1 DEF Owns
  <2> QED BY <2>1 DEF Aside, Piece, Region
<1> HIDE DEF N
<1>3. ASSUME NEW k \in DOMAIN table
      PROVE  /\ Piece(F, D[k], table[k].start, table[k].accept)
             /\ \A w, R : Spells(E, w, table[k].start, table[k].accept, R)
                            => Spells(F, w, table[k].start, table[k].accept, R)
  BY <1>2, Untouched
<1>4. Owns(F, table, <<>>, D, O)
  <2>1. \A i : i \notin DOMAIN <<>> OBVIOUS
  <2> QED BY <1>1, <1>3, <2>1 DEF Owns
<1>5. \A w, rs : SpeaksTable(E, table, rs, w) => SpeaksTable(F, table, rs, w) BY <1>3 DEF SpeaksTable
<1> QED BY <1>2, <1>4, <1>5 DEF Merges

\* From the node of mergeNFA the text leads to the end of an automaton if its rule matches it.
LEMMA MergedSpells ==
  ASSUME NEW F, NEW table, NEW z, Merges(F, table, z), NEW w, Len(w) \in Nat, NEW rs, SpeaksTable(F, table, rs, w),
         NEW k \in DOMAIN table
  PROVE  Leads(F, w, 0, z, Len(w), table[k].accept) <=> Matches(rs[k].infix, w)
<1>1. PICK D, O : Owns(F, table, <<>>, D, O) /\ \A j \in DOMAIN table : z \notin D[j] BY DEF Merges
<1>2. \A j \in DOMAIN table : Piece(F, D[j], table[j].start, table[j].accept) BY <1>1 DEF Owns
<1>3. \A i, j \in DOMAIN table : i # j => D[i] \cap D[j] = {} BY <1>1 DEF Owns
<1> DEFINE Z == {table[j].start : j \in DOMAIN table}
<1>4. z \in DOMAIN F /\ F[z] = {"eps"} \X Z BY DEF Merges, Gathers
<1> HIDE DEF Z
<1>5. /\ \A e \in F[z] : e[1] = "eps" /\ e[2] \in Z
      /\ \A a, m : \A b \in Places(w) : \A y \in Z : Leads(F, w, a, m, b, z) => Leads(F, w, a, m, b, y)
  BY <1>4, EmptyEdges
<1>6. 0 \in Places(w) /\ Len(w) \in Places(w) BY DEF Places
<1>7. Matches(rs[k].infix, w) <=> Leads(F, w, 0, table[k].start, Len(w), table[k].accept)
  BY <1>6 DEF SpeaksTable, Spells, Rel, Matches
<1>8. ASSUME Leads(F, w, 0, table[k].start, Len(w), table[k].accept) PROVE Leads(F, w, 0, z, Len(w), table[k].accept)
  <2>1. Leads(F, w, 0, z, 0, table[k].start)
    <3>1. Leads(F, w, 0, z, 0, z) BY LeadsStarts
    <3> QED BY <1>5, <1>6, <3>1 DEF Z
  <2> QED BY <1>8, <2>1, LeadsThen
<1>9. ASSUME Leads(F, w, 0, z, Len(w), table[k].accept) PROVE Leads(F, w, 0, table[k].start, Len(w), table[k].accept)
  <2> DEFINE In(j, x, p) == x \in D[j] /\ Leads(F, w, 0, table[j].start, p, x)
             T == [x \in DOMAIN F |-> {p \in Places(w) : (x = z /\ p = 0) \/ \E j \in DOMAIN table : In(j, x, p)}]
  <2>1. T \in Markings(F, w) BY DEF Markings
  <2>2. \A x \in DOMAIN F : \A p : p \in T[x] <=> p \in Places(w) /\ ((x = z /\ p = 0) \/ \E j \in DOMAIN table : In(j, x, p))
    OBVIOUS
  <2> HIDE DEF T
  <2>3. Keeps(T, F, w)
    <3> SUFFICES ASSUME NEW x \in DOMAIN F, NEW e \in F[x], NEW p \in T[x], NEW q \in Places(w), Via(e[1], w, p, q)
                 PROVE  q \in T[e[2]]
      BY DEF Keeps
    <3>1. CASE x = z /\ p = 0
      <4>1. e[2] \in Z /\ q = 0 BY <1>5, <3>1, EmptyMove
      <4>2. PICK j \in DOMAIN table : e[2] = table[j].start BY <4>1 DEF Z
      <4>3. e[2] \in D[j] /\ e[2] \in DOMAIN F BY <1>2, <4>2 DEF Piece, Region
      <4>4. Leads(F, w, 0, table[j].start, q, e[2]) BY <4>1, <4>2, LeadsStarts
      <4> QED BY <2>2, <4>3, <4>4
    <3>2. CASE \E j \in DOMAIN table : In(j, x, p)
      <4>1. PICK j \in DOMAIN table : In(j, x, p) BY <3>2
      <4>2. e[2] \in D[j] /\ e[2] \in DOMAIN F BY <1>2, <4>1 DEF Piece, Region
      <4>3. Leads(F, w, 0, table[j].start, q, e[2])
        <5> DEFINE s == table[j].start
        <5>1. Leads(F, w, 0, s, p, x) BY <4>1
        <5> HIDE DEF s
        <5>2. Leads(F, w, 0, s, q, e[2]) BY <5>1, LeadsOn
        <5> QED BY <5>2 DEF s
      <4> QED BY <2>2, <4>2, <4>3
    <3> QED BY <2>2, <3>1, <3>2
  <2>4. 0 \in T[z] BY <1>4, <1>6, <2>2
  <2>5. Len(w) \in T[table[k].accept] BY <1>9, <2>1, <2>3, <2>4 DEF Leads
  <2>6. table[k].accept \in D[k] /\ table[k].accept \in DOMAIN F /\ table[k].accept # z BY <1>1, <1>2 DEF Piece, Region
  <2>7. PICK j \in DOMAIN table : In(j, table[k].accept, Len(w)) BY <2>2, <2>5, <2>6
  <2>8. j = k BY <1>3, <2>6, <2>7
  <2> QED BY <2>7, <2>8
<1> QED BY <1>7, <1>8, <1>9

LEMMA EndsDiffer ==
  ASSUME NEW F, NEW table, NEW frags, Layout(F, table, frags), NEW j \in DOMAIN table, NEW k \in DOMAIN table, j # k
  PROVE  table[j].accept # table[k].accept
BY DEF Layout, Owns, Piece

-----------------------------------------------------------------------------
(***************************************************************************)
(* The steps of toPostfix and buildNFA, seen by one text.                  *)
(***************************************************************************)
Reads(infix, w, ops, p, n) == \E s : Value(p, w, s) /\ Parsing(infix, w, ops, s, n)

LEMMA ValueType ==
  ASSUME NEW p, Len(p) \in Nat, NEW w, NEW s, Value(p, w, s)
  PROVE  s \in Seq(Spans(w)) /\ Len(s) \in Nat
BY DEF Value, Evaluated

LEMMA OperatorsOnly ==
  ASSUME NEW infix, NEW w, NEW T, NEW ops \in Seq(T), ops # <<>>, NEW s, NEW n, Parsing(infix, w, ops, s, n)
  PROVE  Last(ops) \in {"(", "|", "&"}
<1>1. PICK at_, below : Stacked(infix, w, ops, s, at_, below) BY DEF Parsing
<1>2. Level(infix, w, ops, s, at_, below, Len(ops)) BY <1>1, Uncovered
<1> QED BY <1>2 DEF Level, Last

LEMMA ReadsToken ==
  ASSUME NEW infix, Alternates(infix), NEW w, Len(w) \in Nat, NEW T, NEW ops \in Seq(T), NEW U, NEW p \in Seq(U), NEW n,
         Reads(infix, w, ops, p, n), n <= Len(infix), NEW x \in U, x = infix[n], x \notin {"(", ")", "|", "&"}
  PROVE  Reads(infix, w, ops, Append(p, x), n + 1)
<1>1. PICK s : Value(p, w, s) /\ Parsing(infix, w, ops, s, n) BY DEF Reads
<1>2. s \in Seq(Spans(w)) /\ Len(s) \in Nat /\ Len(ops) \in Nat BY <1>1, ValueType
<1>3. Unit(x, w) \in Spans(w) BY SpansClosed
<1>4. CASE x = "*"
  <2> DEFINE t == Append(Beneath(s), Repeated(Last(s), w))
  <2>1. s # <<>> /\ Parsing(infix, w, ops, t, n + 1) BY <1>1, <1>2, <1>4, StarRead
  <2>2. Calculates(s, x, w, t) BY <1>4, <2>1 DEF Calculates
  <2> HIDE DEF t
  <2>3. Value(Append(p, x), w, t) BY <1>1, <2>2, ValueGrows
  <2> QED BY <2>1, <2>3 DEF Reads
<1>5. CASE x # "*"
  <2> DEFINE t == Append(s, Unit(x, w))
  <2>1. Parsing(infix, w, ops, t, n + 1) BY <1>1, <1>2, <1>3, <1>5, OperandRead
  <2>2. Calculates(s, x, w, t) BY <1>5 DEF Calculates
  <2> HIDE DEF t
  <2>3. Value(Append(p, x), w, t) BY <1>1, <2>2, ValueGrows
  <2> QED BY <2>1, <2>3 DEF Reads
<1> QED BY <1>4, <1>5

LEMMA ReadsPopped ==
  ASSUME NEW infix, Alternates(infix), NEW w, Len(w) \in Nat, NEW T, NEW ops \in Seq(T), ops # <<>>,
         NEW U, NEW p \in Seq(U), NEW n, Reads(infix, w, ops, p, n), n <= Len(infix) + 1, Last(ops) # "(", Last(ops) \in U,
         Ahead(infix, n) \in {"&", "|", ")"}, Ahead(infix, n) = "&" => Last(ops) = "&"
  PROVE  Reads(infix, w, Beneath(ops), Append(p, Last(ops)), n)
<1>1. PICK s : Value(p, w, s) /\ Parsing(infix, w, ops, s, n) BY DEF Reads
<1>2. s \in Seq(Spans(w)) BY <1>1, ValueType
<1>3. Last(ops) \in {"|", "&"} BY <1>1, OperatorsOnly
<1> DEFINE x == Last(ops)
           R == IF x = "&" THEN Chained(Last(Beneath(s)), Last(s)) ELSE Last(Beneath(s)) \cup Last(s)
           t == Append(Beneath(Beneath(s)), R)
<1>4. \E Q : t = Append(Beneath(Beneath(s)), Q) /\ Q = IF Last(ops) = "&" THEN Chained(Last(Beneath(s)), Last(s))
                                                  ELSE Last(Beneath(s)) \cup Last(s)
  OBVIOUS
<1>5. (Len(s) >= 2 => Calculates(s, x, w, t)) BY <1>3 DEF Calculates
<1> HIDE DEF t, R
<1>6. Len(s) >= 2 /\ Parsing(infix, w, Beneath(ops), t, n) BY <1>1, <1>2, <1>3, <1>4, Popped
<1>7. Value(Append(p, x), w, t) BY <1>1, <1>5, <1>6, ValueGrows
<1> QED BY <1>6, <1>7 DEF Reads

LEMMA ReadsPushed ==
  ASSUME NEW infix, Alternates(infix), NEW w, NEW T, NEW ops \in Seq(T), NEW U, NEW p \in Seq(U), NEW n,
         Reads(infix, w, ops, p, n), n <= Len(infix), NEW op \in T, op = infix[n], op \in {"(", "|", "&"},
         ops # <<>> /\ Last(ops) # "(" => op = "(" \/ (op = "&" /\ Last(ops) # "&")
  PROVE  Reads(infix, w, Append(ops, op), p, n + 1)
<1>1. PICK s : Value(p, w, s) /\ Parsing(infix, w, ops, s, n) BY DEF Reads
<1>2. Len(s) \in Nat BY <1>1, ValueType
<1>3. ops # <<>> => Last(ops) \in {"(", "|", "&"} BY <1>1, OperatorsOnly
<1>4. Fits(Top(ops), op) BY <1>3 DEF Fits, Top
<1>5. Parsing(infix, w, Append(ops, op), s, n + 1) BY <1>1, <1>2, <1>4, Pushed
<1> QED BY <1>1, <1>5 DEF Reads

LEMMA ReadsClosed ==
  ASSUME NEW infix, Alternates(infix), NEW w, NEW T, NEW ops \in Seq(T), ops # <<>>, NEW U, NEW p \in Seq(U), NEW n,
         Reads(infix, w, ops, p, n), n <= Len(infix), Last(ops) = "(", infix[n] = ")"
  PROVE  Reads(infix, w, Beneath(ops), p, n + 1)
<1>1. PICK s : Value(p, w, s) /\ Parsing(infix, w, ops, s, n) BY DEF Reads
<1>2. Len(s) \in Nat BY <1>1, ValueType
<1> QED BY <1>1, <1>2, ParenthesisClosed DEF Reads

\* buildNFA stands before the n-th token of the postfix expression p, whose value is R.
Builds(E, frags, p, w, R, n) ==
  n \in 1..Len(p) + 1 /\ \E V : Evaluated(V, p, w, <<R>>) /\ SpeaksStack(E, frags, V[n - 1], w)

LEMMA BuildsStarts ==
  ASSUME NEW infix, Alternates(infix), NEW w, NEW U, NEW p \in Seq(U), NEW n, Reads(infix, w, <<>>, p, n),
         n > Len(infix), n <= Len(infix) + 1, NEW E
  PROVE  Builds(E, <<>>, p, w, Meaning(infix, w), 1)
<1>1. PICK s : Value(p, w, s) /\ Parsing(infix, w, <<>>, s, n) BY DEF Reads
<1>2. s \in Seq(Spans(w)) BY <1>1, ValueType
<1> DEFINE R == Meaning(infix, w)
<1>3. s = <<R>> BY <1>1, <1>2, ParsingEnds
<1> HIDE DEF R
<1>4. PICK V : Evaluated(V, p, w, <<R>>) BY <1>1, <1>3 DEF Value
<1>5. V[1 - 1] = <<>> BY <1>4 DEF Evaluated
<1>6. SpeaksStack(E, <<>>, V[1 - 1], w) BY <1>5 DEF SpeaksStack
<1>7. 1 \in 1..Len(p) + 1 OBVIOUS
<1> QED BY <1>4, <1>6, <1>7 DEF Builds, R

LEMMA BuildsOn ==
  ASSUME NEW E, NEW F, NEW table, NEW frags, NEW more, NEW p, Len(p) \in Nat, NEW n, n <= Len(p), NEW c, c = p[n],
         Follow(E, F, table, frags, more, c), NEW w, Len(w) \in Nat, NEW R, Builds(E, frags, p, w, R, n)
  PROVE  Builds(F, more, p, w, R, n + 1)
<1>1. n \in 1..Len(p) + 1 /\ n + 1 \in 1..Len(p) + 1 /\ n - 1 \in 0..Len(p) - 1 /\ n - 1 \in 0..Len(p)
      /\ (n - 1) + 1 = n /\ (n + 1) - 1 = n
  BY DEF Builds
<1>2. PICK V : Evaluated(V, p, w, <<R>>) /\ SpeaksStack(E, frags, V[n - 1], w) BY DEF Builds
<1>3. V[n - 1] \in Seq(Spans(w)) /\ Calculates(V[n - 1], c, w, V[n]) BY <1>1, <1>2 DEF Evaluated
<1>4. SpeaksStack(F, more, V[n], w) BY <1>2, <1>3 DEF Follow
<1> QED BY <1>1, <1>2, <1>4 DEF Builds

-----------------------------------------------------------------------------
(***************************************************************************)
(* What the automata of the rules mean, at every step that builds them.    *)
(***************************************************************************)
EdgesOf(ns) == [n \in DOMAIN ns |-> ns[n].edges]
Wires       == EdgesOf(nodes)

Accepts(a, table, rs) ==
  /\ DOMAIN a = {table[k].accept : k \in DOMAIN table}
  /\ \A k \in DOMAIN table : a[table[k].accept] = [action |-> rs[k].action, priority |-> k - 1]

MeaningInv ==
  pc # "threw" =>
    /\ Layout(Wires, nfaTable, fragments) /\ Accepts(accepting, nfaTable, rules)
    /\ \A w \in Texts : SpeaksTable(Wires, nfaTable, rules, w)
    /\ pc = "postfix" => /\ fragments = <<>> /\ pos <= Len(rules[r].infix) + 1
                         /\ \A w \in Texts : Reads(rules[r].infix, w, operators, postfix, pos)
    /\ pc = "build" => /\ operators = <<>>
                       /\ \A w \in Texts : Builds(Wires, fragments, postfix, w, Meaning(rules[r].infix, w), pos)
    /\ pc = "done" => fragments = <<>> /\ Len(nfaTable) = Len(rules) /\ Merges(Wires, nfaTable, merged)

LEMMA RulesAlternate ==
  ASSUME NEW s \in Specs, NEW i \in 1..Len(s)
  PROVE  Alternates(s[i].infix)
<1>1. PICK p \in Programs : \E k \in DOMAIN p : s = p[k] BY DEF Specs
<1>2. PICK k \in DOMAIN p : s = p[k] BY <1>1
<1>3. i \in DOMAIN p[k] BY <1>2, SpecFacts
<1> DEFINE f == p[k][i].infix
<1>4. /\ Begins(f[1]) /\ ~Awaits(f[Len(f)])
      /\ \A m \in 1..Len(f) - 1 : Begins(f[m + 1]) <=> Awaits(f[m])
  BY <1>2, <1>3, ExpressionsAssumption
<1>5. IsSequence(f) /\ f # <<>> BY <1>2, <1>3, RulesAssumption
<1> HIDE DEF f
<1>6. Len(f) \in Nat \ {0} BY <1>5 DEF IsSequence
<1>7. s[i].infix = f BY <1>2 DEF f
<1> QED BY <1>4, <1>6, <1>7 DEF Alternates

LEMMA TextLengths == \A w \in Texts : Len(w) \in Nat
BY TextsAssumption

Added(E, F, m, n, X) == Enlarged(E, F, m, n) /\ F[m] = X /\ F[n] = {} /\ \A x \in DOMAIN E : F[x] = E[x]
Wired(E, F, n, Z)    ==
  DOMAIN F = DOMAIN E /\ F[n] = E[n] \cup ({"eps"} \X Z) /\ \A x \in DOMAIN E : x # n => F[x] = E[x]

LEMMA PairEdges ==
  ASSUME nodes \in Seq(Node), NEW X
  PROVE  Added(Wires, EdgesOf(Nfa!NewPair(X)), Nfa!newStart, Nfa!newAccept, X)
<1> DEFINE a == [accepted |-> FALSE, edges |-> X]
           b == [accepted |-> TRUE, edges |-> {}]
           ns == nodes \o <<a, b>>
<1>1. a.edges = X /\ b.edges = {} OBVIOUS
<1>2. Nfa!NewPair(X) = ns BY DEF Nfa!NewPair
<1> HIDE DEF a, b
<1> DEFINE n == Len(nodes)
<1>3. n \in Nat /\ DOMAIN nodes = 1..n BY DEF Node
<1>4. /\ DOMAIN ns = 1..n + 2 /\ ns[n + 1] = a /\ ns[n + 2] = b
      /\ \A k \in 1..n : ns[k] = nodes[k]
  BY <1>3
<1> HIDE DEF ns
<1>5. Nfa!newStart = n + 1 /\ Nfa!newAccept = n + 2 BY DEF Nfa!newStart, Nfa!newAccept
<1> HIDE DEF n
<1>6. 1..n + 2 = 1..n \cup {n + 1, n + 2} /\ n + 1 \notin 1..n /\ n + 2 \notin 1..n /\ n + 1 # n + 2 BY <1>3
<1>7. \A k \in 1..n : k \in 1..n + 2 BY <1>6
<1> DEFINE E == EdgesOf(nodes)
           F == EdgesOf(ns)
<1>8. DOMAIN E = 1..n /\ (\A k \in 1..n : E[k] = nodes[k].edges) BY <1>3 DEF EdgesOf
<1>9. DOMAIN F = 1..n + 2 /\ (\A k \in 1..n + 2 : F[k] = ns[k].edges) BY <1>4 DEF EdgesOf
<1> HIDE DEF E, F
<1>10. F[n + 1] = X /\ F[n + 2] = {} /\ \A k \in 1..n : F[k] = E[k] BY <1>1, <1>4, <1>6, <1>7, <1>8, <1>9
<1>11. Enlarged(E, F, n + 1, n + 2) BY <1>6, <1>8, <1>9 DEF Enlarged
<1>12. Added(E, F, n + 1, n + 2, X) BY <1>8, <1>10, <1>11 DEF Added
<1> QED BY <1>2, <1>5, <1>12 DEF E, F, Wires

LEMMA JoinedEdges ==
  ASSUME NEW ns, NEW n \in DOMAIN ns, NEW Z
  PROVE  Wired(EdgesOf(ns), EdgesOf(Nfa!Joined(ns, n, Z)), n, Z)
<1> DEFINE a  == [accepted |-> FALSE, edges |-> ns[n].edges \cup ({"eps"} \X Z)]
           ms == Nfa!Joined(ns, n, Z)
<1>1. a.edges = ns[n].edges \cup ({"eps"} \X Z) OBVIOUS
<1>2. ms = [ns EXCEPT ![n] = a] BY DEF Nfa!Joined
<1> HIDE DEF a, ms
<1>3. DOMAIN ms = DOMAIN ns /\ ms[n] = a /\ \A x \in DOMAIN ns : x # n => ms[x] = ns[x] BY <1>2
<1>4. Wired(EdgesOf(ns), EdgesOf(ms), n, Z) BY <1>1, <1>3 DEF Wired, EdgesOf
<1> QED BY <1>4 DEF ms

LEMMA BuildFollows ==
  ASSUME NfaInv, Layout(Wires, nfaTable, fragments), Nfa!Atom \/ Nfa!Concatenate \/ Nfa!Alternate \/ Nfa!Repeat
  PROVE  Follow(Wires, Wires', nfaTable, fragments, fragments', Nfa!symbol)
<1>1. /\ nodes \in Seq(Node) /\ DOMAIN nodes = 1..Len(nodes) /\ Len(nodes) \in Nat /\ fragments \in Seq(Fragment)
      /\ DOMAIN Wires = DOMAIN nodes
  BY DEF NfaInv, Net, Wires, EdgesOf
<1>2. fragments # <<>> => Nfa!top = Last(fragments) /\ Nfa!Rest(fragments) = Beneath(fragments) /\ Nfa!top.accept \in DOMAIN nodes
  <2>1. fragments # <<>> => Nfa!top \in Fragment BY <1>1, StackFacts DEF Nfa!top
  <2>2. Nfa!top = Last(fragments) /\ Nfa!Rest(fragments) = Beneath(fragments)
    BY DEF Nfa!top, Nfa!Peek, Nfa!Rest, Last, Beneath
  <2> QED BY <1>1, <2>1, <2>2 DEF Fragment
<1>3. ASSUME Len(fragments) >= 2
      PROVE  /\ fragments # <<>> /\ Nfa!below = Last(Beneath(fragments)) /\ Nfa!Rest(Nfa!Rest(fragments)) = Beneath(Beneath(fragments))
             /\ Nfa!below.accept \in DOMAIN nodes
  <2>1. fragments # <<>> BY <1>1, <1>3
  <2>2. Nfa!Rest(fragments) \in Seq(Fragment) /\ Nfa!Rest(fragments) # <<>> BY <1>1, <1>3, <2>1, StackFacts
  <2>3. Nfa!below \in Fragment BY <2>2, StackFacts DEF Nfa!below
  <2>4. Nfa!below = Last(Beneath(fragments)) /\ Nfa!Rest(Nfa!Rest(fragments)) = Beneath(Beneath(fragments))
    BY DEF Nfa!below, Nfa!Peek, Nfa!Rest, Last, Beneath
  <2> QED BY <1>1, <2>1, <2>3, <2>4 DEF Fragment
<1> DEFINE m == Nfa!newStart
           n == Nfa!newAccept
           E == Wires
           F == EdgesOf(nodes')
<1>4. F = Wires' BY DEF Wires
<1>5. CASE Nfa!Atom
  <2> DEFINE X == {<<Nfa!symbol, n>>}
  <2>1. /\ nodes' = Nfa!NewPair(X) /\ fragments' = Append(fragments, [start |-> m, accept |-> n])
        /\ Nfa!symbol \notin Nfa!Operators
    BY <1>5 DEF Nfa!Atom
  <2>2. Added(E, F, m, n, X) BY <1>1, <2>1, PairEdges
  <2> DEFINE c == Nfa!symbol
  <2>3. c \notin {"*", "&", "|"} BY <2>1 DEF Nfa!Operators
  <2> HIDE DEF E, F, m, n, c
  <2>4. /\ m \notin DOMAIN E /\ n \notin DOMAIN E /\ m # n /\ DOMAIN F = DOMAIN E \cup {m, n}
        /\ F[m] = {<<c, n>>} /\ F[n] = {} /\ \A x \in DOMAIN E : F[x] = E[x]
    BY <2>2 DEF Added, Enlarged, c
  <2>5. Layout(E, nfaTable, fragments) BY DEF E
  <2>6. Follow(E, F, nfaTable, fragments, Append(fragments, [start |-> m, accept |-> n]), c)
    BY <1>1, <2>3, <2>4, <2>5, AtomFollows
  <2> QED BY <1>4, <2>1, <2>6 DEF E, c
<1>6. CASE Nfa!Concatenate
  <2> DEFINE under == Nfa!below
             over == Nfa!top
  <2>1. /\ Len(fragments) >= 2 /\ nodes' = Nfa!Joined(nodes, under.accept, {over.start}) /\ Nfa!symbol = "&"
        /\ fragments' = Append(Nfa!Rest(Nfa!Rest(fragments)), [start |-> under.start, accept |-> over.accept])
    BY <1>6 DEF Nfa!Concatenate
  <2>2. /\ under = Last(Beneath(fragments)) /\ over = Last(fragments) /\ under.accept \in DOMAIN nodes
        /\ fragments' = Append(Beneath(Beneath(fragments)), [start |-> under.start, accept |-> over.accept])
    BY <1>2, <1>3, <2>1
  <2> HIDE DEF under, over
  <2> DEFINE Z == {over.start}
  <2>3. nodes' = Nfa!Joined(nodes, under.accept, Z) BY <2>1
  <2> HIDE DEF Z
  <2>4. Wired(E, F, under.accept, Z) BY <2>2, <2>3, JoinedEdges DEF Wires
  <2> HIDE DEF E, F
  <2>5. /\ DOMAIN F = DOMAIN E /\ F[under.accept] = E[under.accept] \cup ({"eps"} \X {over.start})
        /\ \A x \in DOMAIN E : x # under.accept => F[x] = E[x]
    BY <2>4 DEF Wired, Z
  <2>6. Layout(E, nfaTable, fragments) BY DEF E
  <2>7. Follow(E, F, nfaTable, fragments, Append(Beneath(Beneath(fragments)), [start |-> under.start, accept |-> over.accept]), "&")
    BY <1>1, <2>1, <2>2, <2>5, <2>6, ConcatFollows
  <2> QED BY <1>4, <2>1, <2>2, <2>7 DEF E
<1>7. CASE Nfa!Alternate
  <2> DEFINE under == Nfa!below
             over == Nfa!top
             X == {"eps"} \X {under.start, over.start}
             Z == {n}
             one == Nfa!NewPair(X)
             two == Nfa!Joined(one, under.accept, Z)
             P == EdgesOf(one)
             Q == EdgesOf(two)
  <2>1. /\ Len(fragments) >= 2 /\ nodes' = Nfa!Joined(two, over.accept, Z) /\ Nfa!symbol = "|"
        /\ fragments' = Append(Nfa!Rest(Nfa!Rest(fragments)), [start |-> m, accept |-> n])
    BY <1>7 DEF Nfa!Alternate
  <2>2. /\ under = Last(Beneath(fragments)) /\ over = Last(fragments)
        /\ under.accept \in DOMAIN nodes /\ over.accept \in DOMAIN nodes
        /\ fragments' = Append(Beneath(Beneath(fragments)), [start |-> m, accept |-> n])
    BY <1>2, <1>3, <2>1
  <2> HIDE DEF under, over
  <2>3. Added(E, P, m, n, X) BY <1>1, PairEdges
  <2>4. DOMAIN P = DOMAIN one /\ DOMAIN Q = DOMAIN two BY DEF EdgesOf
  <2>5. under.accept \in DOMAIN one BY <1>1, <2>2, <2>3, <2>4 DEF Added, Enlarged
  <2> HIDE DEF Z
  <2>6. Wired(P, Q, under.accept, Z) BY <2>5, JoinedEdges
  <2>7. over.accept \in DOMAIN two BY <1>1, <2>2, <2>3, <2>4, <2>6 DEF Added, Enlarged, Wired
  <2>8. Wired(Q, F, over.accept, Z) BY <2>1, <2>7, JoinedEdges
  <2>9. under.accept \in DOMAIN E /\ over.accept \in DOMAIN E BY <1>1, <2>2
  <2> HIDE DEF E, F, m, n, P, Q, X
  <2>10. m \notin DOMAIN E /\ n \notin DOMAIN E /\ m # n /\ DOMAIN F = DOMAIN E \cup {m, n}
    BY <2>3, <2>6, <2>8 DEF Added, Enlarged, Wired
  <2>11. F[m] = X /\ F[n] = {}
    BY <2>3, <2>6, <2>8, <2>9, <2>10 DEF Added, Enlarged, Wired
  <2>12. P[under.accept] = E[under.accept] /\ P[over.accept] = E[over.accept] BY <2>3, <2>9 DEF Added
  <2>13. F[under.accept] = E[under.accept] \cup ({"eps"} \X Z)
    <3>1. CASE under.accept = over.accept BY <2>6, <2>8, <2>12, <3>1 DEF Wired
    <3>2. CASE under.accept # over.accept BY <2>3, <2>6, <2>8, <2>9, <2>12, <3>2 DEF Added, Enlarged, Wired
    <3> QED BY <3>1, <3>2
  <2>14. F[over.accept] = E[over.accept] \cup ({"eps"} \X Z)
    <3>1. CASE under.accept = over.accept BY <2>13, <3>1
    <3>2. CASE under.accept # over.accept BY <2>3, <2>6, <2>8, <2>9, <2>12, <3>2 DEF Added, Enlarged, Wired
    <3> QED BY <3>1, <3>2
  <2>15. \A x \in DOMAIN E : x \notin {under.accept, over.accept} => F[x] = E[x]
    BY <2>3, <2>6, <2>8 DEF Added, Enlarged, Wired
  <2>16. Layout(E, nfaTable, fragments) BY DEF E
  <2>17. /\ Enlarged(E, F, m, n) /\ Forked(F, m, under.start, over.start)
         /\ Grown(E, F, under.accept, n, n) /\ Grown(E, F, over.accept, n, n)
         /\ EqualBut(E, F, DOMAIN E, under.accept, over.accept)
    BY <2>10, <2>11, <2>13, <2>14, <2>15 DEF Enlarged, Forked, Grown, EqualBut, X, Z
  <2>18. Follow(E, F, nfaTable, fragments, Append(Beneath(Beneath(fragments)), [start |-> m, accept |-> n]), "|")
    BY <1>1, <2>1, <2>2, <2>11, <2>16, <2>17, AlternateFollows
  <2> QED BY <1>4, <2>1, <2>2, <2>18 DEF E
<1>8. CASE Nfa!Repeat
  <2> DEFINE over == Nfa!top
             Z == {over.start, n}
             X == {"eps"} \X {over.start, n}
             one == Nfa!NewPair(X)
             P == EdgesOf(one)
  <2>1. /\ fragments # <<>> /\ nodes' = Nfa!Joined(one, over.accept, Z) /\ Nfa!symbol = "*"
        /\ fragments' = Append(Nfa!Rest(fragments), [start |-> m, accept |-> n])
    BY <1>8 DEF Nfa!Repeat
  <2>2. /\ over = Last(fragments) /\ over.accept \in DOMAIN nodes
        /\ fragments' = Append(Beneath(fragments), [start |-> m, accept |-> n])
    BY <1>2, <2>1
  <2> HIDE DEF over
  <2>3. Added(E, P, m, n, X) BY <1>1, PairEdges
  <2>4. DOMAIN P = DOMAIN one BY DEF EdgesOf
  <2>5. over.accept \in DOMAIN one BY <1>1, <2>2, <2>3, <2>4 DEF Added, Enlarged
  <2> HIDE DEF Z
  <2>6. Wired(P, F, over.accept, Z) BY <2>1, <2>5, JoinedEdges
  <2>7. over.accept \in DOMAIN E BY <1>1, <2>2
  <2> HIDE DEF E, F, m, n, P, X
  <2>8. m \notin DOMAIN E /\ n \notin DOMAIN E /\ m # n /\ DOMAIN F = DOMAIN E \cup {m, n}
    BY <2>3, <2>6 DEF Added, Enlarged, Wired
  <2>9. /\ F[m] = X /\ F[n] = {} /\ F[over.accept] = E[over.accept] \cup ({"eps"} \X Z)
        /\ \A x \in DOMAIN E : x # over.accept => F[x] = E[x]
    BY <2>3, <2>6, <2>7, <2>8 DEF Added, Enlarged, Wired
  <2>10. Layout(E, nfaTable, fragments) BY DEF E
  <2>11. /\ Enlarged(E, F, m, n) /\ Forked(F, m, over.start, n) /\ Grown(E, F, over.accept, over.start, n)
         /\ EqualBut(E, F, DOMAIN E, over.accept, over.accept)
    BY <2>8, <2>9 DEF Enlarged, Forked, Grown, EqualBut, X, Z
  <2>12. Follow(E, F, nfaTable, fragments, Append(Beneath(fragments), [start |-> m, accept |-> n]), "*")
    BY <1>1, <2>1, <2>2, <2>9, <2>10, <2>11, RepeatFollows
  <2> QED BY <1>4, <2>1, <2>2, <2>12 DEF E
<1> QED BY <1>5, <1>6, <1>7, <1>8

LEMMA ChainsTighter ==
  /\ \A op : Nfa!Precedence(op) >= Nfa!Precedence("&") => op = "&"
  /\ \A x \in {"|", "&"}, y \in {"|", "&"} : ~(Nfa!Precedence(x) >= Nfa!Precedence(y)) => y = "&" /\ x # "&"
<1>1. Nfa!Precedence("|") = 1 /\ Nfa!Precedence("&") = 2 /\ \A op : op \notin {"|", "&"} => Nfa!Precedence(op) = 0
  BY DEF Nfa!Precedence
<1> QED BY <1>1

LEMMA PostfixMeans ==
  ASSUME NfaInv, MeaningInv,
         \/ Nfa!PassOn \/ Nfa!PopOperator \/ Nfa!PushOperator
         \/ Nfa!CloseParenthesis \/ Nfa!FlushOperator \/ Nfa!StartBuild
  PROVE  MeaningInv'
<1>1. /\ pc = "postfix" /\ operators \in Seq(Tokens) /\ postfix \in Seq(Tokens) /\ pos \in Nat \ {0}
      /\ rules \in Specs /\ r \in 1..Len(rules) /\ Len(nfaTable) = r - 1
  BY DEF NfaInv, Nfa!PassOn, Nfa!PopOperator, Nfa!PushOperator, Nfa!CloseParenthesis, Nfa!FlushOperator, Nfa!StartBuild
<1>2. /\ nodes' = nodes /\ fragments' = fragments /\ nfaTable' = nfaTable /\ rules' = rules /\ r' = r
      /\ accepting' = accepting
  BY DEF Nfa!PassOn, Nfa!PopOperator, Nfa!PushOperator, Nfa!CloseParenthesis, Nfa!FlushOperator, Nfa!StartBuild
<1> DEFINE infix == rules[r].infix
<1>3. Alternates(infix) /\ infix \in Seq(Tokens) /\ Len(infix) \in Nat BY <1>1, RulesAlternate, SpecFacts
<1>4. /\ Layout(Wires, nfaTable, fragments) /\ Accepts(accepting, nfaTable, rules)
      /\ \A w \in Texts : SpeaksTable(Wires, nfaTable, rules, w)
      /\ fragments = <<>> /\ pos <= Len(infix) + 1
      /\ \A w \in Texts : Reads(infix, w, operators, postfix, pos)
  BY <1>1 DEF MeaningInv
<1>5. Wires' = Wires /\ infix' = infix BY <1>2 DEF Wires, EdgesOf
<1>6. (Nfa!infixRead <=> pos > Len(infix)) /\ Nfa!token = infix[pos] BY DEF Nfa!infixRead, Nfa!token
<1>7. /\ Layout(Wires', nfaTable', fragments') /\ Accepts(accepting', nfaTable', rules')
      /\ \A w \in Texts : SpeaksTable(Wires', nfaTable', rules', w)
  BY <1>2, <1>4, <1>5
<1>8. operators # <<>> =>
        /\ Nfa!Peek(operators) = Last(operators) /\ Nfa!Rest(operators) = Beneath(operators) /\ Last(operators) \in Tokens
  <2>1. operators # <<>> => Nfa!Peek(operators) \in Tokens BY <1>1, StackFacts
  <2> QED BY <2>1 DEF Nfa!Peek, Nfa!Rest, Last, Beneath
<1> HIDE DEF infix
<1>9. CASE Nfa!StartBuild
  <2>1. /\ pos > Len(infix) /\ operators = <<>> /\ pc' = "build" /\ pos' = 1 /\ operators' = operators /\ postfix' = postfix
    BY <1>6, <1>9 DEF Nfa!StartBuild
  <2>2. \A w \in Texts : Builds(Wires, <<>>, postfix, w, Meaning(infix, w), 1) BY <1>1, <1>3, <1>4, <2>1, BuildsStarts
  <2>3. \A w \in Texts : Builds(Wires', fragments', postfix', w, Meaning(infix', w), pos')
    BY <1>2, <1>4, <1>5, <2>1, <2>2
  <2> QED BY <1>7, <2>1, <2>3 DEF MeaningInv, infix
<1>10. CASE Nfa!PassOn \/ Nfa!PopOperator \/ Nfa!PushOperator \/ Nfa!CloseParenthesis \/ Nfa!FlushOperator
  <2>1. pc' = pc
    BY <1>10 DEF Nfa!PassOn, Nfa!PopOperator, Nfa!PushOperator, Nfa!CloseParenthesis, Nfa!FlushOperator
  <2>2. pos' <= Len(infix) + 1 /\ \A w \in Texts : Reads(infix, w, operators', postfix', pos')
    <3>1. CASE Nfa!PassOn
      <4> DEFINE x == infix[pos]
      <4>1. /\ pos <= Len(infix) /\ x \notin {"(", ")", "|", "&"} /\ operators' = operators
            /\ postfix' = Append(postfix, x) /\ pos' = pos + 1
        BY <1>1, <1>3, <1>6, <3>1 DEF Nfa!PassOn
      <4>2. x \in Tokens BY <1>1, <1>3, <4>1
      <4> HIDE DEF x
      <4>3. x = infix[pos] BY DEF x
      <4>4. \A w \in Texts : Reads(infix, w, operators, Append(postfix, x), pos + 1)
        BY <1>1, <1>3, <1>4, <4>1, <4>2, <4>3, TextLengths, ReadsToken
      <4> QED BY <1>1, <1>3, <4>1, <4>4
    <3>2. CASE Nfa!PopOperator
      <4>1. /\ pos <= Len(infix) /\ Nfa!Pops /\ operators # <<>> /\ Last(operators) # "("
            /\ postfix' = Append(postfix, Last(operators)) /\ operators' = Beneath(operators) /\ pos' = pos
        BY <1>1, <1>3, <1>6, <1>8, <3>2 DEF Nfa!PopOperator, Nfa!Pops
      <4>2. Ahead(infix, pos) = infix[pos] BY <1>1, <1>3, <4>1 DEF Ahead
      <4>3. infix[pos] \in {"&", "|", ")"} BY <1>6, <4>1 DEF Nfa!Pops
      <4>4. infix[pos] = "&" => Nfa!Precedence(Last(operators)) >= Nfa!Precedence("&")
        BY <1>6, <1>8, <4>1 DEF Nfa!Pops
      <4>5. infix[pos] = "&" => Last(operators) = "&" BY <4>4, ChainsTighter
      <4>6. Last(operators) \in Tokens /\ pos <= Len(infix) + 1 BY <1>1, <1>3, <1>8, <4>1
      <4>7. \A w \in Texts : Reads(infix, w, Beneath(operators), Append(postfix, Last(operators)), pos)
        BY <1>1, <1>3, <1>4, <4>1, <4>2, <4>3, <4>5, <4>6, TextLengths, ReadsPopped
      <4> QED BY <4>1, <4>6, <4>7
    <3>3. CASE Nfa!PushOperator
      <4> DEFINE op == infix[pos]
      <4>1. /\ pos <= Len(infix) /\ op \in {"(", "|", "&"} /\ ~Nfa!Pops
            /\ operators' = Append(operators, op) /\ postfix' = postfix /\ pos' = pos + 1
        BY <1>1, <1>3, <1>6, <3>3 DEF Nfa!PushOperator
      <4>2. op \in Tokens BY <1>1, <1>3, <4>1
      <4>3. operators # <<>> /\ Last(operators) # "(" =>
              op = "(" \/ ~(Nfa!Precedence(Last(operators)) >= Nfa!Precedence(op))
        BY <1>6, <1>8, <4>1 DEF Nfa!Pops
      <4> HIDE DEF op
      <4>4. op = infix[pos] BY DEF op
      <4>5. ASSUME NEW w \in Texts PROVE Reads(infix, w, Append(operators, op), postfix, pos + 1)
        <5>1. Reads(infix, w, operators, postfix, pos) BY <1>4
        <5>2. operators # <<>> => Last(operators) \in {"(", "|", "&"} BY <1>1, <5>1, OperatorsOnly DEF Reads
        <5>3. operators # <<>> /\ Last(operators) # "(" => op = "(" \/ (op = "&" /\ Last(operators) # "&")
          BY <4>1, <4>3, <5>2, ChainsTighter
        <5> QED BY <1>1, <1>3, <4>1, <4>2, <4>4, <5>1, <5>3, ReadsPushed
      <4> QED BY <1>1, <1>3, <4>1, <4>5
    <3>4. CASE Nfa!CloseParenthesis
      <4>1. /\ pos <= Len(infix) /\ infix[pos] = ")" /\ operators # <<>> /\ Last(operators) = "("
            /\ operators' = Beneath(operators) /\ postfix' = postfix /\ pos' = pos + 1
        BY <1>1, <1>3, <1>6, <1>8, <3>4 DEF Nfa!CloseParenthesis, Nfa!Pops
      <4>2. \A w \in Texts : Reads(infix, w, Beneath(operators), postfix, pos + 1)
        BY <1>1, <1>3, <1>4, <4>1, ReadsClosed
      <4> QED BY <1>1, <1>3, <4>1, <4>2
    <3>5. CASE Nfa!FlushOperator
      <4>1. /\ pos > Len(infix) /\ operators # <<>> /\ Last(operators) # "("
            /\ postfix' = Append(postfix, Last(operators)) /\ operators' = Beneath(operators) /\ pos' = pos
        BY <1>6, <1>8, <3>5 DEF Nfa!FlushOperator
      <4>2. Ahead(infix, pos) = ")" BY <4>1 DEF Ahead
      <4>3. \A w \in Texts : Reads(infix, w, Beneath(operators), Append(postfix, Last(operators)), pos)
        BY <1>1, <1>3, <1>4, <1>8, <4>1, <4>2, TextLengths, ReadsPopped
      <4> QED BY <1>4, <4>1, <4>3
    <3> QED BY <1>10, <3>1, <3>2, <3>3, <3>4, <3>5
  <2>3. \A w \in Texts : Reads(infix', w, operators', postfix', pos') BY <1>5, <2>2
  <2>4. pos' <= Len(infix') + 1 /\ fragments' = <<>> BY <1>2, <1>4, <1>5, <2>2
  <2> QED BY <1>1, <1>7, <2>1, <2>3, <2>4 DEF MeaningInv, infix
<1> QED BY <1>9, <1>10

LEMMA BuildMeans ==
  ASSUME NfaInv, MeaningInv, Nfa!Atom \/ Nfa!Concatenate \/ Nfa!Alternate \/ Nfa!Repeat
  PROVE  MeaningInv'
<1>1. /\ pc = "build" /\ pos <= Len(postfix) /\ pos' = pos + 1 /\ pc' = pc /\ operators' = operators /\ postfix' = postfix
      /\ nfaTable' = nfaTable /\ rules' = rules /\ r' = r /\ accepting' = accepting /\ Nfa!symbol = postfix[pos]
      /\ postfix \in Seq(Tokens)
  BY DEF NfaInv, Nfa!Atom, Nfa!Concatenate, Nfa!Alternate, Nfa!Repeat, Nfa!postfixRead, Nfa!symbol
<1>2. /\ Layout(Wires, nfaTable, fragments) /\ Accepts(accepting, nfaTable, rules) /\ operators = <<>>
      /\ \A w \in Texts : SpeaksTable(Wires, nfaTable, rules, w)
      /\ \A w \in Texts : Builds(Wires, fragments, postfix, w, Meaning(rules[r].infix, w), pos)
  BY <1>1 DEF MeaningInv
<1> DEFINE c == Nfa!symbol
           E == Wires
           F == Wires'
           more == fragments'
<1>3. Follow(E, F, nfaTable, fragments, more, c) BY <1>2, BuildFollows
<1>4. c = postfix[pos] /\ Len(postfix) \in Nat BY <1>1
<1> HIDE DEF c, E, F, more
<1>5. Layout(F, nfaTable, more) /\ \A w \in Texts : SpeaksTable(F, nfaTable, rules, w)
  BY <1>2, <1>3, TextLengths DEF Follow, E
<1>6. ASSUME NEW w \in Texts PROVE Builds(F, more, postfix, w, Meaning(rules[r].infix, w), pos + 1)
  <2> DEFINE R == Meaning(rules[r].infix, w)
  <2>1. Builds(E, fragments, postfix, w, R, pos) BY <1>2 DEF E
  <2> HIDE DEF R
  <2>2. Len(w) \in Nat BY TextLengths
  <2>3. Builds(F, more, postfix, w, R, pos + 1) BY <1>1, <1>3, <1>4, <2>1, <2>2, BuildsOn
  <2> QED BY <2>3 DEF R
<1> QED BY <1>1, <1>2, <1>5, <1>6 DEF MeaningInv, F, more

\* A finished automaton is entered with the action and the place of its rule.
LEMMA AcceptsMore ==
  ASSUME NEW Y, NEW table \in Seq(Y), NEW f \in Y, NEW a, NEW rs, Accepts(a, table, rs), NEW n, n = Len(table) + 1,
         \A k \in DOMAIN table : table[k].accept # f.accept, NEW b,
         b = [x \in DOMAIN a \cup {f.accept} |-> IF x = f.accept THEN [action |-> rs[n].action, priority |-> n - 1] ELSE a[x]]
  PROVE  Accepts(b, Append(table, f), rs)
<1> DEFINE more == Append(table, f)
           e(k) == [action |-> rs[k].action, priority |-> k - 1]
<1>1. /\ Len(table) \in Nat /\ DOMAIN table = 1..Len(table) /\ DOMAIN more = 1..Len(table) + 1
      /\ more[Len(table) + 1] = f /\ \A k \in 1..Len(table) : more[k] = table[k]
  OBVIOUS
<1>2. DOMAIN a = {table[k].accept : k \in DOMAIN table} /\ \A k \in DOMAIN table : a[table[k].accept] = e(k)
  BY DEF Accepts
<1>3. DOMAIN b = DOMAIN a \cup {f.accept} /\ b[f.accept] = e(n) /\ \A x \in DOMAIN a : x # f.accept => b[x] = a[x]
  OBVIOUS
<1> HIDE DEF more, e
<1>4. n \in DOMAIN more /\ more[n] = f /\ \A k \in DOMAIN more : k = n \/ (k \in DOMAIN table /\ more[k] = table[k]) BY <1>1
<1>5. \A k \in DOMAIN table : k \in DOMAIN more /\ more[k] = table[k] BY <1>1
<1>6. DOMAIN b = {more[k].accept : k \in DOMAIN more} BY <1>2, <1>3, <1>4, <1>5
<1>7. \A k \in DOMAIN more : b[more[k].accept] = e(k)
  <2>1. \A k \in DOMAIN table : b[table[k].accept] = e(k) BY <1>2, <1>3
  <2> QED BY <1>3, <1>4, <2>1
<1> QED BY <1>6, <1>7 DEF Accepts, more, e

LEMMA FinishMeans ==
  ASSUME NfaInv, MeaningInv, Nfa!FinishRule \/ Nfa!Merge
  PROVE  MeaningInv'
<1> DEFINE f    == Nfa!top
           more == Append(nfaTable, f)
           E    == Wires
<1>1. /\ pc = "build" /\ Nfa!postfixRead /\ Len(fragments) = 1 /\ rules' = rules /\ operators' = operators
      /\ nfaTable' = more /\ fragments' = <<>> /\ postfix' = <<>> /\ pos' = 1
      /\ accepting' = [x \in DOMAIN accepting \cup {f.accept} |->
                         IF x = f.accept THEN [action |-> rules[r].action, priority |-> r - 1] ELSE accepting[x]]
  BY DEF Nfa!FinishRule, Nfa!Merge, Nfa!Recorded
<1>2. /\ fragments \in Seq(Fragment) /\ nfaTable \in Seq(Fragment) /\ nodes \in Seq(Node)
      /\ rules \in Specs /\ r \in 1..Len(rules) /\ Len(nfaTable) = r - 1 /\ postfix \in Seq(Tokens)
  BY <1>1 DEF NfaInv, Net
<1>3. fragments = <<f>> /\ f \in Fragment
  <2>1. f = fragments[1] BY <1>1 DEF Nfa!top, Nfa!Peek
  <2> HIDE DEF f
  <2>2. ASSUME NEW T, NEW s \in Seq(T), Len(s) = 1 PROVE s = <<s[1]>> /\ s[1] \in T BY <2>2
  <2> QED BY <1>1, <1>2, <2>1, <2>2
<1>4. /\ Layout(E, nfaTable, <<f>>) /\ Accepts(accepting, nfaTable, rules) /\ operators = <<>>
      /\ \A w \in Texts : SpeaksTable(E, nfaTable, rules, w)
      /\ \A w \in Texts : Builds(E, <<f>>, postfix, w, Meaning(rules[r].infix, w), pos)
  BY <1>1, <1>3 DEF MeaningInv
<1>5. r \in Nat \ {0} /\ Len(nfaTable) + 1 = r /\ Len(rules) \in Nat BY <1>2, SpecFacts
<1> HIDE DEF f, E
<1>6. more = Append(nfaTable, f) OBVIOUS
<1> HIDE DEF more
<1>7. ASSUME NEW w \in Texts PROVE SpeaksStack(E, <<f>>, <<Meaning(rules[Len(nfaTable) + 1].infix, w)>>, w)
  <2> DEFINE R == Meaning(rules[r].infix, w)
  <2>1. Builds(E, <<f>>, postfix, w, R, pos) BY <1>4
  <2> HIDE DEF R
  <2>2. PICK V : Evaluated(V, postfix, w, <<R>>) /\ SpeaksStack(E, <<f>>, V[pos - 1], w) /\ pos \in 1..Len(postfix) + 1
    BY <2>1 DEF Builds
  <2>3. pos - 1 = Len(postfix) BY <1>1, <1>2, <2>2 DEF Nfa!postfixRead
  <2>4. V[Len(postfix)] = <<R>> BY <2>2 DEF Evaluated
  <2>5. SpeaksStack(E, <<f>>, <<R>>, w) BY <2>2, <2>3, <2>4
  <2> QED BY <1>5, <2>5 DEF R
<1>8. Layout(E, more, <<>>) /\ \A w \in Texts : SpeaksTable(E, more, rules, w)
  BY <1>2, <1>3, <1>4, <1>6, <1>7, Filed
<1>9. Accepts(accepting', more, rules)
  <2>1. /\ DOMAIN more = 1..r /\ more[r] = f /\ DOMAIN nfaTable = 1..r - 1 /\ \A k \in 1..r - 1 : more[k] = nfaTable[k]
    BY <1>2, <1>3, <1>5, <1>6
  <2>2. r \in DOMAIN more /\ \A k \in DOMAIN nfaTable : k \in DOMAIN more /\ k # r /\ more[k] = nfaTable[k] BY <1>5, <2>1
  <2>3. \A k \in DOMAIN nfaTable : more[k].accept # more[r].accept BY <1>8, <2>2, EndsDiffer
  <2>4. \A k \in DOMAIN nfaTable : nfaTable[k].accept # f.accept BY <2>1, <2>2, <2>3
  <2>5. r = Len(nfaTable) + 1 BY <1>5
  <2> QED BY <1>1, <1>2, <1>3, <1>4, <1>6, <2>4, <2>5, AcceptsMore
<1>10. CASE Nfa!FinishRule
  <2>1. r < Len(rules) /\ r' = r + 1 /\ pc' = "postfix" /\ nodes' = nodes BY <1>10 DEF Nfa!FinishRule
  <2>2. Wires' = E BY <2>1 DEF Wires, EdgesOf, E
  <2>3. r' \in 1..Len(rules) BY <1>5, <2>1
  <2> DEFINE infix == rules[r'].infix
  <2>4. Alternates(infix) BY <1>2, <2>3, RulesAlternate
  <2>5. pos' <= Len(infix) + 1 BY <1>1, <2>4 DEF Alternates
  <2>6. \A w \in Texts : Reads(infix, w, <<>>, <<>>, 1) BY ValueOfNothing, ParsingStarts DEF Reads
  <2>7. \A w \in Texts : Reads(infix, w, operators', postfix', pos') BY <1>1, <1>4, <2>6
  <2>8. infix = rules'[r'].infix BY <1>1
  <2>9. Layout(Wires', nfaTable', fragments') /\ Accepts(accepting', nfaTable', rules')
        /\ \A w \in Texts : SpeaksTable(Wires', nfaTable', rules', w)
    BY <1>1, <1>8, <1>9, <2>2
  <2> QED BY <1>1, <2>1, <2>5, <2>7, <2>8, <2>9 DEF MeaningInv
<1>11. CASE Nfa!Merge
  <2> DEFINE X == {<<"eps", more[k].start>> : k \in 1..r}
             a == [accepted |-> FALSE, edges |-> X]
             F == EdgesOf(nodes')
             z == merged'
  <2>1. r = Len(rules) /\ pc' = "done" /\ nodes' = Append(nodes, a) /\ merged' = Len(nodes') /\ r' = r
    BY <1>1, <1>11 DEF Nfa!Merge
  <2>2. a.edges = X OBVIOUS
  <2> HIDE DEF a
  <2>3. /\ Len(nodes) \in Nat /\ DOMAIN nodes' = 1..Len(nodes) + 1 /\ nodes'[Len(nodes) + 1] = a /\ Len(nodes') = Len(nodes) + 1
        /\ \A k \in 1..Len(nodes) : nodes'[k] = nodes[k]
    BY <1>2, <2>1
  <2>4. z = Len(nodes) + 1 /\ DOMAIN E = 1..Len(nodes) /\ (\A k \in DOMAIN E : E[k] = nodes[k].edges)
    BY <1>2, <2>1, <2>3 DEF E, Wires, EdgesOf
  <2>5. z \notin DOMAIN E /\ DOMAIN F = DOMAIN E \cup {z} /\ F[z] = X /\ \A k \in DOMAIN E : F[k] = E[k]
    BY <2>2, <2>3, <2>4 DEF EdgesOf
  <2>6. DOMAIN more = 1..r BY <1>2, <1>3, <1>5, <1>6
  <2> HIDE DEF F, z
  <2>7. Gathers(F, more, z) BY <2>5, <2>6 DEF Gathers
  <2>8. Merges(F, more, z) /\ \A w \in Texts : SpeaksTable(F, more, rules, w) BY <1>8, <2>5, <2>7, Merging
  <2>9. Layout(F, more, <<>>) BY <2>8 DEF Merges, Layout
  <2>10. Len(more) = Len(rules) BY <1>2, <1>3, <1>5, <1>6, <2>1
  <2>11. F = Wires' BY DEF F, Wires
  <2> QED BY <1>1, <1>9, <2>1, <2>8, <2>9, <2>10, <2>11 DEF MeaningInv, z
<1> QED BY <1>10, <1>11

LEMMA NfaMeans ==
  ASSUME NfaInv, MeaningInv, Nfa!Next
  PROVE  MeaningInv'
<1>1. CASE Nfa!RejectLiteral BY <1>1 DEF Nfa!RejectLiteral, MeaningInv
<1> QED BY <1>1, PostfixMeans, BuildMeans, FinishMeans DEF Nfa!Next

LEMMA MeaningStays ==
  ASSUME MeaningInv, UNCHANGED nfaVars
  PROVE  MeaningInv'
<1>1. /\ nodes' = nodes /\ fragments' = fragments /\ nfaTable' = nfaTable /\ rules' = rules /\ r' = r /\ accepting' = accepting
      /\ pos' = pos /\ pc' = pc /\ operators' = operators /\ postfix' = postfix /\ merged' = merged
  BY DEF nfaVars
<1>2. Wires' = Wires BY <1>1 DEF Wires, EdgesOf
<1> QED BY <1>1, <1>2 DEF MeaningInv

\* A specification begins.
Fresh ==
  /\ rules \in Specs /\ pc = "postfix" /\ r = 1 /\ pos = 1 /\ operators = <<>> /\ postfix = <<>> /\ fragments = <<>>
  /\ nodes = <<>> /\ accepting = <<>> /\ nfaTable = <<>>

LEMMA MeaningStarts == Fresh => MeaningInv
<1> SUFFICES ASSUME Fresh PROVE MeaningInv OBVIOUS
<1> USE DEF Fresh
<1>1. 1 \in 1..Len(rules) BY SpecFacts
<1> DEFINE infix == rules[1].infix
<1>2. Alternates(infix) BY <1>1, RulesAlternate
<1>3. 1 <= Len(infix) + 1 BY <1>2 DEF Alternates
<1>4. \A w \in Texts : Reads(infix, w, <<>>, <<>>, 1) BY ValueOfNothing, ParsingStarts DEF Reads
<1>5. \A k : k \notin DOMAIN <<>> OBVIOUS
<1>6. Layout(Wires, <<>>, <<>>) BY <1>5 DEF Layout, Owns
<1>7. DOMAIN <<>> = {} OBVIOUS
<1>8. Accepts(<<>>, <<>>, rules) BY <1>7 DEF Accepts
<1>9. \A w \in Texts : SpeaksTable(Wires, <<>>, rules, w) BY <1>5 DEF SpeaksTable
<1> QED BY <1>3, <1>4, <1>6, <1>8, <1>9 DEF MeaningInv

LEMMA MeaningRestarts == (Fresh => MeaningInv)'
BY MeaningStarts, PTL

-----------------------------------------------------------------------------
(***************************************************************************)
(* What the states of the deterministic automaton stand for: the nodes     *)
(* that a text leads to.                                                   *)
(***************************************************************************)
LEMMA EclosureLeast ==
  ASSUME IsNfa(nfa), NEW S, S \in SUBSET (DOMAIN nfa.edges), NEW T, S \subseteq T,
         \A n \in T : \A e \in nfa.edges[n] : e[1] = "eps" => e[2] \in T
  PROVE  Eclosure(S) \subseteq T
<1> DEFINE limit == Cardinality(DOMAIN nfa.edges)
<1>1. limit \in Nat /\ \E h \in [0..limit -> SUBSET (DOMAIN nfa.edges)] :
        /\ h[0] = S /\ Eclosure(S) = h[limit]
        /\ \A n \in 1..limit : h[n] = h[n - 1] \cup Ends(h[n - 1], "eps")
  BY RoundsOf
<1> HIDE DEF limit
<1>2. PICK h \in [0..limit -> SUBSET (DOMAIN nfa.edges)] :
        /\ h[0] = S /\ Eclosure(S) = h[limit]
        /\ \A n \in 1..limit : h[n] = h[n - 1] \cup Ends(h[n - 1], "eps")
  BY <1>1
<1>3. \A U : U \subseteq T => Ends(U, "eps") \subseteq T BY DEF Ends
<1> DEFINE Bad == {n \in 0..limit : ~(h[n] \subseteq T)}
<1>4. Bad = {}
  <2> SUFFICES ASSUME Bad # {} PROVE FALSE OBVIOUS
  <2>1. Bad \in SUBSET Nat BY <1>1
  <2>2. PICK m \in Bad : \A k \in Bad : m <= k BY <2>1, LeastOf
  <2>3. m # 0 BY <1>2, <2>2
  <2>4. m \in 1..limit /\ m - 1 \in 0..limit /\ m - 1 \notin Bad BY <1>1, <2>2, <2>3
  <2>5. h[m - 1] \subseteq T /\ h[m] = h[m - 1] \cup Ends(h[m - 1], "eps") BY <1>2, <2>4
  <2> QED BY <1>3, <2>2, <2>5
<1>5. limit \in 0..limit BY <1>1
<1> QED BY <1>2, <1>4, <1>5

\* The nodes that the first k characters of a text lead to.
Here(w, k)   == {n \in DOMAIN nfa.edges : Leads(nfa.edges, w, 0, nfa.start, k, n)}
Plain(w)     == Len(w) \in Nat /\ \A k \in 1..Len(w) : w[k] # "eps"
Reader(w, k) == Plain(w) /\ k \in 1..Len(w)

LEMMA ReadingMoves ==
  ASSUME NEW w, Plain(w), NEW c, NEW a \in Places(w), NEW b \in Places(w), Via(c, w, a, b)
  PROVE  \/ c = "eps" /\ b = a
         \/ c # "eps" /\ b # 0 /\ a = b - 1 /\ b \in 1..Len(w) /\ w[b] = c
<1>1. CASE c = "eps" BY <1>1, EmptyMove
<1>2. CASE c # "eps"
  <2>1. <<a, b>> \in {<<p - 1, p>> : p \in {q \in 1..Len(w) : w[q] = c}} BY <1>2 DEF Via, Rel, Unit
  <2>2. PICK p \in 1..Len(w) : w[p] = c /\ <<a, b>> = <<p - 1, p>> BY <2>1
  <2>3. a = p - 1 /\ b = p BY <2>2
  <2> QED BY <1>2, <2>2, <2>3 DEF Plain
<1> QED BY <1>1, <1>2

LEMMA HereIsClosed ==
  ASSUME IsNfa(nfa), NEW w, Plain(w), NEW k \in Places(w)
  PROVE  \A n \in Here(w, k) : \A e \in nfa.edges[n] : e[1] = "eps" => e[2] \in Here(w, k)
<1> SUFFICES ASSUME NEW n \in Here(w, k), NEW e \in nfa.edges[n], e[1] = "eps" PROVE e[2] \in Here(w, k)
  OBVIOUS
<1> DEFINE E == nfa.edges
           s == nfa.start
<1>1. n \in DOMAIN E /\ Leads(E, w, 0, s, k, n) /\ e \in E[n] BY DEF Here
<1>2. Via(e[1], w, k, k) BY EmptyMove
<1>3. e[2] \in DOMAIN E BY <1>1 DEF IsNfa
<1> HIDE DEF E, s
<1>4. Leads(E, w, 0, s, k, e[2]) BY <1>1, <1>2, LeadsOn
<1> QED BY <1>3, <1>4 DEF Here, E, s

LEMMA HereStarts ==
  ASSUME IsNfa(nfa), NEW w, Plain(w)
  PROVE  Here(w, 0) = Eclosure({nfa.start})
<1> DEFINE E == nfa.edges
           s == nfa.start
           S == {s}
           C == Eclosure(S)
<1>1. 0 \in Places(w) BY DEF Places, Plain
<1>2. s \in DOMAIN E /\ S \in SUBSET (DOMAIN E) /\ \A n \in DOMAIN E : \A e \in E[n] : e[2] \in DOMAIN E BY DEF IsNfa
<1>3. s \in Here(w, 0)
  <2>1. Leads(E, w, 0, s, 0, s) BY LeadsStarts
  <2> QED BY <1>2, <2>1 DEF Here
<1>4. C \subseteq Here(w, 0)
  <2> DEFINE T == Here(w, 0)
  <2>1. \A n \in T : \A e \in nfa.edges[n] : e[1] = "eps" => e[2] \in T BY <1>1, HereIsClosed
  <2>2. S \subseteq T BY <1>3
  <2> HIDE DEF T, S
  <2>3. Eclosure(S) \subseteq T BY <1>2, <2>1, <2>2, EclosureLeast
  <2> QED BY <2>3 DEF T
<1>5. C \in SUBSET (DOMAIN E) /\ s \in C /\ \A n \in C : \A e \in E[n] : e[1] = "eps" => e[2] \in C
  <2>1. C \in SUBSET (DOMAIN E) /\ S \subseteq C /\ Ends(C, "eps") \subseteq C
    <3> HIDE DEF S
    <3> QED BY <1>2, EclosureFacts
  <2> HIDE DEF C
  <2> QED BY <2>1 DEF Ends
<1> HIDE DEF C
<1>6. ASSUME NEW n \in Here(w, 0) PROVE n \in C
  <2> DEFINE T == [x \in DOMAIN E |-> {p \in Places(w) : p = 0 => x \in C}]
  <2>1. T \in Markings(E, w) BY DEF Markings
  <2>2. \A x \in DOMAIN E : \A p : p \in T[x] <=> p \in Places(w) /\ (p = 0 => x \in C) OBVIOUS
  <2> HIDE DEF T
  <2>3. Keeps(T, E, w)
    <3> SUFFICES ASSUME NEW x \in DOMAIN E, NEW e \in E[x], NEW p \in T[x], NEW q \in Places(w), Via(e[1], w, p, q)
                 PROVE  q \in T[e[2]]
      BY DEF Keeps
    <3>1. p \in Places(w) /\ e[2] \in DOMAIN E BY <1>2, <2>2
    <3>2. (e[1] = "eps" /\ q = p) \/ q # 0 BY <3>1, ReadingMoves
    <3> QED BY <1>5, <2>2, <3>1, <3>2
  <2>4. 0 \in T[s] BY <1>1, <1>2, <1>5, <2>2
  <2>5. n \in DOMAIN E /\ Leads(E, w, 0, s, 0, n) BY <1>6 DEF Here
  <2>6. 0 \in T[n] BY <2>1, <2>3, <2>4, <2>5 DEF Leads
  <2> QED BY <2>2, <2>5, <2>6
<1> QED BY <1>4, <1>6 DEF C

LEMMA HereGoesOn ==
  ASSUME IsNfa(nfa), NEW w, NEW k, Reader(w, k)
  PROVE  Here(w, k) = Eclosure(Ends(Here(w, k - 1), w[k]))
<1> DEFINE E == nfa.edges
           s == nfa.start
           j == k - 1
           S == Ends(Here(w, j), w[k])
           C == Eclosure(S)
<1>0. Plain(w) /\ k \in 1..Len(w) BY DEF Reader
<1>1. k \in Places(w) /\ j \in Places(w) /\ 0 \in Places(w) /\ k # 0 /\ j # k /\ w[k] # "eps" BY <1>0 DEF Places, Plain
<1>2. s \in DOMAIN E /\ \A n \in DOMAIN E : \A e \in E[n] : e[2] \in DOMAIN E BY DEF IsNfa
<1>3. S \in SUBSET (DOMAIN E) BY <1>2 DEF Ends, Here
<1>4. C \subseteq Here(w, k)
  <2> DEFINE T == Here(w, k)
  <2>1. \A n \in T : \A e \in nfa.edges[n] : e[1] = "eps" => e[2] \in T BY <1>0, <1>1, HereIsClosed
  <2>2. ASSUME NEW m \in S PROVE m \in T
    <3>1. PICK n \in Here(w, j) : \E e \in E[n] : e[1] = w[k] /\ m = e[2] BY <2>2 DEF Ends
    <3>2. PICK e \in E[n] : e[1] = w[k] /\ m = e[2] BY <3>1
    <3>3. n \in DOMAIN E /\ Leads(E, w, 0, s, j, n) BY <3>1 DEF Here
    <3>4. Via(e[1], w, j, k) BY <1>0, <1>1, <3>2 DEF Via, Rel, Unit
    <3> HIDE DEF E, s, j
    <3>5. Leads(E, w, 0, s, k, e[2]) BY <1>1, <3>2, <3>3, <3>4, LeadsOn
    <3> QED BY <1>2, <3>2, <3>3, <3>5 DEF Here, E, s
  <2> HIDE DEF T, S
  <2>3. S \subseteq T BY <2>2
  <2>4. Eclosure(S) \subseteq T BY <1>3, <2>1, <2>3, EclosureLeast
  <2> QED BY <2>4 DEF T
<1>5. C \in SUBSET (DOMAIN E) /\ S \subseteq C /\ \A n \in C : \A e \in E[n] : e[1] = "eps" => e[2] \in C
  <2> HIDE DEF S
  <2>1. C \in SUBSET (DOMAIN E) /\ S \subseteq C /\ Ends(C, "eps") \subseteq C BY <1>3, EclosureFacts
  <2> HIDE DEF C
  <2> QED BY <2>1 DEF Ends
<1> HIDE DEF C
<1>6. ASSUME NEW n \in Here(w, k) PROVE n \in C
  <2> DEFINE Reached(x, p) == p # k /\ Leads(E, w, 0, s, p, x)
             T == [x \in DOMAIN E |-> {p \in Places(w) : Reached(x, p) \/ (p = k /\ x \in C)}]
  <2>1. T \in Markings(E, w) BY DEF Markings
  <2>2. \A x \in DOMAIN E : \A p : p \in T[x] <=> p \in Places(w) /\ (Reached(x, p) \/ (p = k /\ x \in C)) OBVIOUS
  <2> HIDE DEF T
  <2>3. Keeps(T, E, w)
    <3> SUFFICES ASSUME NEW x \in DOMAIN E, NEW e \in E[x], NEW p \in T[x], NEW q \in Places(w), Via(e[1], w, p, q)
                 PROVE  q \in T[e[2]]
      BY DEF Keeps
    <3>1. p \in Places(w) /\ e[2] \in DOMAIN E BY <1>2, <2>2
    <3>2. \/ e[1] = "eps" /\ q = p
          \/ e[1] # "eps" /\ q # 0 /\ p = q - 1 /\ q \in 1..Len(w) /\ w[q] = e[1]
      BY <1>0, <3>1, ReadingMoves
    <3>3. Leads(E, w, 0, s, p, x)
      <4>1. CASE Reached(x, p) BY <4>1
      <4>2. CASE p = k /\ x \in C BY <1>4, <4>2 DEF Here, C
      <4> QED BY <2>2, <4>1, <4>2
    <3>4. Leads(E, w, 0, s, q, e[2])
      <4> HIDE DEF E, s
      <4> QED BY <3>3, LeadsOn
    <3>5. CASE q # k BY <2>2, <3>1, <3>4, <3>5
    <3>6. CASE q = k
      <4>1. CASE e[1] = "eps" BY <1>5, <2>2, <3>1, <3>2, <3>6, <4>1
      <4>2. CASE e[1] # "eps"
        <5>1. p = j /\ w[k] = e[1] BY <3>2, <3>6, <4>2
        <5>2. x \in Here(w, j) BY <3>3, <5>1 DEF Here
        <5>3. e[2] \in S BY <5>1, <5>2 DEF Ends
        <5> QED BY <1>5, <2>2, <3>1, <3>6, <5>3
      <4> QED BY <4>1, <4>2
    <3> QED BY <3>5, <3>6
  <2>4. 0 \in T[s]
    <3>1. Leads(E, w, 0, s, 0, s) BY LeadsStarts
    <3> QED BY <1>1, <1>2, <2>2, <3>1
  <2>5. n \in DOMAIN E /\ Leads(E, w, 0, s, k, n) BY <1>6 DEF Here
  <2>6. k \in T[n] BY <2>1, <2>3, <2>4, <2>5 DEF Leads
  <2> QED BY <2>2, <2>5, <2>6
<1> QED BY <1>4, <1>6 DEF C

-----------------------------------------------------------------------------
(***************************************************************************)
(* The states a text passes.                                               *)
(***************************************************************************)
AfterStep(next, q, c)  == IF q # 0 /\ c \in DOMAIN next[q] THEN next[q][c] ELSE 0
Stays(next, D)         == 0 \in D /\ \A q \in D : q # 0 => \A c \in DOMAIN next[q] : next[q][c] \in D
Passes(h, next, start, w) ==
  h = [k \in 0..Len(w) |-> IF k = 0 THEN start ELSE AfterStep(next, h[k - 1], w[k])]

LEMMA PassesExist ==
  ASSUME NEW next, NEW start, NEW D, start \in D, Stays(next, D), NEW w, Len(w) \in Nat
  PROVE  \E h \in [0..Len(w) -> D] : Passes(h, next, start, w) /\ StateAfter(next, start, w) = h[Len(w)]
<1> DEFINE limit == Len(w)
           F == [y \in D \X (1..limit) |-> AfterStep(next, y[1], w[y[2]])]
           after == CHOOSE h : Passes(h, next, start, w)
<1>1. F \in [D \X (1..limit) -> D] BY DEF AfterStep, Stays
<1>2. StateAfter(next, start, w) = after[limit] BY DEF StateAfter, Passes, AfterStep
<1>3. \A y \in D \X (1..limit) : F[y] = AfterStep(next, y[1], w[y[2]]) OBVIOUS
<1>4. limit \in Nat OBVIOUS
<1> HIDE DEF F
<1>5. PICK h \in [0..limit -> D] : Iterates(h, limit, F, start) BY <1>1, <1>4, IterationExists
<1>6. Passes(h, next, start, w)
  <2>1. h = [k \in 0..limit |-> IF k = 0 THEN start ELSE F[<<h[k - 1], k>>]] BY <1>5 DEF Iterates
  <2>2. ASSUME NEW k \in 0..limit, k # 0 PROVE F[<<h[k - 1], k>>] = AfterStep(next, h[k - 1], w[k])
    <3>1. k - 1 \in 0..limit /\ k \in 1..limit BY <1>4, <2>2
    <3>2. <<h[k - 1], k>> \in D \X (1..limit) BY <1>5, <3>1
    <3> QED BY <1>3, <3>2
  <2>3. h = [k \in 0..limit |-> IF k = 0 THEN start ELSE AfterStep(next, h[k - 1], w[k])] BY <2>1, <2>2
  <2> QED BY <2>3 DEF Passes
<1>7. Passes(after, next, start, w) BY <1>6
<1> HIDE DEF after
<1>8. DOMAIN after = 0..limit /\ after[0] = start /\ \A k \in 1..limit : after[k] = AfterStep(next, after[k - 1], w[k])
  <2>1. after = [k \in 0..limit |-> IF k = 0 THEN start ELSE AfterStep(next, after[k - 1], w[k])] BY <1>7 DEF Passes
  <2> QED BY <1>4, <2>1
<1> DEFINE Bad == {k \in 0..limit : after[k] \notin D}
<1>9. Bad = {}
  <2> SUFFICES ASSUME Bad # {} PROVE FALSE OBVIOUS
  <2>1. Bad \in SUBSET Nat BY <1>4
  <2>2. PICK m \in Bad : \A k \in Bad : m <= k BY <2>1, LeastOf
  <2>3. m # 0 BY <1>8, <2>2
  <2>4. m \in 1..limit /\ m - 1 \in 0..limit /\ m - 1 \notin Bad BY <1>4, <2>2, <2>3
  <2>5. after[m - 1] \in D /\ after[m] = AfterStep(next, after[m - 1], w[m]) BY <1>8, <2>4
  <2> QED BY <2>2, <2>5 DEF AfterStep, Stays
<1>10. after = [k \in 0..limit |-> IF k = 0 THEN start ELSE AfterStep(next, after[k - 1], w[k])] BY <1>7 DEF Passes
<1>11. after \in [0..limit -> D] BY <1>9, <1>10
<1> QED BY <1>2, <1>7, <1>11

LEMMA PassesFacts ==
  ASSUME NEW h, NEW next, NEW start, NEW w, Len(w) \in Nat, Passes(h, next, start, w)
  PROVE  h[0] = start /\ \A k \in 1..Len(w) : h[k] = AfterStep(next, h[k - 1], w[k])
<1>1. h = [k \in 0..Len(w) |-> IF k = 0 THEN start ELSE AfterStep(next, h[k - 1], w[k])] BY DEF Passes
<1> QED BY <1>1

LEMMA PlainTexts ==
  ASSUME NEW w \in Texts
  PROVE  Plain(w) /\ \A k \in 1..Len(w) : w[k] \in Letters
<1>1. w \in Seq(Letters) BY TextsAssumption DEF Letters
<1>2. \A c \in Letters : c # "eps" BY TextsAssumption DEF Letters
<1> QED BY <1>1, <1>2 DEF Plain

\* Without nodes there is nowhere to go.
LEMMA NothingClosed == IsNfa(nfa) => Eclosure({}) = {} /\ \A c : Ends({}, c) = {}
<1> SUFFICES ASSUME IsNfa(nfa) PROVE Eclosure({}) = {} /\ \A c : Ends({}, c) = {} OBVIOUS
<1> DEFINE S == {}
<1>1. S \in SUBSET (DOMAIN nfa.edges) /\ S \subseteq S /\ \A n \in S : \A e \in nfa.edges[n] : e[1] = "eps" => e[2] \in S
  OBVIOUS
<1> HIDE DEF S
<1>2. Eclosure(S) \subseteq S BY <1>1, EclosureLeast
<1>3. Eclosure(S) = {} BY <1>2 DEF S
<1> QED BY <1>3 DEF S, Ends

\* The state behind a text is the set of the nodes it leads to, or there is neither.
Stands(q, S) == IF q = 0 THEN S = {} ELSE q \in States /\ stateSets[q] = S

LEMMA StatesStand ==
  ASSUME DfaInv, dpc \in {"refine", "done"}, 1 \in States, stateSets[1] = Eclosure({nfa.start}), NEW w \in Texts
  PROVE  Stands(StateAfter(transitions, 1, w), Here(w, Len(w)))
<1>1. SetsInv /\ IsNfa(nfa) /\ work = <<>> BY DEF DfaInv
<1>2. /\ stateSets \in Seq(Sets) /\ transitions \in Seq(Moves) /\ Len(transitions) = Len(stateSets)
      /\ Len(stateSets) \in Nat /\ Finished = Len(stateSets)
  BY <1>1 DEF SetsInv, Finished
<1>3. ASSUME NEW q \in States
      PROVE  /\ q # 0 /\ stateSets[q] # {} /\ DOMAIN transitions[q] \subseteq Letters
             /\ \A c \in DOMAIN transitions[q] :
                  transitions[q][c] \in States /\ stateSets[transitions[q][c]] = Eclosure(Ends(stateSets[q], c))
             /\ \A c \in Letters : c \notin DOMAIN transitions[q] => Ends(stateSets[q], c) = {}
  <2>1. q \in 1..Len(stateSets) /\ stateSets[q] \in Sets /\ transitions[q] \in Moves BY <1>2 DEF States
  <2>2. DOMAIN transitions[q] \subseteq Letters BY <2>1 DEF Moves
  <2>3. \A c \in Letters \cup {"eps"} :
          behind[<<stateSets[q], c>>] = Ends(stateSets[q], c) /\ Ends(stateSets[q], c) \in Sets
    BY <1>1, <2>1, TableFacts
  <2>4. \A c \in Letters : closure[behind[<<stateSets[q], c>>]] = Eclosure(Ends(stateSets[q], c))
    BY <1>1, <2>3, TableFacts
  <2>5. \A c \in DOMAIN transitions[q] :
          transitions[q][c] \in States /\ stateSets[transitions[q][c]] = Eclosure(Ends(stateSets[q], c))
    BY <1>1, <2>2, <2>4 DEF SetsInv
  <2>6. ASSUME NEW c \in Letters, Ends(stateSets[q], c) # {} PROVE c \in DOMAIN transitions[q]
    <3>1. c \in {e[1] : e \in UNION {nfa.edges[n] : n \in DOMAIN nfa.edges}}
      <4>1. PICK e \in UNION {nfa.edges[n] : n \in stateSets[q]} : e[1] = c BY <2>6 DEF Ends
      <4>2. stateSets[q] \subseteq DOMAIN nfa.edges BY <2>1 DEF Sets
      <4> QED BY <4>1, <4>2
    <3>2. Alphabet \in Seq(Letters) /\ c \in Members(Alphabet) BY AlphabetAssumption DEF Letters, Members
    <3>3. c \in Members(chars)
      <4> DEFINE S == {e[1] : e \in UNION {nfa.edges[n] : n \in DOMAIN nfa.edges}}
      <4>1. c \in S BY <3>1
      <4>2. chars = Those(Alphabet, S) BY DEF chars
      <4> HIDE DEF S
      <4>3. Members(Those(Alphabet, S)) = Members(Alphabet) \cap S BY <3>2, ThoseFacts
      <4> QED BY <3>2, <4>1, <4>2, <4>3
    <3>4. PICK k \in DOMAIN chars : chars[k] = c BY <3>3 DEF Members
    <3>5. q <= Finished BY <1>2, <2>1
    <3>6. behind[<<stateSets[q], chars[k]>>] # {} BY <2>3, <2>6, <3>4
    <3> QED BY <1>1, <3>4, <3>5, <3>6 DEF SetsInv
  <2>7. q # 0 BY <1>2, <2>1
  <2>8. stateSets[q] # {} BY <1>1 DEF SetsInv
  <2> QED BY <2>2, <2>5, <2>6, <2>7, <2>8
<1>4. Plain(w) /\ Len(w) \in Nat /\ \A k \in 1..Len(w) : w[k] \in Letters BY PlainTexts DEF Plain
<1> DEFINE D == States \cup {0}
<1>5. 1 \in D /\ Stays(transitions, D) BY <1>3 DEF Stays
<1> HIDE DEF D
<1>6. PICK h \in [0..Len(w) -> D] : Passes(h, transitions, 1, w) /\ StateAfter(transitions, 1, w) = h[Len(w)]
  BY <1>4, <1>5, PassesExist
<1>7. h[0] = 1 /\ \A k \in 1..Len(w) : h[k] = AfterStep(transitions, h[k - 1], w[k]) BY <1>4, <1>6, PassesFacts
<1> DEFINE Bad == {k \in 0..Len(w) : ~Stands(h[k], Here(w, k))}
<1>8. Bad = {}
  <2> SUFFICES ASSUME Bad # {} PROVE FALSE OBVIOUS
  <2>1. Bad \in SUBSET Nat BY <1>4
  <2>2. PICK m \in Bad : \A k \in Bad : m <= k BY <2>1, LeastOf
  <2>3. m # 0
    <3>1. Here(w, 0) = stateSets[1] BY <1>1, <1>4, HereStarts
    <3>2. Stands(h[0], Here(w, 0)) BY <1>7, <3>1 DEF Stands
    <3> QED BY <2>2, <3>2
  <2>4. m \in 1..Len(w) /\ m - 1 \in 0..Len(w) /\ m - 1 \notin Bad BY <1>4, <2>2, <2>3
  <2> DEFINE c == w[m]
             q == h[m - 1]
             S == Here(w, m - 1)
  <2>5. h[m] = AfterStep(transitions, q, c) /\ c \in Letters BY <1>4, <1>7, <2>4
  <2>6. Here(w, m) = Eclosure(Ends(S, c))
    <3>1. Reader(w, m) BY <1>4, <2>4 DEF Reader
    <3> QED BY <1>1, <3>1, HereGoesOn
  <2>7. Stands(q, S) BY <2>4
  <2>8. ~Stands(h[m], Here(w, m)) BY <2>2
  <2> HIDE DEF c, q, S, Bad
  <2>9. CASE q = 0
    <3>1. S = {} /\ h[m] = 0 BY <2>5, <2>7, <2>9 DEF Stands, AfterStep
    <3>2. Here(w, m) = {} BY <1>1, <2>6, <3>1, NothingClosed
    <3> QED BY <2>8, <3>1, <3>2 DEF Stands
  <2>10. CASE q # 0
    <3>1. q \in States /\ stateSets[q] = S BY <2>7, <2>10 DEF Stands
    <3>2. CASE c \in DOMAIN transitions[q]
      <4>1. h[m] = transitions[q][c] BY <2>5, <2>10, <3>2 DEF AfterStep
      <4>2. h[m] \in States /\ h[m] # 0 /\ stateSets[h[m]] = Here(w, m) BY <1>3, <2>6, <3>1, <3>2, <4>1
      <4> QED BY <2>8, <4>2 DEF Stands
    <3>3. CASE c \notin DOMAIN transitions[q]
      <4>1. h[m] = 0 BY <2>5, <3>3 DEF AfterStep
      <4>2. Ends(S, c) = {} BY <1>3, <2>5, <3>1, <3>3
      <4>3. Here(w, m) = {} BY <1>1, <2>6, <4>2, NothingClosed
      <4> QED BY <2>8, <4>1, <4>3 DEF Stands
    <3> QED BY <3>2, <3>3
  <2> QED BY <2>9, <2>10
<1>9. Len(w) \in 0..Len(w) BY <1>4
<1> QED BY <1>6, <1>8, <1>9

-----------------------------------------------------------------------------
(***************************************************************************)
(* The verdict of the deterministic automaton, and that of the minimal one.*)
(***************************************************************************)
\* The automaton in work is the merged one of the rules.
Submitted == pc = "done" /\ nfa.start = merged /\ nfa.edges = Wires /\ nfa.accepting = accepting

LEMMA PickedIsVerdict ==
  ASSUME NfaInv, MeaningInv, Submitted, NEW w \in Texts
  PROVE  PickAction(Here(w, Len(w))) = Verdict(w)
<1>1. /\ Accepts(accepting, nfaTable, rules) /\ SpeaksTable(Wires, nfaTable, rules, w)
      /\ Len(nfaTable) = Len(rules) /\ Merges(Wires, nfaTable, merged)
  BY DEF MeaningInv, Submitted
<1>2. /\ nfaTable \in Seq(Fragment) /\ rules \in Specs BY DEF NfaInv
<1>3. DOMAIN nfaTable = DOMAIN rules /\ DOMAIN rules = 1..Len(rules) /\ Len(rules) \in Nat BY <1>1, <1>2, SpecFacts
<1> DEFINE A(k) == nfaTable[k].accept
           matching == {k \in DOMAIN rules : Matches(rules[k].infix, w)}
           ends == Here(w, Len(w)) \cap DOMAIN nfa.accepting
<1>4. /\ DOMAIN accepting = {A(k) : k \in DOMAIN rules}
      /\ \A k \in DOMAIN rules : accepting[A(k)] = [action |-> rules[k].action, priority |-> k - 1]
  BY <1>1, <1>3 DEF Accepts
<1>5. \A k \in DOMAIN rules : A(k) \in Here(w, Len(w)) <=> k \in matching
  <2>1. \A k \in DOMAIN nfaTable : nfaTable[k].accept \in DOMAIN Wires BY <1>1 DEF Merges, Owns, Piece, Region
  <2>2. \A k \in DOMAIN nfaTable : Leads(Wires, w, 0, merged, Len(w), nfaTable[k].accept) <=> Matches(rules[k].infix, w)
    BY <1>1, TextLengths, MergedSpells
  <2> QED BY <1>3, <2>1, <2>2 DEF Here, Submitted
<1>6. ends = {A(k) : k \in matching} BY <1>4, <1>5 DEF Submitted
<1>7. \A k \in matching : k \in Nat /\ nfa.accepting[A(k)].action = rules[k].action /\ nfa.accepting[A(k)].priority = k - 1
  <2>1. matching \subseteq DOMAIN rules OBVIOUS
  <2>2. nfa.accepting = accepting BY DEF Submitted
  <2> HIDE DEF matching, A
  <2>3. SUFFICES ASSUME NEW k \in matching
                 PROVE  k \in Nat /\ nfa.accepting[A(k)].action = rules[k].action /\ nfa.accepting[A(k)].priority = k - 1
    OBVIOUS
  <2>4. k \in DOMAIN rules BY <2>1
  <2>5. nfa.accepting[A(k)] = [action |-> rules[k].action, priority |-> k - 1] BY <1>4, <2>2, <2>4
  <2>6. k \in Nat BY <1>3, <2>4
  <2> QED BY <2>5, <2>6
<1>8. Verdict(w) = IF matching = {} THEN NoAction ELSE rules[CHOOSE k \in matching : \A m \in matching : k <= m].action
  BY DEF Verdict
<1>9. PickAction(Here(w, Len(w))) =
        IF ends = {} THEN NoAction
        ELSE nfa.accepting[CHOOSE n \in ends :
               \A m \in ends : nfa.accepting[n].priority <= nfa.accepting[m].priority].action
  BY DEF PickAction
<1>10. matching \in SUBSET Nat BY <1>3
<1> HIDE DEF A, matching, ends
<1>11. CASE matching = {} BY <1>6, <1>8, <1>9, <1>11
<1>12. CASE matching # {}
  <2>1. PICK j \in matching : \A k \in matching : j <= k BY <1>10, <1>12, LeastOf
  <2> DEFINE i == CHOOSE k \in matching : \A m \in matching : k <= m
             n == CHOOSE n \in ends : \A m \in ends : nfa.accepting[n].priority <= nfa.accepting[m].priority
  <2>2. i \in matching /\ \A m \in matching : i <= m BY <2>1
  <2>3. A(j) \in ends /\ \A m \in ends : nfa.accepting[A(j)].priority <= nfa.accepting[m].priority
    <3>1. \A k \in matching : nfa.accepting[A(j)].priority <= nfa.accepting[A(k)].priority BY <1>7, <2>1
    <3> QED BY <1>6, <3>1
  <2>4. n \in ends /\ \A m \in ends : nfa.accepting[n].priority <= nfa.accepting[m].priority BY <2>3
  <2> HIDE DEF i, n
  <2>5. PICK k \in matching : n = A(k) BY <1>6, <2>4
  <2>6. nfa.accepting[A(k)].priority <= nfa.accepting[A(i)].priority BY <1>6, <2>2, <2>4, <2>5
  <2>7. k = i BY <1>7, <2>2, <2>6
  <2>8. ends # {} BY <2>3
  <2> QED BY <1>7, <1>8, <1>9, <1>12, <2>2, <2>5, <2>7, <2>8 DEF i, n
<1> QED BY <1>11, <1>12

\* The minimal automaton passes the blocks of the states.
LEMMA BlocksPassed ==
  ASSUME DfaInv, dpc = "done", IsMinimal(partitions, minimal), 0 \notin DOMAIN minimal.next, 1 \in States, NEW w \in Texts
  PROVE  LET q == StateAfter(transitions, 1, w)
             p == StateAfter(minimal.next, minimal.start, w)
         IN  q \in States \cup {0} /\ p = IF q = 0 THEN 0 ELSE InBlock(q)
<1> DEFINE next == minimal.next
           start == minimal.start
           D == States \cup {0}
           C == DOMAIN next \cup {0}
           B(q) == BlockOf(partitions, q)
<1>1. SetsInv BY DEF DfaInv
<1>2. ASSUME NEW q \in States PROVE q # 0 /\ \A c \in DOMAIN transitions[q] : transitions[q][c] \in States
  <2>1. \A c \in DOMAIN transitions[q] : transitions[q][c] \in States BY <1>1, <1>2 DEF SetsInv
  <2>2. q # 0 BY <1>1, <1>2 DEF SetsInv, States
  <2> QED BY <2>1, <2>2
<1>3. /\ start = B(1) /\ DOMAIN next = {B(q) : q \in States}
      /\ \A q \in States : next[B(q)] = [c \in DOMAIN transitions[q] |-> B(transitions[q][c])]
  BY DEF IsMinimal
<1>4. \A q : InBlock(q) = B(q) BY DEF InBlock, BlockOf
<1>5. 0 \notin DOMAIN next OBVIOUS
<1> HIDE DEF next, start, B
<1>6. Len(w) \in Nat BY TextLengths
<1>7. 1 \in D /\ Stays(transitions, D) BY <1>2 DEF Stays
<1>8. start \in C /\ Stays(next, C)
  <2>1. start \in C BY <1>3
  <2>2. ASSUME NEW p \in DOMAIN next, NEW c \in DOMAIN next[p] PROVE next[p][c] \in C
    <3>1. PICK q \in States : p = B(q) BY <1>3
    <3>2. next[p] = [x \in DOMAIN transitions[q] |-> B(transitions[q][x])] BY <1>3, <3>1
    <3>3. c \in DOMAIN transitions[q] /\ next[p][c] = B(transitions[q][c]) BY <2>2, <3>2
    <3> QED BY <1>2, <1>3, <3>3
  <2> QED BY <2>1, <2>2 DEF Stays
<1> HIDE DEF D, C
<1>9. PICK h \in [0..Len(w) -> D] : Passes(h, transitions, 1, w) /\ StateAfter(transitions, 1, w) = h[Len(w)]
  BY <1>6, <1>7, PassesExist
<1>10. PICK f \in [0..Len(w) -> C] : Passes(f, next, start, w) /\ StateAfter(next, start, w) = f[Len(w)]
  BY <1>6, <1>8, PassesExist
<1>11. h[0] = 1 /\ \A k \in 1..Len(w) : h[k] = AfterStep(transitions, h[k - 1], w[k]) BY <1>6, <1>9, PassesFacts
<1>12. f[0] = start /\ \A k \in 1..Len(w) : f[k] = AfterStep(next, f[k - 1], w[k]) BY <1>6, <1>10, PassesFacts
<1> DEFINE Goes(p, q) == IF q = 0 THEN p = 0 ELSE q \in States /\ p = B(q)
           Bad == {k \in 0..Len(w) : ~Goes(f[k], h[k])}
<1>13. Bad = {}
  <2> SUFFICES ASSUME Bad # {} PROVE FALSE OBVIOUS
  <2>1. Bad \in SUBSET Nat BY <1>6
  <2>2. PICK m \in Bad : \A k \in Bad : m <= k BY <2>1, LeastOf
  <2>3. m # 0 BY <1>3, <1>11, <1>12, <2>2
  <2>4. m \in 1..Len(w) /\ m - 1 \in 0..Len(w) /\ m - 1 \notin Bad BY <1>6, <2>2, <2>3
  <2> DEFINE c == w[m]
             q == h[m - 1]
             p == f[m - 1]
  <2>5. h[m] = AfterStep(transitions, q, c) /\ f[m] = AfterStep(next, p, c) BY <1>11, <1>12, <2>4
  <2>6. Goes(p, q) /\ ~Goes(f[m], h[m]) BY <2>2, <2>4
  <2> HIDE DEF c, q, p, Bad
  <2>7. CASE q = 0 BY <2>5, <2>6, <2>7 DEF AfterStep
  <2>8. CASE q # 0
    <3>1. q \in States /\ p = B(q) BY <2>6, <2>8
    <3>2. next[p] = [x \in DOMAIN transitions[q] |-> B(transitions[q][x])] /\ p # 0 BY <1>3, <1>5, <3>1
    <3>3. CASE c \in DOMAIN transitions[q]
      <4>1. h[m] = transitions[q][c] /\ f[m] = B(transitions[q][c]) BY <2>5, <2>8, <3>2, <3>3 DEF AfterStep
      <4>2. h[m] \in States /\ h[m] # 0 BY <1>2, <3>1, <3>3, <4>1
      <4> QED BY <2>6, <4>1, <4>2
    <3>4. CASE c \notin DOMAIN transitions[q]
      <4>1. h[m] = 0 /\ f[m] = 0 BY <2>5, <3>2, <3>4 DEF AfterStep
      <4> QED BY <2>6, <4>1
    <3> QED BY <3>3, <3>4
  <2> QED BY <2>7, <2>8
<1>14. Len(w) \in 0..Len(w) BY <1>6
<1>15. Goes(f[Len(w)], h[Len(w)]) BY <1>13, <1>14
<1>16. h[Len(w)] \in D BY <1>14
<1>17. StateAfter(minimal.next, minimal.start, w) = f[Len(w)] BY <1>10 DEF next, start
<1> QED BY <1>4, <1>9, <1>15, <1>16, <1>17 DEF D

-----------------------------------------------------------------------------
(***************************************************************************)
(* The verdicts at every step of the generator.                            *)
(***************************************************************************)
\* The subset construction has begun; every state found has the action of the rule picked for it.
Begun ==
  /\ 1 \in States /\ stateSets[1] = Eclosure({nfa.start})
  /\ \A q \in States : acceptActions[q] = PickAction(stateSets[q])

VerdictInv ==
  /\ MinimalInv /\ MeaningInv
  /\ dpc # "idle" => Submitted
  /\ dpc \in {"subset", "refine", "done"} => Begun
  /\ dpc = "done" => 0 \notin DOMAIN minimal.next /\ 0 \notin DOMAIN minimal.accepting

LEMMA SubmittedStays ==
  ASSUME Submitted, UNCHANGED nfaVars, nfa' = nfa
  PROVE  Submitted'
<1>1. pc' = pc /\ merged' = merged /\ accepting' = accepting /\ nodes' = nodes BY DEF nfaVars
<1>2. Wires' = Wires BY <1>1 DEF Wires, EdgesOf
<1> QED BY <1>1, <1>2 DEF Submitted

LEMMA SamePicks ==
  ASSUME nfa' = nfa
  PROVE  /\ Eclosure({nfa.start})' = Eclosure({nfa.start})
         /\ \A q : PickAction(stateSets[q])' = PickAction(stateSets'[q])
<1>1. Eclosure({nfa.start})' = Eclosure({nfa.start}) BY DEF Eclosure, Ends
<1>2. \A q : PickAction(stateSets[q])' = PickAction(stateSets'[q]) BY DEF PickAction
<1> QED BY <1>1, <1>2

LEMMA BegunStays ==
  ASSUME Begun, UNCHANGED <<nfa, stateSets, acceptActions>>
  PROVE  Begun'
<1>1. States' = States BY DEF States
<1>2. \A q \in States : acceptActions[q] = PickAction(stateSets'[q]) BY DEF Begun
<1> QED BY <1>1, <1>2, SamePicks DEF Begun

LEMMA StartBegins ==
  ASSUME Start
  PROVE  Begun'
<1> DEFINE S == Eclosure({nfa.start})
<1>1. nfa' = nfa /\ stateSets' = <<S>> /\ acceptActions' = <<PickAction(S)>> BY DEF Start
<1> HIDE DEF S
<1>2. Len(stateSets') = 1 /\ stateSets'[1] = S /\ acceptActions'[1] = PickAction(S) BY <1>1
<1>3. States' = {1} BY <1>2 DEF States
<1>4. \A q \in States' : acceptActions'[q] = PickAction(stateSets'[q]) BY <1>2, <1>3
<1> QED BY <1>1, <1>2, <1>3, <1>4, SamePicks DEF Begun, S

LEMMA MoveGoesOn ==
  ASSUME DfaInv, TablesInv, Begun, Move
  PROVE  Begun'
<1>1. /\ dpc = "subset" /\ nfa' = nfa
      /\ FoundAt(Moved) = {} => /\ stateSets' = Append(stateSets, Moved)
                                /\ acceptActions' = Append(acceptActions, PickAction(Moved))
      /\ FoundAt(Moved) # {} => stateSets' = stateSets /\ acceptActions' = acceptActions
  BY DEF Move, Moved, Target, Edges
<1>2. CASE FoundAt(Moved) # {} BY <1>1, <1>2, BegunStays
<1>3. CASE FoundAt(Moved) = {}
  <2> DEFINE size == Len(stateSets)
  <2>1. stateSets \in Seq(Sets) /\ size \in Nat BY <1>1 DEF DfaInv, SetsInv
  <2>2. acceptActions \in Seq(Actions \cup {NoAction}) /\ Len(acceptActions) = size BY DEF TablesInv
  <2>3. stateSets' = Append(stateSets, Moved) /\ acceptActions' = Append(acceptActions, PickAction(Moved))
    BY <1>1, <1>3
  <2>4. /\ Len(stateSets') = size + 1 /\ stateSets'[size + 1] = Moved /\ acceptActions'[size + 1] = PickAction(Moved)
        /\ \A q \in 1..size : stateSets'[q] = stateSets[q] /\ acceptActions'[q] = acceptActions[q]
    BY <2>1, <2>2, <2>3
  <2> HIDE DEF size
  <2>5. States = 1..size BY DEF States, size
  <2>6. States' = States \cup {size + 1} BY <2>1, <2>4, <2>5 DEF States
  <2>7. \A q \in States' : acceptActions'[q] = PickAction(stateSets'[q])
    <3>1. \A q \in States : acceptActions'[q] = PickAction(stateSets'[q]) BY <2>4, <2>5 DEF Begun
    <3> QED BY <2>4, <2>6, <3>1
  <2>8. 1 \in States' /\ stateSets'[1] = Eclosure({nfa.start}) BY <2>4, <2>5, <2>6 DEF Begun
  <2> QED BY <1>1, <2>7, <2>8, SamePicks DEF Begun
<1> QED BY <1>2, <1>3

LEMMA DfaVerdicts ==
  ASSUME VerdictInv, BuildDfa
  PROVE  VerdictInv'
<1>1. DfaNext /\ UNCHANGED <<program, g, nfaVars>> BY DEF BuildDfa
<1>2. MinimalInv' BY MinimalStep DEF VerdictInv, Next
<1>3. MeaningInv' BY <1>1, MeaningStays DEF VerdictInv
<1>4. DfaInv /\ MinimizerInv BY DEF VerdictInv, MinimalInv, GeneratorInv
<1>5. nfa' = nfa /\ dpc # "idle" /\ dpc # "done"
  BY <1>1 DEF DfaNext, Start, NoMove, Move, NextState, FinishSubset, RefineGroup, EndPass, FinishMinimal
<1>6. Submitted' BY <1>1, <1>5, SubmittedStays DEF VerdictInv
<1>7. Begun'
  <2>1. CASE Start BY <2>1, StartBegins
  <2>2. CASE Move
    <3>1. dpc = "subset" BY <2>2 DEF Move
    <3>2. TablesInv /\ Begun BY <1>4, <3>1 DEF MinimizerInv, VerdictInv
    <3> QED BY <1>4, <2>2, <3>2, MoveGoesOn
  <2>3. CASE NoMove \/ NextState \/ FinishSubset \/ RefineGroup \/ EndPass \/ FinishMinimal
    <3>1. dpc \in {"subset", "refine"} /\ UNCHANGED <<nfa, stateSets, acceptActions>>
      BY <2>3 DEF NoMove, NextState, FinishSubset, RefineGroup, EndPass, FinishMinimal
    <3>2. Begun BY <3>1 DEF VerdictInv
    <3> QED BY <3>1, <3>2, BegunStays
  <2> QED BY <1>1, <2>1, <2>2, <2>3 DEF DfaNext
<1>8. dpc' = "done" => 0 \notin DOMAIN minimal'.next /\ 0 \notin DOMAIN minimal'.accepting
  <2> SUFFICES ASSUME dpc' = "done" PROVE 0 \notin DOMAIN minimal'.next /\ 0 \notin DOMAIN minimal'.accepting OBVIOUS
  <2>1. FinishMinimal
    BY <1>1, <1>5 DEF DfaNext, Start, NoMove, Move, NextState, FinishSubset, RefineGroup, EndPass
  <2> DEFINE D == 1..Len(partitions)
             accepts == {p \in D : ActionForState(partitions[p][1]) # NoAction}
  <2>2. DOMAIN minimal'.next = D /\ DOMAIN minimal'.accepting = accepts BY <2>1 DEF FinishMinimal
  <2>3. Minimizable /\ Separates(partitions, States)
    <3>1. dpc = "refine" BY <2>1 DEF FinishMinimal
    <3> QED BY <1>4, <3>1 DEF DfaInv, MinimizerInv, Minimizable, RefineInv, Blocks
  <2>4. Len(partitions) \in Nat BY <2>3 DEF Separates
  <2>5. 0 \notin D BY <2>4
  <2> QED BY <2>2, <2>5
<1> QED BY <1>2, <1>3, <1>6, <1>7, <1>8 DEF VerdictInv

LEMMA VerdictStep == VerdictInv /\ [Next]_vars => VerdictInv'
<1> SUFFICES ASSUME VerdictInv, [Next]_vars PROVE VerdictInv' OBVIOUS
<1>1. MinimalInv /\ MeaningInv /\ NfaInv /\ DfaInv BY DEF VerdictInv, MinimalInv, GeneratorInv
<1>2. MinimalInv' BY <1>1, MinimalStep
<1>3. CASE BuildNfa
  <2>1. Nfa!Next /\ UNCHANGED dfaVars BY <1>3 DEF BuildNfa
  <2>2. pc \in {"postfix", "build"}
    BY <2>1 DEF Nfa!Next, Nfa!PassOn, Nfa!PopOperator, Nfa!PushOperator, Nfa!CloseParenthesis, Nfa!FlushOperator,
                Nfa!StartBuild, Nfa!Atom, Nfa!RejectLiteral, Nfa!Concatenate, Nfa!Alternate, Nfa!Repeat,
                Nfa!FinishRule, Nfa!Merge
  <2>3. dpc = "idle" BY <2>2 DEF VerdictInv, Submitted
  <2>4. dpc' = "idle" BY <2>1, <2>3 DEF dfaVars
  <2>5. MeaningInv' BY <1>1, <2>1, NfaMeans
  <2> QED BY <1>2, <2>4, <2>5 DEF VerdictInv
<1>4. CASE Handover
  <2>1. /\ pc = "done" /\ dpc' = "start" /\ UNCHANGED nfaVars
        /\ nfa' = [start |-> merged, edges |-> [n \in DOMAIN nodes |-> nodes[n].edges], accepting |-> accepting]
    BY <1>4 DEF Handover, Submit
  <2>2. MeaningInv' BY <1>1, <2>1, MeaningStays
  <2>3. pc' = pc /\ merged' = merged /\ accepting' = accepting /\ nodes' = nodes BY <2>1 DEF nfaVars
  <2>4. Wires' = [n \in DOMAIN nodes |-> nodes[n].edges] BY <2>3 DEF Wires, EdgesOf
  <2>5. Submitted' BY <2>1, <2>3, <2>4 DEF Submitted
  <2> QED BY <1>2, <2>1, <2>2, <2>5 DEF VerdictInv
<1>5. CASE BuildDfa BY <1>5, DfaVerdicts
<1>6. CASE Regenerate
  <2>1. /\ dpc' = "idle" /\ r' = 1 /\ pos' = 1 /\ operators' = <<>> /\ postfix' = <<>> /\ fragments' = <<>>
        /\ nodes' = <<>> /\ accepting' = <<>> /\ nfaTable' = <<>> /\ pc' = "postfix"
    BY <1>6 DEF Regenerate, Clear
  <2>2. rules' \in Specs BY <1>2 DEF MinimalInv, GeneratorInv, NfaInv
  <2>3. MeaningInv' BY <2>1, <2>2, MeaningRestarts DEF Fresh
  <2> QED BY <1>2, <2>1, <2>3 DEF VerdictInv
<1>7. CASE UNCHANGED vars
  <2>1. UNCHANGED nfaVars /\ nfa' = nfa /\ dpc' = dpc /\ UNCHANGED <<nfa, stateSets, acceptActions>> /\ minimal' = minimal
    BY <1>7 DEF vars, dfaVars
  <2>2. MeaningInv' BY <1>1, <2>1, MeaningStays
  <2>3. Submitted => Submitted' BY <2>1, SubmittedStays
  <2>4. Begun => Begun' BY <2>1, BegunStays
  <2> QED BY <1>2, <2>1, <2>2, <2>3, <2>4 DEF VerdictInv
<1> QED BY <1>3, <1>4, <1>5, <1>6, <1>7 DEF Next

\* The state behind a text stands for the nodes the text leads to, and its action is that
\* of the first rule; its block has the same.
LEMMA VerdictIsExact == VerdictInv => VerdictExact
<1> SUFFICES ASSUME VerdictInv, dpc = "done", NEW w \in Texts
             PROVE  LET q == StateAfter(transitions, 1, w)
                        p == StateAfter(minimal.next, minimal.start, w)
                    IN  /\ Verdict(w) = IF q = 0 THEN NoAction ELSE acceptActions[q]
                        /\ Verdict(w) = IF p \in DOMAIN minimal.accepting THEN minimal.accepting[p] ELSE NoAction
  BY DEF VerdictExact
<1>1. /\ NfaInv /\ DfaInv /\ MeaningInv /\ Submitted /\ Begun /\ IsMinimal(partitions, minimal)
      /\ 0 \notin DOMAIN minimal.next /\ 0 \notin DOMAIN minimal.accepting
  BY DEF VerdictInv, MinimalInv, GeneratorInv, MinimizerInv
<1> DEFINE q == StateAfter(transitions, 1, w)
           p == StateAfter(minimal.next, minimal.start, w)
           S == Here(w, Len(w))
<1>2. Stands(q, S) BY <1>1, StatesStand DEF Begun
<1>3. PickAction(S) = Verdict(w) BY <1>1, PickedIsVerdict
<1>4. q \in States \cup {0} /\ p = IF q = 0 THEN 0 ELSE InBlock(q) BY <1>1, BlocksPassed DEF Begun
<1> HIDE DEF q, p, S
<1>5. Verdict(w) = IF q = 0 THEN NoAction ELSE acceptActions[q]
  <2>1. CASE q = 0
    <3>1. S = {} BY <1>2, <2>1 DEF Stands
    <3>2. PickAction(S) = NoAction BY <3>1 DEF PickAction
    <3> QED BY <1>3, <2>1, <3>2
  <2>2. CASE q # 0
    <3>1. q \in States /\ stateSets[q] = S BY <1>2, <2>2 DEF Stands
    <3> QED BY <1>1, <1>3, <2>2, <3>1 DEF Begun
  <2> QED BY <2>1, <2>2
<1>6. Verdict(w) = IF p \in DOMAIN minimal.accepting THEN minimal.accepting[p] ELSE NoAction
  <2>1. CASE q = 0 BY <1>1, <1>4, <1>5, <2>1
  <2>2. CASE q # 0
    <3>1. q \in States /\ p = InBlock(q) /\ InBlock(q) = BlockOf(partitions, q) BY <1>4, <2>2 DEF InBlock, BlockOf
    <3>2. acceptActions[q] = IF p \in DOMAIN minimal.accepting THEN minimal.accepting[p] ELSE NoAction
      BY <1>1, <3>1 DEF IsMinimal
    <3> QED BY <1>5, <2>2, <3>2
  <2> QED BY <2>1, <2>2
<1> QED BY <1>5, <1>6 DEF q, p

\* For every specification, whatever was generated before it in the same process, the
\* scanner's automaton, minimized or not, gives a text the action of the first rule whose
\* expression matches it, and no action to a text that no rule matches.
THEOREM ScannerIsExact == Spec => []VerdictExact
<1>1. Init => VerdictInv
  <2> SUFFICES ASSUME Init PROVE VerdictInv OBVIOUS
  <2>1. /\ accepting = <<>> /\ dpc = "idle" /\ mindfareturn = <<>> /\ pc = "postfix" /\ r = 1 /\ pos = 1
        /\ operators = <<>> /\ postfix = <<>> /\ fragments = <<>> /\ nodes = <<>> /\ nfaTable = <<>>
    BY DEF Init, Nfa!Init, DfaInit
  <2>2. GeneratorInv BY InitHolds
  <2>3. MinimalInv BY <2>1, <2>2 DEF MinimalInv, ActionsInv, OfRules, MinimizerInv
  <2>4. rules \in Specs BY <2>2 DEF GeneratorInv, NfaInv
  <2>5. MeaningInv BY <2>1, <2>4, MeaningStarts DEF Fresh
  <2> QED BY <2>1, <2>3, <2>5 DEF VerdictInv
<1>2. VerdictInv /\ [Next]_vars => VerdictInv' BY VerdictStep
<1>3. VerdictInv => VerdictExact BY VerdictIsExact
<1> QED BY <1>1, <1>2, <1>3, PTL DEF Spec
=============================================================================
