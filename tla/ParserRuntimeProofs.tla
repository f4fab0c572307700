------------------------ MODULE ParserRuntimeProofs ------------------------
(***************************************************************************)
(* Proofs about ParserRuntime for every set of parsers whose tables are    *)
(* sound and for every input: yyparse never pops an empty stack nor misses *)
(* a goto, and it is a bottom-up parser in the sense of BottomUp.  Without *)
(* conflicts in its tables it decides the language of its grammar, and its *)
(* semantic actions get the values in the order of the input.              *)
(***************************************************************************)
EXTENDS ParserRuntime, GrammarLemmas, SequenceTheorems

(***************************************************************************)
(* Sequences of anything.                                                  *)
(***************************************************************************)
LEMMA SequenceOf ==
  ASSUME NEW S, NEW s \in Seq(S)
  PROVE  IsSequence(s) /\ Len(s) \in Nat /\ DOMAIN s = 1 .. Len(s)
  <1>1. s \in [1 .. Len(s) -> S] /\ Len(s) \in Nat
    BY LenProperties
  <1>2. s \in [1 .. Len(s) -> Elements(s)]
    BY <1>1 DEF Elements
  <1>3. QED
    BY <1>1, <1>2, SeqDef DEF IsSequence

LEMMA SequenceFacts ==
  ASSUME NEW s, IsSequence(s)
  PROVE  Len(s) \in Nat /\ DOMAIN s = 1 .. Len(s) /\ s \in Seq(Elements(s))
  BY LenProperties DEF IsSequence

LEMMA AppendSequence ==
  ASSUME NEW s, IsSequence(s), NEW e
  PROVE  /\ IsSequence(Append(s, e))
         /\ Len(Append(s, e)) = Len(s) + 1
         /\ \A k \in 1 .. Len(s) : Append(s, e)[k] = s[k]
         /\ Append(s, e)[Len(s) + 1] = e
  <1> DEFINE T == Elements(s) \cup {e}
  <1>1. s \in Seq(T)
    BY SeqMonotonic DEF IsSequence
  <1>2. e \in T
    OBVIOUS
  <1> HIDE DEF T
  <1>3. /\ Append(s, e) \in Seq(T)
        /\ Len(Append(s, e)) = Len(s) + 1
        /\ \A k \in 1 .. Len(s) : Append(s, e)[k] = s[k]
        /\ Append(s, e)[Len(s) + 1] = e
    BY <1>1, <1>2, AppendProperties
  <1>4. IsSequence(Append(s, e))
    BY <1>3, SequenceOf
  <1>5. QED
    BY <1>3, <1>4

LEMMA SubSequence ==
  ASSUME NEW s, IsSequence(s), NEW m \in 1 .. Len(s) + 1, NEW n \in 0 .. Len(s), m <= n + 1
  PROVE  /\ IsSequence(SubSeq(s, m, n))
         /\ Len(SubSeq(s, m, n)) = n - m + 1
         /\ \A k \in 1 .. n - m + 1 : SubSeq(s, m, n)[k] = s[m + k - 1]
  <1>1. Len(s) \in Nat /\ DOMAIN s = 1 .. Len(s)
    BY SequenceFacts
  <1>2. \A k \in m .. n : s[k] \in Elements(s)
    BY <1>1 DEF Elements
  <1>3. m \in Int /\ n \in Int
    BY <1>1
  <1>4. /\ SubSeq(s, m, n) \in Seq(Elements(s))
        /\ Len(SubSeq(s, m, n)) = IF m <= n THEN n - m + 1 ELSE 0
        /\ \A k \in 1 .. n - m + 1 : SubSeq(s, m, n)[k] = s[m + k - 1]
    BY <1>2, <1>3, SubSeqProperties
  <1>5. IsSequence(SubSeq(s, m, n))
    BY <1>4, SequenceOf
  <1>6. Len(SubSeq(s, m, n)) = n - m + 1
    BY <1>1, <1>3, <1>4
  <1>7. QED
    BY <1>4, <1>5, <1>6

LEMMA Concatenation ==
  ASSUME NEW s, NEW t, IsSequence(s), IsSequence(t)
  PROVE  /\ IsSequence(s \o t)
         /\ Len(s \o t) = Len(s) + Len(t)
         /\ \A k \in 1 .. Len(s) + Len(t) : (s \o t)[k] = IF k <= Len(s) THEN s[k] ELSE t[k - Len(s)]
  <1> DEFINE T == Elements(s) \cup Elements(t)
  <1>1. s \in Seq(T) /\ t \in Seq(T)
    BY SeqMonotonic DEF IsSequence
  <1> HIDE DEF T
  <1>2. QED
    BY <1>1, ConcatProperties, SequenceOf

LEMMA TripleConcatenation ==
  ASSUME NEW s, NEW t, NEW u, IsSequence(s), IsSequence(t), IsSequence(u)
  PROVE  /\ IsSequence((s \o t) \o u)
         /\ Len((s \o t) \o u) = Len(s) + Len(t) + Len(u)
         /\ \A k \in 1 .. Len(s) + Len(t) + Len(u) :
              ((s \o t) \o u)[k] = IF k <= Len(s) THEN s[k]
                                   ELSE IF k <= Len(s) + Len(t) THEN t[k - Len(s)]
                                   ELSE u[k - Len(s) - Len(t)]
  <1>1. Len(s) \in Nat /\ Len(t) \in Nat /\ Len(u) \in Nat
    BY SequenceFacts
  <1> DEFINE st == s \o t
  <1>2. /\ IsSequence(st) /\ Len(st) = Len(s) + Len(t)
        /\ \A k \in 1 .. Len(s) + Len(t) : st[k] = IF k <= Len(s) THEN s[k] ELSE t[k - Len(s)]
    BY Concatenation
  <1> HIDE DEF st
  <1> DEFINE stu == st \o u
  <1>3. /\ IsSequence(stu) /\ Len(stu) = Len(st) + Len(u)
        /\ \A k \in 1 .. Len(st) + Len(u) : stu[k] = IF k <= Len(st) THEN st[k] ELSE u[k - Len(st)]
    BY <1>2, Concatenation
  <1> HIDE DEF stu
  <1>4. stu = (s \o t) \o u
    BY DEF st, stu
  <1>5. QED
    BY <1>1, <1>2, <1>3, <1>4

LEMMA EqualSequences ==
  ASSUME NEW s, NEW t, IsSequence(s), IsSequence(t), Len(s) = Len(t),
         \A k \in 1 .. Len(s) : s[k] = t[k]
  PROVE  s = t
  <1> DEFINE T == Elements(s) \cup Elements(t)
  <1>1. s \in Seq(T) /\ t \in Seq(T)
    BY SeqMonotonic DEF IsSequence
  <1> HIDE DEF T
  <1>2. QED
    BY <1>1, SeqEqual

LEMMA Singleton ==
  ASSUME NEW e
  PROVE  IsSequence(<<e>>) /\ Len(<<e>>) = 1 /\ <<e>>[1] = e
  <1>1. <<e>> \in Seq({e})
    OBVIOUS
  <1>2. QED
    BY <1>1, SequenceOf

LEMMA EmptySequence == IsSequence(<<>>) /\ Len(<<>>) = 0
  BY SequenceOf, EmptySeq

LEMMA Projections ==
  ASSUME NEW s, IsSequence(s)
  PROVE  /\ IsSequence(Symbols(s)) /\ Len(Symbols(s)) = Len(s)
         /\ \A k \in 1 .. Len(s) : Symbols(s)[k] = s[k].symbol
         /\ IsSequence(Types(s)) /\ Len(Types(s)) = Len(s)
         /\ \A k \in 1 .. Len(s) : Types(s)[k] = s[k].type
  <1>1. Len(s) \in Nat /\ DOMAIN s = 1 .. Len(s)
    BY SequenceFacts
  <1>2. Symbols(s) \in [1 .. Len(s) -> {s[k].symbol : k \in 1 .. Len(s)}]
    BY <1>1 DEF Symbols
  <1>3. Types(s) \in [1 .. Len(s) -> {s[k].type : k \in 1 .. Len(s)}]
    BY <1>1 DEF Types
  <1>4. Symbols(s) \in Seq({s[k].symbol : k \in 1 .. Len(s)}) /\ Len(Symbols(s)) = Len(s)
    BY <1>1, <1>2, SeqDef
  <1>5. Types(s) \in Seq({s[k].type : k \in 1 .. Len(s)}) /\ Len(Types(s)) = Len(s)
    BY <1>1, <1>3, SeqDef
  <1>6. QED
    BY <1>1, <1>4, <1>5, SequenceOf DEF Symbols, Types

(***************************************************************************)
(* What a form is made of.                                                 *)
(***************************************************************************)
LEMMA ReadingFacts ==
  ASSUME NEW stack, NEW popped, NEW ts, NEW from \in 1 .. Len(ts) + 1,
         IsSequence(stack), IsSequence(popped), IsSequence(ts)
  PROVE  LET n == Len(stack)  m == Len(popped)  form == Reading(stack, popped, ts, from) IN
         /\ IsSequence(form)
         /\ Len(form) = n + m + Len(ts) + 1 - from
         /\ \A k \in 1 .. Len(form) :
              form[k] = IF k <= n THEN stack[k].symbol
                        ELSE IF k <= n + m THEN popped[k - n].symbol
                        ELSE ts[from + k - n - m - 1].type
  <1> DEFINE rest == SubSeq(ts, from, Len(ts))
             a == Symbols(stack)
             b == Symbols(popped)
             c == Types(rest)
             n == Len(stack)
             m == Len(popped)
             l == Len(ts) + 1 - from
  <1>1. n \in Nat /\ m \in Nat /\ Len(ts) \in Nat /\ l \in Nat
    BY SequenceFacts
  <1>2. /\ IsSequence(rest) /\ Len(rest) = l
        /\ \A k \in 1 .. l : rest[k] = ts[from + k - 1]
    BY <1>1, SubSequence
  <1>3. IsSequence(a) /\ Len(a) = n /\ \A k \in 1 .. n : a[k] = stack[k].symbol
    BY Projections
  <1>4. IsSequence(b) /\ Len(b) = m /\ \A k \in 1 .. m : b[k] = popped[k].symbol
    BY Projections
  <1> HIDE DEF rest
  <1>5. IsSequence(c) /\ Len(c) = l /\ \A k \in 1 .. l : c[k] = ts[from + k - 1].type
    <2>1. IsSequence(c) /\ Len(c) = Len(rest) /\ \A k \in 1 .. Len(rest) : c[k] = rest[k].type
      BY <1>2, Projections
    <2>2. QED
      BY <1>2, <2>1
  <1>6. Reading(stack, popped, ts, from) = (a \o b) \o c
    BY DEF Reading, rest
  <1> HIDE DEF a, b, c
  <1>7. IsSequence(a) /\ IsSequence(b) /\ IsSequence(c) /\ Len(a) = n /\ Len(b) = m /\ Len(c) = l
    BY <1>3, <1>4, <1>5
  <1>8. /\ IsSequence((a \o b) \o c) /\ Len((a \o b) \o c) = Len(a) + Len(b) + Len(c)
        /\ \A k \in 1 .. Len(a) + Len(b) + Len(c) :
             ((a \o b) \o c)[k] = IF k <= Len(a) THEN a[k]
                                  ELSE IF k <= Len(a) + Len(b) THEN b[k - Len(a)]
                                  ELSE c[k - Len(a) - Len(b)]
    <2>1. IsSequence(a) /\ IsSequence(b) /\ IsSequence(c)
      BY <1>7
    <2>2. QED
      BY <2>1, TripleConcatenation
  <1> DEFINE form == (a \o b) \o c
  <1>9. /\ IsSequence(form) /\ Len(form) = Len(a) + Len(b) + Len(c)
        /\ \A k \in 1 .. Len(a) + Len(b) + Len(c) :
             form[k] = IF k <= Len(a) THEN a[k]
                       ELSE IF k <= Len(a) + Len(b) THEN b[k - Len(a)]
                       ELSE c[k - Len(a) - Len(b)]
    BY <1>8
  <1> HIDE DEF form
  <1>10. \A k \in 1 .. n + m + l :
          form[k] = IF k <= n THEN stack[k].symbol
                    ELSE IF k <= n + m THEN popped[k - n].symbol
                    ELSE ts[from + k - n - m - 1].type
    <2> SUFFICES ASSUME NEW k \in 1 .. n + m + l
                 PROVE  form[k] = IF k <= n THEN stack[k].symbol
                                  ELSE IF k <= n + m THEN popped[k - n].symbol
                                  ELSE ts[from + k - n - m - 1].type
      OBVIOUS
    <2>1. form[k] = IF k <= n THEN a[k] ELSE IF k <= n + m THEN b[k - n] ELSE c[k - n - m]
      BY <1>7, <1>9
    <2> HIDE DEF n, m, l
    <2>2. CASE k <= n
      BY <2>1, <2>2, <1>1, <1>3
    <2>3. CASE ~(k <= n) /\ k <= n + m
      <3>1. k - n \in 1 .. m
        BY <2>3, <1>1
      <3>2. QED
        BY <2>1, <2>3, <3>1, <1>1, <1>4
    <2>4. CASE ~(k <= n) /\ ~(k <= n + m)
      <3>1. k - n - m \in 1 .. l /\ from + (k - n - m) - 1 = from + k - n - m - 1
        BY <2>4, <1>1 DEF l
      <3>2. QED
        BY <2>1, <2>4, <3>1, <1>1, <1>5
    <2>5. QED
      BY <2>2, <2>3, <2>4
  <1>11. QED
    BY <1>1, <1>6, <1>7, <1>9, <1>10 DEF form

(***************************************************************************)
(* The stacks and the automaton.                                           *)
(***************************************************************************)
LEMMA Sound ==
  ASSUME TypeOK
  PROVE  AutomatonSound(parser) /\ TablesSound(parser)
  BY ParsersAssumption DEF TypeOK, parser

LEMMA Stacks ==
  ASSUME TypeOK, StacksAgree
  PROVE  /\ Len(semantic) \in Nat /\ Len(states) = Len(semantic) + 1
         /\ \A k \in 1 .. Len(states) : states[k] \in StateSet(parser)
         /\ Top = states[Len(semantic) + 1] /\ Top \in StateSet(parser)
  <1>1. Len(semantic) \in Nat /\ Len(states) = Len(semantic) + 1
    BY SequenceFacts DEF TypeOK, StacksAgree
  <1>2. \A k \in 1 .. Len(states) : states[k] \in StateSet(parser)
    BY ElementOfSeq DEF TypeOK
  <1>3. QED
    BY <1>1, <1>2 DEF Top

\* An item of the top state with something before its dot: that something lies on top of
\* the semantic stack, and the state below holds the item with its dot one back.
LEMMA BelowTop ==
  ASSUME TypeOK, StacksAgree, NEW item \in parser.items[Top], item.dot \in Nat, item.dot > 0
  PROVE  /\ semantic # <<>> /\ Len(semantic) >= 1
         /\ item.right[item.dot] = semantic[Len(semantic)].symbol
         /\ Retreat(item) \in parser.items[states[Len(semantic)]]
         /\ states[Len(semantic)] \in StateSet(parser) /\ Top # 0
  <1> DEFINE n == Len(semantic)
  <1>1. /\ n \in Nat /\ Len(states) = n + 1 /\ Top = states[n + 1]
        /\ \A k \in 1 .. n + 1 : states[k] \in StateSet(parser)
    BY Stacks
  <1>2. AutomatonSound(parser)
    BY Sound
  <1>3. n # 0
    <2> SUFFICES ASSUME n = 0 PROVE FALSE
      OBVIOUS
    <2>1. Top = 0
      BY <1>1 DEF StacksAgree
    <2>2. QED
      BY <1>2, <2>1 DEF AutomatonSound
  <1>4. n \in 1 .. n /\ states[n] \in StateSet(parser)
    BY <1>1, <1>3
  <1>5. semantic[n].symbol \in DOMAIN parser.next[states[n]]
        /\ Top = parser.next[states[n]][semantic[n].symbol]
    BY <1>1, <1>4 DEF StacksAgree
  <1>6. QED
    BY <1>1, <1>2, <1>3, <1>4, <1>5, EmptySequence DEF AutomatonSound

\* Only the bottom of the state stack is the start state.
LEMMA OnlyBottomIsStart ==
  ASSUME TypeOK, StacksAgree, NEW k \in 1 .. Len(states), states[k] = 0
  PROVE  k = 1
  <1> SUFFICES ASSUME k # 1 PROVE FALSE
    OBVIOUS
  <1>1. k - 1 \in 1 .. Len(semantic) /\ (k - 1) + 1 = k
    BY Stacks
  <1>2. states[k] = parser.next[states[k - 1]][semantic[k - 1].symbol]
        /\ semantic[k - 1].symbol \in DOMAIN parser.next[states[k - 1]]
    BY <1>1 DEF StacksAgree
  <1>3. states[k - 1] \in StateSet(parser)
    BY <1>1, Stacks
  <1>4. QED
    BY <1>2, <1>3, Sound DEF AutomatonSound

\* Pushing a symbol together with the state it leads to keeps the stacks in step.
LEMMA PushKeepsStep ==
  ASSUME TypeOK, StacksAgree, NEW entry, entry.symbol \in DOMAIN parser.next[Top],
         states' = Append(states, parser.next[Top][entry.symbol]),
         semantic' = Append(semantic, entry), input' = input
  PROVE  StacksAgree' /\ states' \in Seq(StateSet(parser)) /\ IsSequence(semantic')
  <1> DEFINE n == Len(semantic)
  <1>1. n \in Nat /\ Len(states) = n + 1 /\ Top = states[n + 1] /\ Top \in StateSet(parser)
    BY Stacks
  <1>2. parser.next[Top][entry.symbol] \in StateSet(parser)
    BY <1>1, Sound DEF AutomatonSound
  <1>3. /\ states' \in Seq(StateSet(parser)) /\ Len(states') = n + 2
        /\ \A k \in 1 .. n + 1 : states'[k] = states[k]
        /\ states'[n + 2] = parser.next[Top][entry.symbol]
    BY <1>1, <1>2, AppendProperties DEF TypeOK
  <1>4. /\ IsSequence(semantic') /\ Len(semantic') = n + 1
        /\ \A k \in 1 .. n : semantic'[k] = semantic[k]
        /\ semantic'[n + 1] = entry
    BY AppendSequence DEF TypeOK
  <1>5. parser' = parser
    BY DEF parser
  <1>6. Len(states') = Len(semantic') + 1 /\ states'[1] = 0
    BY <1>1, <1>3, <1>4 DEF StacksAgree
  <1>7. ASSUME NEW k \in 1 .. Len(semantic')
        PROVE  /\ semantic'[k].symbol \in DOMAIN parser'.next[states'[k]]
               /\ states'[k + 1] = parser'.next[states'[k]][semantic'[k].symbol]
    <2>1. CASE k = n + 1
      BY <1>1, <1>3, <1>4, <1>5, <2>1
    <2>2. CASE k # n + 1
      <3>1. k \in 1 .. n /\ k \in 1 .. n + 1 /\ k + 1 \in 1 .. n + 1
        BY <1>1, <1>4, <2>2
      <3>2. QED
        BY <1>3, <1>4, <1>5, <3>1 DEF StacksAgree
    <2>3. QED
      BY <2>1, <2>2
  <1>8. QED
    BY <1>3, <1>4, <1>6, <1>7 DEF StacksAgree

(***************************************************************************)
(* The invariant, action by action.                                        *)
(***************************************************************************)
LEMMA InitInv == Init => IInv
  <1> SUFFICES ASSUME Init PROVE IInv
    OBVIOUS
  <1>1. PICK sentence \in Sentences[input] : tokens = WithEnd(sentence)
    BY DEF Init
  <1>2. IsSequence(sentence)
    BY <1>1, SentencesAssumption DEF Init
  <1>3. IsSequence(tokens)
    BY <1>1, <1>2, AppendSequence DEF WithEnd
  <1>4. index \in 1 .. Len(tokens) + 1
    BY <1>3, SequenceFacts DEF Init
  <1>5. AutomatonSound(parser)
    BY ParsersAssumption DEF Init, parser
  <1>6. states \in Seq(StateSet(parser)) /\ Len(states) = 1 /\ states[1] = 0
    BY <1>5 DEF Init, AutomatonSound
  <1>7. IsSequence(scopes) /\ scopes # <<>>
    BY Singleton, EmptySequence DEF Init
  <1>8. IsSequence(semantic) /\ IsSequence(rhs) /\ Len(semantic) = 0
    BY EmptySequence DEF Init
  <1>9. TypeOK
    BY <1>3, <1>4, <1>6, <1>7, <1>8 DEF Init, TypeOK
  <1>10. StacksAgree
    BY <1>6, <1>8 DEF StacksAgree
  <1>11. QED
    BY <1>9, <1>10 DEF Init, IInv, PopsOnPath, NeverStuck

LEMMA ScopesKept ==
  ASSUME IsSequence(scopes), scopes # <<>>
  PROVE  IsSequence(EnterOrExit) /\ EnterOrExit # <<>>
  <1>1. Len(scopes) \in Nat
    BY SequenceFacts
  <1>2. IsSequence(Append(scopes, {})) /\ Len(Append(scopes, {})) = Len(scopes) + 1
    BY AppendSequence
  <1>3. Append(scopes, {}) # <<>>
    BY <1>1, <1>2, EmptySequence
  <1>4. ASSUME Len(scopes) > 1
        PROVE  IsSequence(SubSeq(scopes, 1, Len(scopes) - 1)) /\ SubSeq(scopes, 1, Len(scopes) - 1) # <<>>
    <2>1. 1 \in 1 .. Len(scopes) + 1 /\ Len(scopes) - 1 \in 0 .. Len(scopes) /\ 1 <= (Len(scopes) - 1) + 1
      BY <1>1, <1>4
    <2>2. /\ IsSequence(SubSeq(scopes, 1, Len(scopes) - 1))
          /\ Len(SubSeq(scopes, 1, Len(scopes) - 1)) = (Len(scopes) - 1) - 1 + 1
      BY <2>1, SubSequence
    <2> DEFINE rest == SubSeq(scopes, 1, Len(scopes) - 1)
    <2>3. IsSequence(rest) /\ Len(rest) = (Len(scopes) - 1) - 1 + 1
      BY <2>2
    <2> HIDE DEF rest
    <2>4. Len(rest) # 0
      BY <1>1, <1>4, <2>3
    <2>5. IsSequence(rest) /\ rest # <<>>
      BY <2>3, <2>4, EmptySequence
    <2>6. QED
      BY <2>5 DEF rest
  <1>5. QED
    BY <1>2, <1>3, <1>4 DEF EnterOrExit

LEMMA ShiftStep ==
  ASSUME IInv, Shift
  PROVE  IInv'
  <1>1. TypeOK /\ StacksAgree
    BY DEF IInv
  <1>2. Top \in StateSet(parser) /\ Len(semantic) \in Nat
    BY <1>1, Stacks
  <1>3. Look.type \in DOMAIN parser.next[Top] /\ Action.to = parser.next[Top][Look.type]
    BY <1>1, <1>2, Sound DEF Shift, HasAction, Action, TablesSound
  <1> DEFINE entry == [symbol |-> Look.type, lexeme |-> Look.lexeme,
                       value |-> <<[by |-> 0, lexeme |-> Look.lexeme]>>]
  <1>4. entry.symbol = Look.type
    OBVIOUS
  <1>5. semantic' = Append(semantic, entry) /\ states' = Append(states, Action.to)
    BY DEF Shift
  <1> HIDE DEF entry
  <1>6. StacksAgree' /\ states' \in Seq(StateSet(parser)) /\ IsSequence(semantic')
    BY <1>1, <1>3, <1>4, <1>5, PushKeepsStep DEF Shift
  <1>7. IsSequence(scopes') /\ scopes' # <<>>
    BY <1>1, ScopesKept DEF TypeOK, Shift
  <1>8. index' \in 1 .. Len(tokens') + 1
    <2>1. Len(tokens) \in Nat
      BY <1>1, SequenceFacts DEF TypeOK
    <2>2. QED
      BY <1>1, <2>1 DEF TypeOK, Shift, InLoop
  <1>9. TypeOK'
    BY <1>1, <1>6, <1>7, <1>8 DEF TypeOK, Shift, parser
  <1>10. QED
    BY <1>6, <1>9 DEF IInv, PopsOnPath, NeverStuck, Shift, InLoop

LEMMA StartReduceStep ==
  ASSUME IInv, StartReduce
  PROVE  IInv'
  <1>1. TypeOK /\ StacksAgree
    BY DEF IInv
  <1>2. Top \in StateSet(parser)
    BY <1>1, Stacks
  <1>3. Action.to \in 1 .. Len(parser.producers)
        /\ WholeItem(parser.producers[Action.to]) \in parser.items[Top]
    BY <1>1, <1>2, Sound DEF StartReduce, HasAction, Action, TablesSound
  <1>4. Len(parser.producers) \in Nat
    BY <1>1, Sound, SequenceFacts DEF TablesSound
  <1>5. production' = Action.to /\ rhs' = <<>> /\ pc' = "reduce"
        /\ UNCHANGED <<input, tokens, states, semantic, scopes, index>>
    BY DEF StartReduce
  <1>6. TypeOK'
    BY <1>1, <1>3, <1>4, <1>5, EmptySequence DEF TypeOK, parser
  <1>7. StacksAgree'
    BY <1>1, <1>5 DEF StacksAgree, parser
  <1>8. parser.producers[Action.to] \in Elements(parser.producers)
    <2>1. DOMAIN parser.producers = 1 .. Len(parser.producers)
      BY <1>1, Sound, SequenceFacts DEF TablesSound
    <2>2. QED
      BY <1>3, <2>1 DEF Elements
  <1>9. Len(parser.producers[Action.to].right) \in Nat
    BY <1>1, <1>8, Sound, SequenceFacts DEF TablesSound
  <1>10. Producer' = parser.producers[Action.to] /\ Top' = Top /\ parser' = parser /\ Len(rhs') = 0
    BY <1>5, EmptySequence DEF Producer, parser, Top
  <1>11. PopsOnPath'
    <2>1. Unpopped' = Len(parser.producers[Action.to].right)
      BY <1>9, <1>10 DEF Unpopped
    <2>2. QED
      BY <1>3, <1>5, <1>9, <1>10, <2>1 DEF PopsOnPath, WholeItem
  <1>12. QED
    BY <1>5, <1>6, <1>7, <1>11 DEF IInv, NeverStuck

\* The production being reduced.
LEMMA ProducerFacts ==
  ASSUME IInv, pc = "reduce"
  PROVE  /\ Producer \in Elements(parser.producers) /\ Len(Producer.right) \in Nat
         /\ IsSequence(Producer.right) /\ Len(rhs) \in Nat /\ Len(rhs) <= Len(Producer.right)
  <1>1. TablesSound(parser) /\ production \in 1 .. Len(parser.producers) /\ IsSequence(rhs)
    BY Sound DEF IInv, PopsOnPath, TypeOK
  <1>2. DOMAIN parser.producers = 1 .. Len(parser.producers)
    BY <1>1, SequenceFacts DEF TablesSound
  <1>3. Producer \in Elements(parser.producers)
    BY <1>1, <1>2 DEF Producer, Elements
  <1>4. IsSequence(Producer.right)
    BY <1>1, <1>3 DEF TablesSound
  <1>5. QED
    BY <1>1, <1>3, <1>4, SequenceFacts DEF IInv, PopsOnPath

\* The item of the reduction with k symbols left to pop.
ItemAt(prod, k) == [left |-> prod.left, right |-> prod.right, dot |-> k]

LEMMA PopRhsStep ==
  ASSUME IInv, PopRhs
  PROVE  IInv' /\ semantic # <<>>
  <1> DEFINE n == Len(semantic)
             m == Len(rhs)
             item == ItemAt(Producer, Unpopped)
  <1>1. TypeOK /\ StacksAgree /\ pc = "reduce" /\ m < Len(Producer.right)
    BY DEF IInv, PopRhs
  <1>2. Len(Producer.right) \in Nat /\ m \in Nat /\ IsSequence(rhs)
    BY <1>1, ProducerFacts DEF TypeOK
  <1>3. Unpopped \in Nat /\ Unpopped > 0 /\ Unpopped + m = Len(Producer.right)
    BY <1>1, <1>2 DEF Unpopped
  <1>4. item \in parser.items[Top]
    BY <1>1 DEF IInv, PopsOnPath, ItemAt
  <1>5. item.dot = Unpopped /\ item.right = Producer.right
        /\ Retreat(item) = ItemAt(Producer, Unpopped - 1)
    BY DEF ItemAt, Retreat
  <1> HIDE DEF item
  <1>6. /\ semantic # <<>> /\ n >= 1 /\ Producer.right[Unpopped] = semantic[n].symbol
        /\ ItemAt(Producer, Unpopped - 1) \in parser.items[states[n]]
    BY <1>1, <1>3, <1>4, <1>5, BelowTop
  <1>7. n \in Nat /\ Len(states) = n + 1 /\ \A k \in 1 .. n + 1 : states[k] \in StateSet(parser)
    BY <1>1, Stacks
  <1>8. /\ rhs' = <<semantic[n]>> \o rhs
        /\ semantic' = SubSeq(semantic, 1, n - 1)
        /\ states' = SubSeq(states, 1, n)
        /\ UNCHANGED <<pc, input, tokens, scopes, index, production>>
    BY <1>6, <1>7 DEF PopRhs
  <1>9. /\ IsSequence(semantic') /\ Len(semantic') = n - 1
        /\ \A k \in 1 .. n - 1 : semantic'[k] = semantic[k]
    <2>1. IsSequence(semantic) /\ 1 \in 1 .. n + 1 /\ n - 1 \in 0 .. n /\ 1 <= (n - 1) + 1
      BY <1>1, <1>6, <1>7 DEF TypeOK
    <2> DEFINE shorter == SubSeq(semantic, 1, n - 1)
    <2>2. /\ IsSequence(shorter) /\ Len(shorter) = (n - 1) - 1 + 1
          /\ \A k \in 1 .. (n - 1) - 1 + 1 : shorter[k] = semantic[1 + k - 1]
      BY <2>1, SubSequence
    <2>3. semantic' = shorter
      BY <1>8
    <2> HIDE DEF shorter
    <2>4. QED
      BY <1>7, <2>2, <2>3
  <1>10. /\ states' \in Seq(StateSet(parser)) /\ Len(states') = n
         /\ \A k \in 1 .. n : states'[k] = states[k]
    <2> DEFINE shorter == SubSeq(states, 1, n)
    <2>1. 1 \in Int /\ n \in Int /\ \A k \in 1 .. n : states[k] \in StateSet(parser)
      BY <1>7
    <2>2. /\ shorter \in Seq(StateSet(parser))
          /\ Len(shorter) = IF 1 <= n THEN n - 1 + 1 ELSE 0
          /\ \A k \in 1 .. n - 1 + 1 : shorter[k] = states[1 + k - 1]
      BY <2>1, SubSeqProperties
    <2>3. states' = shorter
      BY <1>8
    <2> HIDE DEF shorter
    <2>4. QED
      BY <1>6, <1>7, <2>2, <2>3
  <1>11. /\ IsSequence(rhs') /\ Len(rhs') = m + 1
         /\ rhs'[1] = semantic[n] /\ \A k \in 1 .. m : rhs'[k + 1] = rhs[k]
    <2> DEFINE one == <<semantic[n]>>
               more == one \o rhs
    <2>1. IsSequence(one) /\ Len(one) = 1 /\ one[1] = semantic[n]
      BY Singleton
    <2> HIDE DEF one
    <2>2. /\ IsSequence(more) /\ Len(more) = Len(one) + Len(rhs)
          /\ \A k \in 1 .. Len(one) + Len(rhs) : more[k] = IF k <= Len(one) THEN one[k] ELSE rhs[k - Len(one)]
      BY <1>2, <2>1, Concatenation
    <2>3. rhs' = more
      BY <1>8 DEF one
    <2> HIDE DEF more
    <2>4. 1 \in 1 .. Len(one) + Len(rhs) /\ \A k \in 1 .. m : k + 1 \in 1 .. Len(one) + Len(rhs)
      BY <1>2, <2>1
    <2>5. QED
      BY <1>2, <2>1, <2>2, <2>3, <2>4
  <1>12. parser' = parser /\ Producer' = Producer /\ Top' = states[n]
    BY <1>6, <1>7, <1>8, <1>10 DEF parser, Producer, Top
  <1>13. TypeOK'
    BY <1>1, <1>8, <1>9, <1>10, <1>11, <1>12 DEF TypeOK
  <1>14. StacksAgree'
    <2>1. Len(states') = Len(semantic') + 1 /\ states'[1] = 0
      BY <1>1, <1>6, <1>7, <1>9, <1>10 DEF StacksAgree
    <2>2. ASSUME NEW k \in 1 .. Len(semantic')
          PROVE  /\ semantic'[k].symbol \in DOMAIN parser'.next[states'[k]]
                 /\ states'[k + 1] = parser'.next[states'[k]][semantic'[k].symbol]
      <3>1. k \in 1 .. n - 1 /\ k \in 1 .. n /\ k + 1 \in 1 .. n
        BY <1>7, <1>9
      <3>2. QED
        BY <1>1, <1>9, <1>10, <1>12, <3>1 DEF StacksAgree
    <2>3. QED
      BY <2>1, <2>2 DEF StacksAgree
  <1>15. PopsOnPath'
    <2>1. Unpopped' = Unpopped - 1
      BY <1>2, <1>11, <1>12 DEF Unpopped
    <2>2. production' \in 1 .. Len(parser'.producers) /\ Len(rhs') <= Len(Producer'.right)
      BY <1>1, <1>2, <1>8, <1>11, <1>12 DEF IInv, PopsOnPath
    <2>3. ItemAt(Producer', Unpopped') \in parser'.items[Top']
      BY <1>6, <1>12, <2>1
    <2>4. ASSUME NEW k \in 1 .. Len(rhs')
          PROVE  rhs'[k].symbol = Producer'.right[Unpopped' + k]
      <3>1. CASE k = 1
        <4>1. Unpopped' + k = Unpopped
          BY <1>3, <2>1, <3>1
        <4>2. QED
          BY <1>6, <1>11, <1>12, <3>1, <4>1
      <3>2. CASE k # 1
        <4>1. k - 1 \in 1 .. m /\ (k - 1) + 1 = k /\ Unpopped' + k = Unpopped + (k - 1)
          BY <1>2, <1>3, <1>11, <2>1, <3>2
        <4>2. rhs[k - 1].symbol = Producer.right[Unpopped + (k - 1)]
          BY <1>1, <4>1 DEF IInv, PopsOnPath
        <4>3. rhs'[k] = rhs[k - 1]
          BY <1>11, <4>1
        <4>4. QED
          BY <1>12, <4>1, <4>2, <4>3
      <3>3. QED
        BY <3>1, <3>2
    <2>5. QED
      BY <2>2, <2>3, <2>4 DEF PopsOnPath, ItemAt
  <1>16. QED
    BY <1>1, <1>6, <1>8, <1>13, <1>14, <1>15 DEF IInv, NeverStuck

LEMMA PushLeftStep ==
  ASSUME IInv, PushLeft
  PROVE  IInv' /\ pc' = "loop"
  <1>1. TypeOK /\ StacksAgree /\ pc = "reduce" /\ Len(rhs) = Len(Producer.right)
    BY DEF IInv, PushLeft
  <1>2. Producer \in Elements(parser.producers) /\ Len(Producer.right) \in Nat
    BY <1>1, ProducerFacts
  <1>3. InitialItem(Producer) \in parser.items[Top]
    <2>1. Unpopped = 0
      BY <1>1, <1>2 DEF Unpopped
    <2>2. QED
      BY <1>1, <2>1 DEF IInv, PopsOnPath, InitialItem
  <1>4. Top \in StateSet(parser) /\ Len(states) >= 1
    BY <1>1, Stacks
  <1>5. /\ Producer.left \in DOMAIN parser.goto[Top] /\ Producer.left \in DOMAIN parser.next[Top]
        /\ parser.goto[Top][Producer.left] = parser.next[Top][Producer.left]
    BY <1>1, <1>2, <1>3, <1>4, Sound DEF TablesSound
  <1>6. states # <<>>
    BY <1>4, EmptySequence
  <1> DEFINE entry == [symbol |-> Producer.left, lexeme |-> FirstLexeme, value |-> Result]
  <1>7. /\ states' = Append(states, parser.next[Top][Producer.left]) /\ semantic' = Append(semantic, entry)
        /\ pc' = "loop" /\ rhs' = <<>>
        /\ scopes' = [scopes EXCEPT ![Len(scopes)] = @ \cup Declared]
        /\ UNCHANGED <<input, tokens, index, production>>
    BY <1>5, <1>6 DEF PushLeft
  <1>8. entry.symbol = Producer.left
    OBVIOUS
  <1> HIDE DEF entry
  <1>9. StacksAgree' /\ states' \in Seq(StateSet(parser)) /\ IsSequence(semantic')
    BY <1>1, <1>5, <1>7, <1>8, PushKeepsStep
  <1>10. IsSequence(scopes') /\ scopes' # <<>>
    <2> DEFINE inner == scopes[Len(scopes)] \cup Declared
               T == Elements(scopes) \cup {inner}
    <2>1. IsSequence(scopes) /\ Len(scopes) \in Nat /\ scopes \in Seq(T)
      BY <1>1, SequenceFacts, SeqMonotonic DEF TypeOK
    <2>2. scopes' = [scopes EXCEPT ![Len(scopes)] = inner]
      BY <1>7
    <2>3. inner \in T
      OBVIOUS
    <2>4. Len(scopes) # 0
      BY <1>1, <2>1, EmptySeq DEF TypeOK
    <2>5. Len(scopes) \in 1 .. Len(scopes)
      BY <2>1, <2>4
    <2> HIDE DEF inner, T
    <2>6. scopes' \in Seq(T) /\ Len(scopes') = Len(scopes)
      BY <2>1, <2>2, <2>3, <2>5, ExceptSeq
    <2>7. IsSequence(scopes')
      BY <2>6, SequenceOf
    <2>8. QED
      BY <2>4, <2>6, <2>7, EmptySequence
  <1>11. TypeOK'
    BY <1>1, <1>7, <1>9, <1>10, EmptySequence DEF TypeOK, parser
  <1>12. QED
    BY <1>7, <1>9, <1>11 DEF IInv, PopsOnPath, NeverStuck

LEMMA StepInv == IInv /\ [Next]_vars => IInv'
  <1> SUFFICES ASSUME IInv, [Next]_vars PROVE IInv'
    OBVIOUS
  <1>1. CASE Shift
    BY <1>1, ShiftStep
  <1>2. CASE StartReduce
    BY <1>2, StartReduceStep
  <1>3. CASE PopRhs
    BY <1>3, PopRhsStep
  <1>4. CASE PushLeft
    BY <1>4, PushLeftStep
  <1>5. CASE Accept
    BY <1>5 DEF Accept, IInv, TypeOK, StacksAgree, PopsOnPath, NeverStuck, parser
  <1>6. CASE Reject
    BY <1>6 DEF Reject, IInv, TypeOK, StacksAgree, PopsOnPath, NeverStuck, parser
  <1>7. CASE UNCHANGED vars
    BY <1>7 DEF vars, IInv, TypeOK, StacksAgree, PopsOnPath, NeverStuck, parser, Producer, Top, Unpopped
  <1>8. QED
    BY <1>1, <1>2, <1>3, <1>4, <1>5, <1>6, <1>7 DEF Next

\* Type correctness, and the two stacks in step with the automaton (yyparse pushes and pops
\* them by separate statements).
THEOREM Inductive == Spec => []IInv
  <1>1. QED
    BY InitInv, StepInv, PTL DEF Spec

\* yyparse never pops an empty stack and kGoto.at() never throws, whatever the tokens.
THEOREM NoUndefinedBehaviour == Spec => []NeverStuck
  <1>1. IInv => NeverStuck
    BY DEF IInv
  <1>2. QED
    BY <1>1, Inductive, PTL

(***************************************************************************)
(* Every parser with sound tables implements BottomUp: what yyparse        *)
(* accepts, it has reduced to the start symbol by productions of its       *)
(* grammar.                                                                *)
(***************************************************************************)
LEMMA AcceptFacts ==
  ASSUME IInv, Accept
  PROVE  /\ Len(semantic) = 1 /\ semantic[1].symbol = parser.start
         /\ index <= Len(tokens) /\ Look.type = EndMarker
  <1> DEFINE item == Advance(StartItem(parser))
  <1>1. TypeOK /\ StacksAgree
    BY DEF IInv
  <1>2. Top \in StateSet(parser)
    BY <1>1, Stacks
  <1>3. Look.type = EndMarker /\ item \in parser.items[Top]
    BY <1>1, <1>2, Sound DEF Accept, HasAction, Action, TablesSound
  <1>4. /\ item.dot = 1 /\ item.right = <<parser.start>> /\ item.right[1] = parser.start
        /\ Retreat(item) = StartItem(parser)
    <2>1. StartItem(parser) = [left |-> AugmentedStart, right |-> <<parser.start>>, dot |-> 0]
      BY DEF StartItem, InitialItem, AugmentedProduction
    <2>2. item = [left |-> AugmentedStart, right |-> <<parser.start>>, dot |-> 1]
      BY <2>1 DEF Advance
    <2> HIDE DEF item
    <2>3. Retreat(item) = [left |-> AugmentedStart, right |-> <<parser.start>>, dot |-> 0]
      BY <2>2 DEF Retreat
    <2>4. QED
      BY <2>1, <2>2, <2>3
  <1> HIDE DEF item
  <1>5. /\ Len(semantic) >= 1 /\ semantic[Len(semantic)].symbol = parser.start
        /\ StartItem(parser) \in parser.items[states[Len(semantic)]]
        /\ states[Len(semantic)] \in StateSet(parser)
    BY <1>1, <1>3, <1>4, BelowTop
  <1>6. states[Len(semantic)] = 0
    BY <1>1, <1>5, Sound DEF AutomatonSound
  <1>7. Len(semantic) \in 1 .. Len(states)
    BY <1>1, <1>5, Stacks
  <1>8. Len(semantic) = 1
    BY <1>1, <1>6, <1>7, OnlyBottomIsStart
  <1>9. QED
    BY <1>3, <1>5, <1>8 DEF Accept, InLoop

\* At an accept nothing is left on the stack but the start symbol (yyparse itself looks at
\* nothing but the table entry).
THEOREM AcceptsOnlyWhole == Spec => []AcceptsWhole
  <1>1. Init => AcceptsWhole
    BY DEF Init, AcceptsWhole
  <1>2. ASSUME IInv, AcceptsWhole, [Next]_vars
        PROVE  AcceptsWhole'
    <2>1. CASE Accept
      BY <1>2, <2>1, AcceptFacts DEF Accept, AcceptsWhole, parser, Look
    <2>2. CASE UNCHANGED vars
      BY <1>2, <2>2 DEF vars, AcceptsWhole, parser, Look
    <2>3. CASE PopRhs
      BY <2>3 DEF PopRhs, AcceptsWhole
    <2>4. CASE Shift \/ StartReduce \/ PushLeft \/ Reject
      BY <2>4 DEF Shift, StartReduce, PushLeft, Reject, InLoop, AcceptsWhole
    <2>5. QED
      BY <1>2, <2>1, <2>2, <2>3, <2>4 DEF Next
  <1>3. QED
    BY <1>1, <1>2, Inductive, PTL DEF Spec

(***************************************************************************)
(* The sentential form under the steps of yyparse.                         *)
(***************************************************************************)
LEMMA FormFacts ==
  ASSUME TypeOK
  PROVE  LET n == Len(semantic)  m == Len(rhs) IN
         /\ n \in Nat /\ m \in Nat /\ Len(tokens) \in Nat
         /\ IsSequence(Form) /\ Len(Form) = n + m + Len(tokens) + 1 - index
         /\ \A k \in 1 .. Len(Form) :
              Form[k] = IF k <= n THEN semantic[k].symbol
                        ELSE IF k <= n + m THEN rhs[k - n].symbol
                        ELSE tokens[index + k - n - m - 1].type
  <1>1. IsSequence(semantic) /\ IsSequence(rhs) /\ IsSequence(tokens) /\ index \in 1 .. Len(tokens) + 1
    BY DEF TypeOK
  <1>2. QED
    BY <1>1, ReadingFacts, SequenceFacts DEF Form

\* The same for the next state.
LEMMA FormFactsNext ==
  ASSUME TypeOK'
  PROVE  LET n == Len(semantic')  m == Len(rhs') IN
         /\ n \in Nat /\ m \in Nat /\ Len(tokens') \in Nat
         /\ IsSequence(Form') /\ Len(Form') = n + m + Len(tokens') + 1 - index'
         /\ \A k \in 1 .. Len(Form') :
              Form'[k] = IF k <= n THEN semantic'[k].symbol
                         ELSE IF k <= n + m THEN rhs'[k - n].symbol
                         ELSE tokens'[index' + k - n - m - 1].type
  <1>1. IsSequence(semantic') /\ IsSequence(rhs') /\ IsSequence(tokens') /\ index' \in 1 .. Len(tokens') + 1
    BY DEF TypeOK
  <1>2. QED
    BY <1>1, ReadingFacts, SequenceFacts DEF Form

LEMMA ShiftKeepsForm ==
  ASSUME IInv, Shift
  PROVE  Form' = Form
  <1> DEFINE n == Len(semantic)
             entry == [symbol |-> Look.type, lexeme |-> Look.lexeme,
                       value |-> <<[by |-> 0, lexeme |-> Look.lexeme]>>]
  <1>1. TypeOK /\ TypeOK' /\ rhs = <<>> /\ rhs' = <<>> /\ Len(rhs) = 0
    BY ShiftStep, EmptySequence DEF IInv, TypeOK, Shift, InLoop
  <1>2. /\ Len(semantic') = n + 1 /\ semantic'[n + 1].symbol = tokens[index].type
        /\ \A k \in 1 .. n : semantic'[k] = semantic[k]
    <2>1. semantic' = Append(semantic, entry) /\ IsSequence(semantic)
      BY <1>1 DEF Shift, TypeOK
    <2>2. entry.symbol = tokens[index].type
      BY DEF Look
    <2> HIDE DEF entry
    <2>3. QED
      BY <2>1, <2>2, AppendSequence
  <1>3. tokens' = tokens /\ index' = index + 1 /\ index \in 1 .. Len(tokens)
    <2>1. Len(tokens) \in Nat
      BY <1>1, FormFacts
    <2>2. QED
      BY <1>1, <2>1 DEF Shift, InLoop, TypeOK
  <1>4. /\ n \in Nat /\ Len(tokens) \in Nat
        /\ IsSequence(Form) /\ Len(Form) = n + Len(tokens) + 1 - index
        /\ \A k \in 1 .. Len(Form) :
             Form[k] = IF k <= n THEN semantic[k].symbol ELSE tokens[index + k - n - 1].type
    BY <1>1, FormFacts
  <1>5. /\ IsSequence(Form') /\ Len(Form') = (n + 1) + Len(tokens) + 1 - (index + 1)
        /\ \A k \in 1 .. Len(Form') :
             Form'[k] = IF k <= n + 1 THEN semantic'[k].symbol ELSE tokens[(index + 1) + k - (n + 1) - 1].type
    BY <1>1, <1>2, <1>3, <1>4, FormFactsNext
  <1>6. Len(Form') = Len(Form)
    BY <1>3, <1>4, <1>5
  <1>7. ASSUME NEW k \in 1 .. Len(Form)
        PROVE  Form'[k] = Form[k]
    <2>1. /\ Form[k] = IF k <= n THEN semantic[k].symbol ELSE tokens[index + k - n - 1].type
          /\ Form'[k] = IF k <= n + 1 THEN semantic'[k].symbol ELSE tokens[(index + 1) + k - (n + 1) - 1].type
      BY <1>4, <1>5, <1>6
    <2>2. k \in Nat /\ k >= 1 /\ index \in Nat
      BY <1>3, <1>4
    <2> HIDE DEF n
    <2>3. CASE k <= n
      BY <1>2, <1>4, <2>1, <2>2, <2>3
    <2>4. CASE k = n + 1
      <3>1. index + k - n - 1 = index
        BY <1>4, <2>2, <2>4
      <3>2. QED
        BY <1>2, <1>4, <2>1, <2>2, <2>4, <3>1
    <2>5. CASE k > n + 1
      <3>1. (index + 1) + k - (n + 1) - 1 = index + k - n - 1
        BY <1>4, <2>2
      <3>2. QED
        BY <1>4, <2>1, <2>2, <2>5, <3>1
    <2>6. QED
      BY <1>4, <2>2, <2>3, <2>4, <2>5
  <1>8. QED
    BY <1>4, <1>5, <1>6, <1>7, EqualSequences

LEMMA PopRhsKeepsForm ==
  ASSUME IInv, PopRhs
  PROVE  Form' = Form /\ pc' = pc
  <1> DEFINE n == Len(semantic)
             m == Len(rhs)
  <1>1. TypeOK /\ TypeOK' /\ semantic # <<>> /\ IsSequence(semantic) /\ IsSequence(rhs)
    BY PopRhsStep DEF IInv, TypeOK
  <1>2. /\ rhs' = <<semantic[n]>> \o rhs /\ semantic' = SubSeq(semantic, 1, n - 1)
        /\ UNCHANGED <<pc, input, tokens, index>>
    BY <1>1 DEF PopRhs
  <1>3. /\ n \in Nat /\ m \in Nat /\ Len(tokens) \in Nat /\ index \in Nat
        /\ IsSequence(Form) /\ Len(Form) = n + m + Len(tokens) + 1 - index
        /\ \A k \in 1 .. Len(Form) :
             Form[k] = IF k <= n THEN semantic[k].symbol
                       ELSE IF k <= n + m THEN rhs[k - n].symbol
                       ELSE tokens[index + k - n - m - 1].type
    BY <1>1, FormFacts DEF TypeOK
  <1>4. n >= 1
    BY <1>1, <1>3, EmptySeq DEF IsSequence
  <1>5. Len(semantic') = n - 1 /\ \A k \in 1 .. n - 1 : semantic'[k] = semantic[k]
    <2> DEFINE shorter == SubSeq(semantic, 1, n - 1)
    <2>1. 1 \in 1 .. n + 1 /\ n - 1 \in 0 .. n /\ 1 <= (n - 1) + 1
      BY <1>3, <1>4
    <2>2. Len(shorter) = (n - 1) - 1 + 1 /\ \A k \in 1 .. (n - 1) - 1 + 1 : shorter[k] = semantic[1 + k - 1]
      BY <1>1, <2>1, SubSequence
    <2>3. semantic' = shorter
      BY <1>2
    <2> HIDE DEF shorter
    <2>4. QED
      BY <1>3, <2>2, <2>3
  <1>6. Len(rhs') = m + 1 /\ rhs'[1] = semantic[n] /\ \A k \in 1 .. m : rhs'[k + 1] = rhs[k]
    <2> DEFINE one == <<semantic[n]>>
               more == one \o rhs
    <2>1. IsSequence(one) /\ Len(one) = 1 /\ one[1] = semantic[n]
      BY Singleton
    <2> HIDE DEF one
    <2>2. /\ Len(more) = Len(one) + Len(rhs)
          /\ \A k \in 1 .. Len(one) + Len(rhs) : more[k] = IF k <= Len(one) THEN one[k] ELSE rhs[k - Len(one)]
      BY <1>1, <2>1, Concatenation
    <2>3. rhs' = more
      BY <1>2 DEF one
    <2> HIDE DEF more
    <2>4. 1 \in 1 .. Len(one) + Len(rhs) /\ \A k \in 1 .. m : k + 1 \in 1 .. Len(one) + Len(rhs)
      BY <1>3, <2>1
    <2>5. QED
      BY <1>3, <2>1, <2>2, <2>3, <2>4
  <1>7. /\ IsSequence(Form') /\ Len(Form') = (n - 1) + (m + 1) + Len(tokens) + 1 - index
        /\ \A k \in 1 .. Len(Form') :
             Form'[k] = IF k <= n - 1 THEN semantic'[k].symbol
                        ELSE IF k <= (n - 1) + (m + 1) THEN rhs'[k - (n - 1)].symbol
                        ELSE tokens[index + k - (n - 1) - (m + 1) - 1].type
    BY <1>1, <1>2, <1>5, <1>6, FormFactsNext
  <1>8. Len(Form') = Len(Form)
    BY <1>3, <1>7
  <1>9. ASSUME NEW k \in 1 .. Len(Form)
        PROVE  Form'[k] = Form[k]
    <2>1. /\ Form[k] = IF k <= n THEN semantic[k].symbol
                       ELSE IF k <= n + m THEN rhs[k - n].symbol
                       ELSE tokens[index + k - n - m - 1].type
          /\ Form'[k] = IF k <= n - 1 THEN semantic'[k].symbol
                        ELSE IF k <= (n - 1) + (m + 1) THEN rhs'[k - (n - 1)].symbol
                        ELSE tokens[index + k - (n - 1) - (m + 1) - 1].type
      BY <1>3, <1>7, <1>8
    <2>2. k \in Nat /\ k >= 1
      BY <1>3
    <2> HIDE DEF n, m
    <2>3. CASE k <= n - 1
      BY <1>3, <1>5, <2>1, <2>2, <2>3
    <2>4. CASE k = n
      <3>1. k - (n - 1) = 1 /\ ~(k <= n - 1) /\ k <= (n - 1) + (m + 1)
        BY <1>3, <2>4
      <3>2. QED
        BY <1>3, <1>6, <2>1, <2>4, <3>1
    <2>5. CASE k > n /\ k <= n + m
      <3>1. k - n \in 1 .. m /\ (k - n) + 1 = k - (n - 1) /\ ~(k <= n) /\ ~(k <= n - 1) /\ k <= (n - 1) + (m + 1)
        BY <1>3, <2>2, <2>5
      <3>2. rhs'[(k - n) + 1] = rhs[k - n]
        BY <1>6, <3>1
      <3>3. QED
        BY <2>1, <2>5, <3>1, <3>2
    <2>6. CASE k > n + m
      <3>1. index + k - (n - 1) - (m + 1) - 1 = index + k - n - m - 1
        BY <1>3, <2>2
      <3>2. QED
        BY <1>3, <2>1, <2>2, <2>6, <3>1
    <2>7. QED
      BY <1>3, <2>2, <2>3, <2>4, <2>5, <2>6
  <1>10. QED
    BY <1>2, <1>3, <1>7, <1>8, <1>9, EqualSequences

\* A reduction replaces the right-hand side, wherever it stands, by the left-hand side.
LEMMA PushLeftReduces ==
  ASSUME IInv, PushLeft
  PROVE  /\ Producer \in Elements(parser.producers)
         /\ Len(semantic) \in 0 .. Len(Form) - Len(Producer.right)
         /\ Abstract!Replace(Producer, Len(semantic))
  <1> DEFINE n == Len(semantic)
             right == Producer.right
             m == Len(right)
  <1>1. TypeOK /\ TypeOK' /\ pc = "reduce" /\ Len(rhs) = m
    BY PushLeftStep DEF IInv, PushLeft
  <1>2. Producer \in Elements(parser.producers) /\ m \in Nat /\ IsSequence(right)
    BY <1>1, ProducerFacts
  <1>3. \A k \in 1 .. m : rhs[k].symbol = right[k]
    <2>1. Unpopped = 0
      BY <1>1, <1>2 DEF Unpopped
    <2>2. QED
      BY <1>1, <1>2, <2>1 DEF IInv, PopsOnPath
  <1>4. /\ n \in Nat /\ Len(tokens) \in Nat /\ index \in 1 .. Len(tokens) + 1
        /\ IsSequence(Form) /\ Len(Form) = n + m + Len(tokens) + 1 - index
        /\ \A k \in 1 .. Len(Form) :
             Form[k] = IF k <= n THEN semantic[k].symbol
                       ELSE IF k <= n + m THEN rhs[k - n].symbol
                       ELSE tokens[index + k - n - m - 1].type
    BY <1>1, FormFacts DEF TypeOK
  <1> DEFINE entry == [symbol |-> Producer.left, lexeme |-> FirstLexeme, value |-> Result]
  <1>5. semantic' = Append(semantic, entry) /\ rhs' = <<>> /\ tokens' = tokens /\ index' = index
    BY PushLeftStep DEF PushLeft
  <1>6. entry.symbol = Producer.left
    OBVIOUS
  <1> HIDE DEF entry
  <1>7. /\ Len(semantic') = n + 1 /\ semantic'[n + 1] = entry /\ Len(rhs') = 0
        /\ \A k \in 1 .. n : semantic'[k] = semantic[k]
    BY <1>1, <1>5, AppendSequence, EmptySequence DEF TypeOK
  <1>8. /\ IsSequence(Form') /\ Len(Form') = n + 1 + Len(tokens) + 1 - index
        /\ \A k \in 1 .. Len(Form') :
             Form'[k] = IF k <= n + 1 THEN semantic'[k].symbol ELSE tokens[index + k - (n + 1) - 1].type
    BY <1>1, <1>4, <1>5, <1>7, FormFactsNext
  <1> DEFINE form == Form
             next == Form'
             l == Len(tokens) + 1 - index
             front == SubSeq(form, 1, n)
             handle == SubSeq(form, n + 1, n + m)
             back == SubSeq(form, n + m + 1, Len(form))
  <1>9. l \in Nat /\ IsSequence(form) /\ Len(form) = n + m + l
    <2>1. l \in Nat /\ n \in Nat /\ m \in Nat /\ index \in Nat /\ Len(tokens) \in Nat
      BY <1>2, <1>4
    <2>2. IsSequence(form) /\ Len(form) = n + m + Len(tokens) + 1 - index
      BY <1>4
    <2> HIDE DEF form, n, m
    <2>3. QED
      BY <2>1, <2>2
  <1>10. /\ \A k \in 1 .. n : form[k] = semantic[k].symbol
         /\ \A k \in 1 .. m : form[n + k] = right[k]
         /\ \A k \in 1 .. l : form[n + m + k] = tokens[index + k - 1].type
    <2> HIDE DEF n, m
    <2>1. \A k \in 1 .. n : form[k] = semantic[k].symbol
      BY <1>2, <1>4, <1>9
    <2>2. ASSUME NEW k \in 1 .. m
          PROVE  form[n + k] = right[k]
      <3>1. n + k \in 1 .. Len(form) /\ ~(n + k <= n) /\ n + k <= n + m /\ (n + k) - n = k
        BY <1>2, <1>4, <1>9
      <3>2. QED
        BY <1>3, <1>4, <3>1
    <2>3. ASSUME NEW k \in 1 .. l
          PROVE  form[n + m + k] = tokens[index + k - 1].type
      <3>1. /\ n + m + k \in 1 .. Len(form) /\ ~(n + m + k <= n) /\ ~(n + m + k <= n + m)
            /\ index + (n + m + k) - n - m - 1 = index + k - 1
        BY <1>2, <1>4, <1>9
      <3>2. QED
        BY <1>4, <3>1
    <2>4. QED
      BY <2>1, <2>2, <2>3
  <1>11. /\ IsSequence(next) /\ Len(next) = n + 1 + l
         /\ \A k \in 1 .. n : next[k] = semantic[k].symbol
         /\ next[n + 1] = Producer.left
         /\ \A k \in 1 .. l : next[n + 1 + k] = tokens[index + k - 1].type
    <2>1. IsSequence(next) /\ Len(next) = n + 1 + l
      BY <1>4, <1>8
    <2> HIDE DEF n, m
    <2>2. ASSUME NEW k \in 1 .. n
          PROVE  next[k] = semantic[k].symbol
      <3>1. k \in 1 .. Len(next) /\ k <= n + 1 /\ semantic'[k] = semantic[k]
        BY <1>4, <1>7, <1>9, <2>1
      <3>2. QED
        BY <1>8, <3>1
    <2>3. next[n + 1] = Producer.left
      BY <1>4, <1>6, <1>7, <1>8, <1>9, <2>1
    <2>4. ASSUME NEW k \in 1 .. l
          PROVE  next[n + 1 + k] = tokens[index + k - 1].type
      <3>1. /\ n + 1 + k \in 1 .. Len(next) /\ ~(n + 1 + k <= n + 1)
            /\ index + (n + 1 + k) - (n + 1) - 1 = index + k - 1
        BY <1>4, <1>9, <2>1
      <3>2. QED
        BY <1>8, <3>1
    <2>5. QED
      BY <2>1, <2>2, <2>3, <2>4
  <1> HIDE DEF form, next, l
  <1>12. IsSequence(front) /\ Len(front) = n /\ \A k \in 1 .. n : front[k] = form[k]
    <2>1. 1 \in 1 .. Len(form) + 1 /\ n \in 0 .. Len(form) /\ 1 <= n + 1
      BY <1>2, <1>4, <1>9
    <2>2. /\ IsSequence(front) /\ Len(front) = n - 1 + 1
          /\ \A k \in 1 .. n - 1 + 1 : front[k] = form[1 + k - 1]
      BY <1>9, <2>1, SubSequence
    <2> HIDE DEF front
    <2>3. QED
      BY <1>4, <2>2
  <1>13. IsSequence(handle) /\ Len(handle) = m /\ \A k \in 1 .. m : handle[k] = form[n + k]
    <2>1. n + 1 \in 1 .. Len(form) + 1 /\ n + m \in 0 .. Len(form) /\ n + 1 <= (n + m) + 1
      BY <1>2, <1>4, <1>9
    <2>2. /\ IsSequence(handle) /\ Len(handle) = (n + m) - (n + 1) + 1
          /\ \A k \in 1 .. (n + m) - (n + 1) + 1 : handle[k] = form[(n + 1) + k - 1]
      BY <1>9, <2>1, SubSequence
    <2> HIDE DEF handle
    <2>3. (n + m) - (n + 1) + 1 = m /\ \A k \in 1 .. m : (n + 1) + k - 1 = n + k
      BY <1>2, <1>4
    <2>4. QED
      BY <2>2, <2>3
  <1>14. IsSequence(back) /\ Len(back) = l /\ \A k \in 1 .. l : back[k] = form[n + m + k]
    <2>1. n + m + 1 \in 1 .. Len(form) + 1 /\ Len(form) \in 0 .. Len(form) /\ n + m + 1 <= Len(form) + 1
      BY <1>2, <1>4, <1>9
    <2>2. /\ IsSequence(back) /\ Len(back) = Len(form) - (n + m + 1) + 1
          /\ \A k \in 1 .. Len(form) - (n + m + 1) + 1 : back[k] = form[(n + m + 1) + k - 1]
      BY <1>9, <2>1, SubSequence
    <2> HIDE DEF back
    <2>3. Len(form) - (n + m + 1) + 1 = l /\ \A k \in 1 .. l : (n + m + 1) + k - 1 = n + m + k
      BY <1>2, <1>4, <1>9
    <2>4. QED
      BY <2>2, <2>3
  <1>15. handle = right
    BY <1>2, <1>10, <1>13, EqualSequences
  <1> HIDE DEF front, handle, back
  <1> DEFINE one == <<Producer.left>>
             joined == (front \o one) \o back
  <1>16. IsSequence(one) /\ Len(one) = 1 /\ one[1] = Producer.left
    BY Singleton
  <1> HIDE DEF one
  <1>17. /\ IsSequence(joined) /\ Len(joined) = Len(front) + Len(one) + Len(back)
         /\ \A k \in 1 .. Len(front) + Len(one) + Len(back) :
              joined[k] = IF k <= Len(front) THEN front[k]
                          ELSE IF k <= Len(front) + Len(one) THEN one[k - Len(front)]
                          ELSE back[k - Len(front) - Len(one)]
    <2>1. IsSequence(front) /\ IsSequence(one) /\ IsSequence(back)
      BY <1>12, <1>14, <1>16
    <2>2. /\ IsSequence((front \o one) \o back)
          /\ Len((front \o one) \o back) = Len(front) + Len(one) + Len(back)
          /\ \A k \in 1 .. Len(front) + Len(one) + Len(back) :
               ((front \o one) \o back)[k] = IF k <= Len(front) THEN front[k]
                                             ELSE IF k <= Len(front) + Len(one) THEN one[k - Len(front)]
                                             ELSE back[k - Len(front) - Len(one)]
      BY <2>1, TripleConcatenation
    <2>3. QED
      BY <2>2
  <1> HIDE DEF joined, n, m, right
  <1>18. next = joined
    <2>1. Len(next) = Len(joined)
      BY <1>11, <1>12, <1>14, <1>16, <1>17
    <2>2. ASSUME NEW k \in 1 .. Len(next)
          PROVE  next[k] = joined[k]
      <3>1. k \in 1 .. Len(front) + Len(one) + Len(back)
        BY <1>11, <1>12, <1>14, <1>16
      <3>2. joined[k] = IF k <= n THEN front[k] ELSE IF k <= n + 1 THEN one[k - n] ELSE back[k - n - 1]
        BY <1>12, <1>16, <1>17, <3>1
      <3>3. CASE k <= n
        BY <1>4, <1>9, <1>10, <1>11, <1>12, <3>2, <3>3
      <3>4. CASE k = n + 1
        <4>1. ~(k <= n) /\ k - n = 1
          BY <1>4, <3>4
        <4>2. QED
          BY <1>11, <1>16, <3>2, <3>4, <4>1
      <3>5. CASE k > n + 1
        <4>1. /\ k - n - 1 \in 1 .. l /\ ~(k <= n) /\ ~(k <= n + 1) /\ n + 1 + (k - n - 1) = k
          BY <1>4, <1>9, <1>11, <3>5
        <4>2. joined[k] = form[n + m + (k - n - 1)]
          BY <1>14, <3>2, <4>1
        <4>3. next[n + 1 + (k - n - 1)] = tokens[index + (k - n - 1) - 1].type
          BY <1>11, <4>1
        <4>4. form[n + m + (k - n - 1)] = tokens[index + (k - n - 1) - 1].type
          BY <1>10, <4>1
        <4>5. QED
          BY <4>1, <4>2, <4>3, <4>4
      <3>6. QED
        BY <1>4, <1>9, <1>11, <3>3, <3>4, <3>5
    <2>3. QED
      BY <1>11, <1>17, <2>1, <2>2, EqualSequences
  <1>19. n \in 0 .. Len(form) - m
    BY <1>2, <1>4, <1>9
  <1>20. Abstract!Replace(Producer, n)
    <2>1. SubSeq(Form, n + 1, n + Len(Producer.right)) = Producer.right
      BY <1>15 DEF handle, form, right, m
    <2>2. Form' = SubSeq(Form, 1, n) \o <<Producer.left>> \o SubSeq(Form, n + Len(Producer.right) + 1, Len(Form))
      BY <1>18 DEF next, joined, front, one, back, form, right, m
    <2>3. QED
      BY <2>1, <2>2 DEF Abstract!Replace
  <1>21. QED
    BY <1>2, <1>19, <1>20 DEF form, right, m, n

LEMMA InitRefines == Init => Abstract!Init
  <1> SUFFICES ASSUME Init PROVE Abstract!Init
    OBVIOUS
  <1>1. TypeOK
    BY InitInv DEF IInv
  <1>2. PICK sentence \in Sentences[input] : tokens = WithEnd(sentence)
    BY DEF Init
  <1>3. /\ Len(tokens) \in Nat /\ IsSequence(tokens)
        /\ IsSequence(Form) /\ Len(Form) = Len(tokens)
        /\ \A k \in 1 .. Len(Form) : Form[k] = tokens[k].type
    <2>1. index = 1 /\ Len(semantic) = 0 /\ Len(rhs) = 0
      BY EmptySequence DEF Init
    <2>2. /\ Len(tokens) \in Nat /\ IsSequence(Form) /\ Len(Form) = 0 + 0 + Len(tokens) + 1 - 1
          /\ \A k \in 1 .. Len(Form) :
               Form[k] = IF k <= 0 THEN semantic[k].symbol
                         ELSE IF k <= 0 + 0 THEN rhs[k - 0].symbol
                         ELSE tokens[1 + k - 0 - 0 - 1].type
      BY <1>1, <2>1, FormFacts
    <2>3. ASSUME NEW k \in 1 .. Len(Form)
          PROVE  Form[k] = tokens[k].type
      <3>1. ~(k <= 0) /\ ~(k <= 0 + 0) /\ 1 + k - 0 - 0 - 1 = k
        BY <2>2
      <3>2. QED
        BY <2>2, <3>1
    <2>4. QED
      BY <1>1, <2>2, <2>3 DEF TypeOK
  <1>4. IsSequence(Types(tokens)) /\ Len(Types(tokens)) = Len(tokens)
        /\ \A k \in 1 .. Len(tokens) : Types(tokens)[k] = tokens[k].type
    BY <1>3, Projections
  <1>5. Form = Types(WithEnd(sentence))
    BY <1>2, <1>3, <1>4, EqualSequences
  <1>6. Verdict = "open"
    BY DEF Init, Verdict
  <1>7. QED
    BY <1>5, <1>6 DEF Init, Abstract!Init

LEMMA AcceptRefines ==
  ASSUME IInv, Accept
  PROVE  Abstract!Accept
  <1>1. /\ Len(semantic) = 1 /\ semantic[1].symbol = parser.start
        /\ index <= Len(tokens) /\ tokens[index].type = EndMarker
    BY AcceptFacts DEF Look
  <1>2. rhs = <<>> /\ Len(rhs) = 0 /\ index \in 1 .. Len(tokens) + 1 /\ TypeOK
    BY EmptySequence DEF IInv, TypeOK, Accept, InLoop
  <1>3. /\ Len(tokens) \in Nat /\ Len(Form) = 1 + 0 + Len(tokens) + 1 - index
        /\ \A k \in 1 .. Len(Form) :
             Form[k] = IF k <= 1 THEN semantic[k].symbol
                       ELSE IF k <= 1 + 0 THEN rhs[k - 1].symbol
                       ELSE tokens[index + k - 1 - 0 - 1].type
    BY <1>1, <1>2, FormFacts
  <1>4. Len(Form) >= 2
    BY <1>1, <1>2, <1>3
  <1>5. Form[1] = parser.start
    <2>1. 1 \in 1 .. Len(Form)
      BY <1>3, <1>4, <1>2
    <2>2. QED
      BY <1>1, <1>3, <2>1
  <1>6. Form[2] = EndMarker
    <2>1. 2 \in 1 .. Len(Form) /\ index + 2 - 1 - 0 - 1 = index
      BY <1>3, <1>4, <1>2
    <2>2. QED
      BY <1>1, <1>3, <2>1
  <1>7. Verdict = "open" /\ Verdict' = "accepted"
    BY DEF Accept, InLoop, Verdict
  <1>8. UNCHANGED <<input, Form>>
    BY DEF Accept, Form
  <1>9. QED
    BY <1>4, <1>5, <1>6, <1>7, <1>8
    DEF Abstract!Accept, Abstract!grammar, Abstract!EndMarker, EndMarker, parser

LEMMA StepRefines ==
  ASSUME IInv, [Next]_vars
  PROVE  [Abstract!Next]_(Abstract!vars)
  <1>1. CASE Shift
    BY <1>1, ShiftKeepsForm DEF Shift, InLoop, Verdict, Abstract!vars
  <1>2. CASE StartReduce
    <2>1. Form' = Form
      BY <1>2 DEF StartReduce, InLoop, IInv, TypeOK, Form
    <2>2. QED
      BY <1>2, <2>1 DEF StartReduce, InLoop, Verdict, Abstract!vars
  <1>3. CASE PopRhs
    BY <1>3, PopRhsKeepsForm DEF PopRhs, Verdict, Abstract!vars
  <1>4. CASE PushLeft
    <2>1. /\ Producer \in Elements(parser.producers)
          /\ Len(semantic) \in 0 .. Len(Form) - Len(Producer.right)
          /\ Abstract!Replace(Producer, Len(semantic))
      BY <1>4, PushLeftReduces
    <2>2. Verdict = "open" /\ Verdict' = "open" /\ input' = input
      BY <1>4, PushLeftStep DEF PushLeft, Verdict
    <2>3. Abstract!Reduce
      BY <2>1, <2>2 DEF Abstract!Reduce, Abstract!grammar, Abstract!Elements, Elements, parser
    <2>4. QED
      BY <2>3 DEF Abstract!Next
  <1>5. CASE Accept
    BY <1>5, AcceptRefines DEF Abstract!Next
  <1>6. CASE Reject
    <2>1. Verdict = "open" /\ Verdict' = "rejected" /\ UNCHANGED <<input, Form>>
      BY <1>6 DEF Reject, Verdict, Form
    <2>2. QED
      BY <2>1 DEF Abstract!Reject, Abstract!Next
  <1>7. CASE UNCHANGED vars
    BY <1>7 DEF vars, Form, Verdict, Abstract!vars
  <1>8. QED
    BY <1>1, <1>2, <1>3, <1>4, <1>5, <1>6, <1>7 DEF Next

\* yyparse accepts only what its grammar derives: every run is a run of BottomUp.
THEOREM Refinement == Spec => ImplementsBottomUp
  <1>1. QED
    BY InitRefines, StepRefines, Inductive, PTL DEF Spec, ImplementsBottomUp, Abstract!Spec


-----------------------------------------------------------------------------
(***************************************************************************)
(* Without conflicts, yyparse decides the language of its grammar.  What   *)
(* it has read spells the symbols on the stack (so only sentences are      *)
(* accepted), and of a sentence there is always an item open behind the    *)
(* stack that derives the rest, for which the table has an entry (so no    *)
(* sentence is rejected).                                                  *)
(***************************************************************************)
HasEnd  == \E k \in DOMAIN tokens : tokens[k].type = EndMarker
\* What has been read, with the right-hand side being popped put back.
Gone    == SubSeq(Form, 1, Len(semantic) + Len(rhs))
HasRead == /\ index <= EndPlace(tokens)
           /\ Covered(parser, Word, Spans(parser, Word), Gone, 1, 1, index)
Stack   == Symbols(semantic)
StaysOpen ==
  /\ pc = "loop"   => Open(parser, Word, Stack, Len(semantic), index)
  /\ pc = "reduce" => Awaited(parser, Word, Stack, Len(semantic) - Unpopped, Producer.left, index)
  /\ pc # "rejected"
LanguageInv ==
  /\ HasEnd
  /\ parser.deterministic => /\ HasRead
                             /\ pc = "accepted" => InLanguage(parser, Word)
                             /\ InLanguage(parser, Word) => StaysOpen

\* The word ends before the first end marker.
LEMMA WordFacts ==
  ASSUME TypeOK, HasEnd
  PROVE  /\ EndPlace(tokens) \in 1 .. Len(tokens) /\ Len(tokens) \in Nat
         /\ tokens[EndPlace(tokens)].type = EndMarker
         /\ \A j \in 1 .. EndPlace(tokens) - 1 : tokens[j].type # EndMarker
         /\ Len(Word) = EndPlace(tokens) - 1 /\ Len(Word) \in Nat
         /\ \A k \in 1 .. EndPlace(tokens) - 1 : Word[k] = tokens[k].type
<1> DEFINE E == EndPlace(tokens)
           T == {k \in 1 .. Len(tokens) : tokens[k].type = EndMarker}
<1>1. Len(tokens) \in Nat /\ DOMAIN tokens = 1 .. Len(tokens) BY SequenceFacts DEF TypeOK
<1>2. PICK m \in T : \A k \in T : m <= k
  <2>1. T \in SUBSET Nat /\ T # {} BY <1>1 DEF HasEnd
  <2> HIDE DEF T
  <2> QED BY <2>1, LeastOf
<1>3. m \in DOMAIN tokens /\ tokens[m].type = EndMarker /\ \A j \in 1 .. m - 1 : tokens[j].type # EndMarker
  <2>1. m \in 1 .. Len(tokens) /\ tokens[m].type = EndMarker BY <1>2
  <2>2. ASSUME NEW j \in 1 .. m - 1 PROVE tokens[j].type # EndMarker
    <3>1. j \in 1 .. Len(tokens) /\ ~(m <= j) BY <1>1, <2>1
    <3>2. j \notin T
      <4> HIDE DEF T
      <4> QED BY <1>2, <3>1
    <3> QED BY <3>1, <3>2
  <2> QED BY <1>1, <2>1, <2>2
<1>4. /\ E \in DOMAIN tokens /\ tokens[E].type = EndMarker
      /\ \A j \in 1 .. E - 1 : tokens[j].type # EndMarker
  BY <1>3 DEF EndPlace
<1> HIDE DEF E
<1> DEFINE n == E - 1
           P == {tokens[k].type : k \in 1 .. n}
<1>5. Word = [k \in 1 .. n |-> tokens[k].type] BY DEF Word, E
<1>6. n \in Nat BY <1>1, <1>4
<1>7. Word \in [1 .. n -> P] BY <1>5
<1> HIDE DEF n, P
<1>8. Len(Word) = n BY <1>6, <1>7, SeqDef, LenProperties
<1> QED BY <1>1, <1>4, <1>5, <1>6, <1>8 DEF n, E

\* The word followed by the end marker.
At(word, e) == IF e = Len(word) + 1 THEN EndMarker ELSE word[e]

LEMMA LookIsAt ==
  ASSUME TypeOK, HasEnd, index <= EndPlace(tokens)
  PROVE  /\ index \in Places(Word) /\ index <= Len(tokens) /\ At(Word, index) = Look.type
         /\ Look.type # EndMarker => index <= Len(Word) /\ Word[index] = Look.type
         /\ Look.type = EndMarker => index = Len(Word) + 1
<1> DEFINE E == EndPlace(tokens)
<1>1. /\ E \in 1 .. Len(tokens) /\ Len(tokens) \in Nat /\ tokens[E].type = EndMarker
      /\ \A j \in 1 .. E - 1 : tokens[j].type # EndMarker
      /\ Len(Word) = E - 1 /\ Len(Word) \in Nat /\ \A k \in 1 .. E - 1 : Word[k] = tokens[k].type
  BY WordFacts
<1> HIDE DEF E
<1>2. index \in 1 .. E BY <1>1 DEF TypeOK, E
<1>3. CASE index = E BY <1>1, <1>2, <1>3 DEF At, Look, Places
<1>4. CASE index # E
  <2>1. index \in 1 .. E - 1 /\ index <= Len(Word) /\ index # Len(Word) + 1 BY <1>1, <1>2, <1>4
  <2> QED BY <1>1, <1>2, <2>1 DEF At, Look, Places
<1> QED BY <1>3, <1>4

\* What lies on the stack and what is being popped, as symbols.
LEMMA PrefixFacts ==
  ASSUME NEW stack, NEW popped, NEW ts, NEW from \in 1 .. Len(ts) + 1,
         IsSequence(stack), IsSequence(popped), IsSequence(ts)
  PROVE  LET n == Len(stack)  m == Len(popped)
             gone == SubSeq(Reading(stack, popped, ts, from), 1, n + m)
         IN  /\ IsSequence(gone) /\ Len(gone) = n + m /\ Len(gone) \in Nat
             /\ \A k \in 1 .. Len(gone) :
                  gone[k] = IF k <= n THEN stack[k].symbol ELSE popped[k - n].symbol
<1> DEFINE n == Len(stack)
           m == Len(popped)
           form == Reading(stack, popped, ts, from)
           gone == SubSeq(form, 1, n + m)
<1>1. /\ n \in Nat /\ m \in Nat /\ Len(ts) \in Nat
      /\ IsSequence(form) /\ Len(form) = n + m + Len(ts) + 1 - from
      /\ \A k \in 1 .. Len(form) :
           form[k] = IF k <= n THEN stack[k].symbol
                     ELSE IF k <= n + m THEN popped[k - n].symbol
                     ELSE ts[from + k - n - m - 1].type
  BY ReadingFacts, SequenceFacts
<1> HIDE DEF form, n, m
<1>3. n + m \in 0 .. Len(form) /\ 1 \in 1 .. Len(form) + 1 /\ 1 <= (n + m) + 1 BY <1>1
<1>4. /\ IsSequence(gone) /\ Len(gone) = (n + m) - 1 + 1
      /\ \A k \in 1 .. (n + m) - 1 + 1 : gone[k] = form[1 + k - 1]
  BY <1>1, <1>3, SubSequence
<1> HIDE DEF gone
<1>5. Len(gone) = n + m /\ (n + m) - 1 + 1 = n + m /\ n + m \in Nat BY <1>1, <1>4
<1>6. ASSUME NEW k \in 1 .. n + m PROVE gone[k] = form[k] /\ k \in 1 .. Len(form) /\ k <= n + m
  <2>1. 1 + k - 1 = k BY <1>1
  <2>2. k \in 1 .. Len(form) /\ k <= n + m BY <1>1
  <2> QED BY <1>4, <1>5, <2>1, <2>2
<1>7. ASSUME NEW k \in 1 .. n + m PROVE form[k] = IF k <= n THEN stack[k].symbol ELSE popped[k - n].symbol
  BY <1>1, <1>6
<1> QED BY <1>4, <1>5, <1>6, <1>7 DEF gone, n, m, form

LEMMA GoneFacts ==
  ASSUME TypeOK
  PROVE  /\ IsSequence(Gone) /\ Len(Gone) = Len(semantic) + Len(rhs) /\ Len(Gone) \in Nat
         /\ \A k \in 1 .. Len(Gone) :
              Gone[k] = IF k <= Len(semantic) THEN semantic[k].symbol ELSE rhs[k - Len(semantic)].symbol
<1>1. IsSequence(semantic) /\ IsSequence(rhs) /\ IsSequence(tokens) /\ index \in 1 .. Len(tokens) + 1
  BY DEF TypeOK
<1> QED BY <1>1, PrefixFacts DEF Gone, Form

LEMMA GoneFactsNext ==
  ASSUME TypeOK'
  PROVE  /\ IsSequence(Gone') /\ Len(Gone') = Len(semantic') + Len(rhs') /\ Len(Gone') \in Nat
         /\ \A k \in 1 .. Len(Gone') :
              Gone'[k] = IF k <= Len(semantic') THEN semantic'[k].symbol ELSE rhs'[k - Len(semantic')].symbol
<1>1. IsSequence(semantic') /\ IsSequence(rhs') /\ IsSequence(tokens') /\ index' \in 1 .. Len(tokens') + 1
  BY DEF TypeOK
<1> QED BY <1>1, PrefixFacts DEF Gone, Form


LEMMA TablesMean ==
  ASSUME NEW c, TablesComplete(c)
  PROVE  /\ FirstIsClosed(c, c.first) /\ HasRules(c) /\ HasProducers(c) /\ c.start \in c.nonterminals
         /\ LookaheadsClosed(c) /\ CellsComplete(c)
BY DEF TablesComplete, FirstIsClosed, HasFirst, HasRules

(***************************************************************************)
(* What has been read spells the symbols on the stack.                     *)
(***************************************************************************)
LEMMA InitHasEnd == Init => HasEnd
<1> SUFFICES ASSUME Init PROVE HasEnd OBVIOUS
<1>1. PICK sentence \in Sentences[input] : tokens = WithEnd(sentence) BY DEF Init
<1>2. IsSequence(sentence) BY <1>1, SentencesAssumption DEF Init
<1>3. CASE sentence # <<>> /\ sentence[Len(sentence)].type = EndMarker
  <2>1. tokens = sentence BY <1>1, <1>3 DEF WithEnd
  <2>2. Len(sentence) # 0 BY <1>2, <1>3, EmptySeq DEF IsSequence
  <2>3. Len(sentence) \in DOMAIN sentence BY <1>2, <2>2, SequenceFacts
  <2> QED BY <1>3, <2>1, <2>3 DEF HasEnd
<1>4. CASE ~(sentence # <<>> /\ sentence[Len(sentence)].type = EndMarker)
  <2> DEFINE e == [type |-> EndMarker, lexeme |-> NoLexeme]
             ts == Append(sentence, e)
  <2>1. tokens = ts BY <1>1, <1>4 DEF WithEnd
  <2>2. e.type = EndMarker OBVIOUS
  <2> HIDE DEF e
  <2>3. IsSequence(ts) /\ Len(ts) = Len(sentence) + 1 /\ ts[Len(sentence) + 1] = e BY <1>2, AppendSequence
  <2> HIDE DEF ts
  <2>4. Len(sentence) + 1 \in DOMAIN ts BY <1>2, <2>3, SequenceFacts
  <2> QED BY <2>1, <2>2, <2>3, <2>4 DEF HasEnd
<1> QED BY <1>3, <1>4

LEMMA InitHasRead == Init => HasRead
<1> SUFFICES ASSUME Init PROVE HasRead OBVIOUS
<1>1. TypeOK /\ HasEnd BY InitInv, InitHasEnd DEF IInv
<1>2. index = 1 /\ semantic = <<>> /\ rhs = <<>> BY DEF Init
<1>3. index \in Places(Word) /\ index <= EndPlace(tokens)
  <2>1. EndPlace(tokens) \in 1 .. Len(tokens) /\ Len(tokens) \in Nat /\ Len(Word) \in Nat BY <1>1, WordFacts
  <2> QED BY <1>2, <2>1 DEF Places
<1>4. Len(Gone) = 0 BY <1>1, <1>2, GoneFacts, EmptySequence
<1> DEFINE s == Gone
           N == Len(s)
           f == Spans(parser, Word)
           w == Word
<1>5. N = 0 /\ N \in Nat /\ index \in Places(w) BY <1>3, <1>4
<1> HIDE DEF s, f, w
<1>6. Covered(parser, w, f, s, Len(s) + 1, index, index) BY <1>5, CoveredEnd
<1>7. Len(s) + 1 = 1 BY <1>5
<1>8. Covered(parser, w, f, s, 1, 1, index) BY <1>2, <1>6, <1>7
<1> QED BY <1>3, <1>8 DEF HasRead, s, f, w

\* The next word is the same as this one.
LEMMA SameWord ==
  ASSUME UNCHANGED <<input, tokens>>
  PROVE  /\ parser' = parser /\ Word' = Word /\ EndPlace(tokens)' = EndPlace(tokens)
         /\ HasEnd' = HasEnd /\ Spans(parser, Word)' = Spans(parser, Word)
         /\ InLanguage(parser, Word)' = InLanguage(parser, Word)
<1>1. parser' = parser BY DEF parser
<1>2. EndPlace(tokens)' = EndPlace(tokens) OBVIOUS
<1>3. Word' = Word BY DEF Word
<1>4. HasEnd' = HasEnd BY DEF HasEnd
<1> QED BY <1>1, <1>2, <1>3, <1>4

LEMMA ShiftHasRead ==
  ASSUME IInv, Shift, HasEnd, TablesComplete(parser), HasRead
  PROVE  HasRead'
<1> DEFINE n == Len(semantic)
           s == Gone
           t == Gone'
           w == Word
           f == Spans(parser, Word)
<1>1. TypeOK /\ TypeOK' /\ rhs = <<>> /\ rhs' = <<>> /\ Form' = Form
  BY ShiftStep, ShiftKeepsForm DEF IInv, TypeOK, Shift, InLoop
<1>2. UNCHANGED <<input, tokens>> /\ index' = index + 1 BY DEF Shift
<1>3. Top \in StateSet(parser) BY Stacks DEF IInv
<1>4. Look.type \in DOMAIN parser.next[Top] /\ Look.type \in DOMAIN parser.action[Top]
  BY <1>1, <1>3, Sound DEF Shift, HasAction, Action, TablesSound
<1>5. Look.type # EndMarker /\ Look.type \notin parser.nonterminals
  BY <1>3, <1>4, TablesMean DEF CellsComplete
<1>6. /\ index \in Places(w) /\ index <= Len(w) /\ w[index] = Look.type
      /\ Len(w) \in Nat /\ Len(w) = EndPlace(tokens) - 1
  BY <1>1, <1>5, LookIsAt, WordFacts DEF HasRead
<1>7. /\ n \in Nat /\ IsSequence(s) /\ Len(s) = n /\ \A k \in 1 .. n : s[k] = semantic[k].symbol
  <2>1. IsSequence(s) /\ Len(s) = n + Len(rhs) /\ Len(rhs) = 0 /\ n \in Nat
    BY <1>1, GoneFacts, EmptySequence, SequenceFacts DEF TypeOK
  <2>2. Len(s) = n BY <2>1
  <2>3. ASSUME NEW k \in 1 .. n PROVE s[k] = semantic[k].symbol
    <3>1. k \in 1 .. Len(s) /\ k <= n BY <2>1, <2>2
    <3> QED BY <1>1, <3>1, GoneFacts
  <2> QED BY <2>1, <2>2, <2>3
<1>8. /\ Len(semantic') = n + 1 /\ semantic'[n + 1].symbol = Look.type
      /\ \A k \in 1 .. n : semantic'[k] = semantic[k]
  <2> DEFINE entry == [symbol |-> Look.type, lexeme |-> Look.lexeme,
                       value |-> <<[by |-> 0, lexeme |-> Look.lexeme]>>]
  <2>1. semantic' = Append(semantic, entry) /\ IsSequence(semantic) BY <1>1 DEF Shift, TypeOK
  <2>2. entry.symbol = Look.type OBVIOUS
  <2> HIDE DEF entry
  <2> QED BY <2>1, <2>2, AppendSequence
<1>9. /\ Len(t) = n + 1 /\ t[n + 1] = Look.type /\ \A k \in 1 .. n : t[k] = s[k]
  <2>1. Len(t) = (n + 1) + Len(rhs') /\ Len(rhs') = 0 BY <1>1, <1>8, GoneFactsNext, EmptySequence
  <2>2. Len(t) = n + 1 BY <1>7, <2>1
  <2>3. ASSUME NEW k \in 1 .. n + 1 PROVE t[k] = semantic'[k].symbol
    <3>1. k \in 1 .. Len(t) /\ k <= Len(semantic') BY <1>7, <1>8, <2>2
    <3> QED BY <1>1, <3>1, GoneFactsNext
  <2>4. n + 1 \in 1 .. n + 1 /\ \A k \in 1 .. n : k \in 1 .. n + 1 BY <1>7
  <2> QED BY <1>7, <1>8, <2>2, <2>3, <2>4
<1>10. Covered(parser, w, f, s, 1, 1, index) BY DEF HasRead
<1>11. index + 1 \in SymbolEnds(parser, w, f, index, t[n + 1])
  BY <1>5, <1>6, <1>9 DEF SymbolEnds
<1> HIDE DEF n, s, t, w, f
<1>12. Covered(parser, w, f, t, 1, 1, index + 1)
  <2>1. Len(s) \in Nat /\ Len(t) = Len(s) + 1 /\ \A k \in 1 .. Len(s) : t[k] = s[k] BY <1>7, <1>9
  <2>2. index + 1 \in SymbolEnds(parser, w, f, index, t[Len(s) + 1]) BY <1>7, <1>11
  <2> QED BY <1>6, <1>10, <2>1, <2>2, CoveredPush
<1>13. index + 1 <= EndPlace(tokens) BY <1>1, <1>6, WordFacts DEF Places
<1> QED BY <1>2, <1>12, <1>13, SameWord DEF HasRead, t, w, f


LEMMA PopRhsHasRead ==
  ASSUME IInv, PopRhs, HasRead
  PROVE  HasRead'
<1>1. TypeOK /\ TypeOK' /\ Form' = Form /\ UNCHANGED <<input, tokens, index>>
  BY PopRhsStep, PopRhsKeepsForm DEF IInv, PopRhs
<1>2. Len(semantic') + Len(rhs') = Len(semantic) + Len(rhs)
  <2>1. /\ Len(semantic) \in Nat /\ Len(rhs) \in Nat /\ Len(semantic') \in Nat /\ Len(rhs') \in Nat
        /\ Len(tokens) \in Nat /\ index \in Nat
    BY <1>1, SequenceFacts DEF TypeOK
  <2>2. Len(Form) = Len(semantic) + Len(rhs) + Len(tokens) + 1 - index BY <1>1, FormFacts
  <2>3. Len(Form') = Len(semantic') + Len(rhs') + Len(tokens) + 1 - index BY <1>1, FormFactsNext
  <2>4. Len(Form') = Len(Form) BY <1>1
  <2> QED BY <2>1, <2>2, <2>3, <2>4
<1>3. Gone' = Gone BY <1>1, <1>2 DEF Gone
<1> QED BY <1>1, <1>3, SameWord DEF HasRead

LEMMA PushLeftHasRead ==
  ASSUME IInv, PushLeft, HasEnd, TablesComplete(parser), HasRead
  PROVE  HasRead'
<1> DEFINE n == Len(semantic)
           right == Producer.right
           m == Len(right)
           below == Stack
           s == Gone
           t == Gone'
           w == Word
           f == Spans(parser, Word)
           g == parser
<1>1. /\ TypeOK /\ TypeOK' /\ pc = "reduce" /\ Len(rhs) = m /\ rhs' = <<>>
      /\ UNCHANGED <<input, tokens, index>>
  BY PushLeftStep DEF IInv, PushLeft
<1>2. Producer \in Elements(g.producers) /\ m \in Nat /\ n \in Nat
  BY <1>1, ProducerFacts, SequenceFacts DEF TypeOK
<1>3. \A k \in 1 .. m : rhs[k].symbol = right[k]
  <2>1. Unpopped = 0 BY <1>1, <1>2 DEF Unpopped
  <2> QED BY <1>1, <1>2, <2>1 DEF IInv, PopsOnPath
<1>4. /\ Len(semantic') = n + 1 /\ semantic'[n + 1].symbol = Producer.left
      /\ \A k \in 1 .. n : semantic'[k] = semantic[k]
  <2> DEFINE entry == [symbol |-> Producer.left, lexeme |-> FirstLexeme, value |-> Result]
  <2>1. semantic' = Append(semantic, entry) /\ IsSequence(semantic) BY <1>1, PushLeftStep DEF PushLeft, TypeOK
  <2>2. entry.symbol = Producer.left OBVIOUS
  <2> HIDE DEF entry
  <2> QED BY <2>1, <2>2, AppendSequence
<1>5. Len(below) = n /\ \A k \in 1 .. n : below[k] = semantic[k].symbol
  BY <1>1, Projections DEF TypeOK, Stack
<1>6. Len(s) = n + m /\ \A k \in 1 .. Len(s) : s[k] = IF k <= n THEN semantic[k].symbol ELSE rhs[k - n].symbol
  BY <1>1, GoneFacts
<1>7. Len(t) = n + 1 /\ t[n + 1] = Producer.left /\ \A k \in 1 .. n : t[k] = below[k]
  <2>1. Len(t) = (n + 1) + Len(rhs') /\ Len(rhs') = 0 BY <1>1, <1>4, GoneFactsNext, EmptySequence
  <2>2. Len(t) = n + 1 BY <1>2, <2>1
  <2>3. ASSUME NEW k \in 1 .. n + 1 PROVE t[k] = semantic'[k].symbol
    <3>1. k \in 1 .. Len(t) /\ k <= Len(semantic') BY <1>2, <1>4, <2>2
    <3> QED BY <1>1, <3>1, GoneFactsNext
  <2>4. n + 1 \in 1 .. n + 1 /\ \A k \in 1 .. n : k \in 1 .. n + 1 BY <1>2
  <2> QED BY <1>4, <1>5, <2>2, <2>3, <2>4
<1>8. /\ Covered(g, w, f, s, 1, 1, index) /\ index <= EndPlace(tokens) BY DEF HasRead
<1>9. Len(w) \in Nat BY <1>1, WordFacts
<1>10. HasProducers(g) /\ Producer.left \in g.nonterminals BY <1>2, TablesMean DEF HasRules
<1>11. IsSpanning(g, w, f) /\ f \subseteq LeftSpans(g, w) BY <1>9, <1>10, SpansIsLeast
<1> HIDE DEF n, m, right, below, s, t, w, f, g
<1>12. \A k \in 1 .. n : s[k] = below[k]
  <2> SUFFICES ASSUME NEW k \in 1 .. n PROVE s[k] = below[k] OBVIOUS
  <2>1. k \in 1 .. Len(s) /\ k <= n BY <1>2, <1>6
  <2> QED BY <1>5, <1>6, <2>1
<1>13. \A k \in 1 .. m : s[n + k] = right[k]
  <2> SUFFICES ASSUME NEW k \in 1 .. m PROVE s[n + k] = right[k] OBVIOUS
  <2>1. n + k \in 1 .. Len(s) /\ ~(n + k <= n) /\ (n + k) - n = k BY <1>2, <1>6
  <2> QED BY <1>3, <1>6, <2>1
<1>14. PICK i \in Places(w) : Covered(g, w, f, below, 1, 1, i) /\ Covered(g, w, f, right, 1, i, index)
  <2>1. Len(below) \in Nat /\ Len(right) \in Nat /\ Len(s) = Len(below) + Len(right) BY <1>2, <1>5, <1>6 DEF m
  <2>2. (\A k \in 1 .. Len(below) : s[k] = below[k]) /\ (\A k \in 1 .. Len(right) : s[Len(below) + k] = right[k])
    BY <1>5, <1>12, <1>13 DEF m
  <2> QED BY <1>8, <1>9, <2>1, <2>2, CoveredSplit
<1>15. index \in Places(w)
  <2>1. Len(right) \in Nat /\ 1 \in 1 .. Len(right) + 1 BY <1>2 DEF m
  <2> QED BY <1>9, <1>14, <2>1, CoveredWithin
<1>16. <<Producer.left, i, index>> \in f BY <1>2, <1>11, <1>14, <1>15 DEF IsSpanning, right
<1>17. index \in SymbolEnds(g, w, f, i, t[n + 1])
  <2>1. i <= index
    <3>1. f \in SUBSET FirstSpans(g, g.first, w) BY <1>9, SpansBegin, TablesMean DEF f, g, w
    <3>2. <<Producer.left, i, index>> \in FirstSpans(g, g.first, w) BY <1>16, <3>1
    <3> QED BY <3>2 DEF FirstSpans, BeginsSo
  <2>2. index \in i .. Len(w) + 1 BY <1>9, <1>14, <1>15, <2>1 DEF Places
  <2> QED BY <1>7, <1>10, <1>16, <2>2 DEF SymbolEnds
<1>18. Covered(g, w, f, t, 1, 1, index)
  <2>1. Len(below) \in Nat /\ Len(t) = Len(below) + 1 /\ \A k \in 1 .. Len(below) : t[k] = below[k]
    BY <1>2, <1>5, <1>7
  <2>2. index \in SymbolEnds(g, w, f, i, t[Len(below) + 1]) BY <1>5, <1>17
  <2> QED BY <1>9, <1>14, <2>1, <2>2, CoveredPush
<1> QED BY <1>1, <1>8, <1>18, SameWord DEF HasRead, t, w, f, g

\* What is accepted is a sentence.
LEMMA AcceptedIsSentence ==
  ASSUME IInv, Accept, HasEnd, TablesComplete(parser), HasRead
  PROVE  InLanguage(parser, Word)
<1> DEFINE s == Gone
           w == Word
           f == Spans(parser, Word)
           g == parser
<1>1. TypeOK /\ rhs = <<>> BY DEF IInv, TypeOK, Accept, InLoop
<1>2. Len(semantic) = 1 /\ semantic[1].symbol = g.start /\ Look.type = EndMarker BY AcceptFacts
<1>3. Len(s) = 1 /\ s[1] = g.start
  <2>1. Len(s) = 1 BY <1>1, <1>2, GoneFacts, EmptySequence
  <2>2. 1 \in 1 .. Len(s) /\ 1 <= Len(semantic) BY <1>2, <2>1
  <2> QED BY <1>1, <1>2, <2>1, <2>2, GoneFacts
<1>4. index = Len(w) + 1 BY <1>1, <1>2, LookIsAt DEF HasRead
<1>5. Len(w) \in Nat /\ g.start \in g.nonterminals BY <1>1, WordFacts, TablesMean
<1>6. Covered(g, w, f, s, 1, 1, index) BY DEF HasRead
<1> HIDE DEF s, w, f, g
<1>7. PICK m \in SymbolEnds(g, w, f, 1, s[1]) : Covered(g, w, f, s, 1 + 1, m, index)
  <2>1. Len(s) \in Nat /\ 1 \in 1 .. Len(s) BY <1>3
  <2> QED BY <1>5, <1>6, <2>1, CoveredStep
<1>8. m = index
  <2>1. Len(s) \in Nat /\ Len(s) + 1 = 1 + 1 BY <1>3
  <2>2. Covered(g, w, f, s, Len(s) + 1, m, index) BY <1>7, <2>1
  <2> QED BY <2>1, <2>2, CoveredEnd
<1>9. <<g.start, 1, Len(w) + 1>> \in f BY <1>3, <1>4, <1>5, <1>7, <1>8 DEF SymbolEnds
<1> QED BY <1>9 DEF InLanguage, f, w, g


(***************************************************************************)
(* Of a sentence, something stays open.                                    *)
(***************************************************************************)
\* The states along a path of symbols hold what is alive behind them, with what follows it as
\* the lookahead.
IsPath(c, syms, path) ==
  /\ path[1] = 0
  /\ \A k \in 1 .. Len(syms) : /\ path[k] \in StateSet(c) /\ syms[k] \in DOMAIN c.next[path[k]]
                               /\ path[k + 1] = c.next[path[k]][syms[k]]
  /\ path[Len(syms) + 1] \in StateSet(c)

LEMMA AliveIsInItsState ==
  ASSUME NEW c, TablesComplete(c), NEW word, Len(word) \in Nat, NEW syms, Len(syms) \in Nat,
         NEW path, IsPath(c, syms, path), NEW x \in Alive(c, word, syms)
  PROVE  <<x[2], At(word, x[3])>> \in c.looks[path[x[1] + 1]] /\ At(word, x[3]) \notin c.nonterminals
<1> DEFINE A == Alive(c, word, syms)
           Held(k, item, e) == <<item, At(word, e)>> \in c.looks[path[k + 1]] /\ At(word, e) \notin c.nonterminals
           Z == {y \in A : Held(y[1], y[2], y[3])}
<1>0. HasProducers(c) /\ FirstIsClosed(c, c.first) /\ LookaheadsClosed(c) BY TablesMean
<1>1. IsAlive(c, word, syms, A) /\ A \subseteq Places3(c, word, syms) BY <1>0, AliveIsLeast
<1>2. \A k \in 0 .. Len(syms) : path[k + 1] \in StateSet(c)
  <2> SUFFICES ASSUME NEW k \in 0 .. Len(syms) PROVE path[k + 1] \in StateSet(c) OBVIOUS
  <2>1. CASE k = Len(syms) BY <2>1 DEF IsPath
  <2>2. CASE k # Len(syms)
    <3>1. k + 1 \in 1 .. Len(syms) BY <2>2
    <3> QED BY <3>1 DEF IsPath
  <2> QED BY <2>1, <2>2
<1> HIDE DEF A
<1>3. <<0, StartItem(c), Len(word) + 1>> \in Z
  <2>1. EndMarker \notin c.nonterminals BY <1>0 DEF FirstIsClosed
  <2>2. At(word, Len(word) + 1) = EndMarker BY DEF At
  <2>3. path[0 + 1] = 0 BY DEF IsPath
  <2>4. Held(0, StartItem(c), Len(word) + 1) BY <1>0, <2>1, <2>2, <2>3 DEF LookaheadsClosed
  <2> HIDE DEF Held
  <2> QED BY <1>1, <2>4 DEF IsAlive
<1>4. ASSUME NEW k \in 0 .. Len(syms) - 1, NEW item \in CoreItems(c), NEW e \in Places(word),
             <<k, item, e>> \in Z, DotBefore(item, syms[k + 1])
      PROVE  <<k + 1, Advance(item), e>> \in Z
  <2>1. <<k + 1, Advance(item), e>> \in A BY <1>1, <1>4 DEF IsAlive
  <2>2. Held(k, item, e) /\ ~IsComplete(item) /\ AfterDot(item) = syms[k + 1] BY <1>4 DEF DotBefore
  <2>3. k + 1 \in 1 .. Len(syms) /\ path[k + 1] \in StateSet(c)
    <3>1. k \in 0 .. Len(syms) /\ k + 1 \in 1 .. Len(syms) OBVIOUS
    <3> QED BY <1>2, <3>1
  <2>4. path[(k + 1) + 1] = c.next[path[k + 1]][syms[k + 1]] BY <2>3 DEF IsPath
  <2> DEFINE y == <<item, At(word, e)>>
  <2>5. y \in c.looks[path[k + 1]] /\ y[1] = item /\ y[2] = At(word, e) BY <2>2
  <2>6. <<Advance(item), At(word, e)>> \in c.looks[path[(k + 1) + 1]]
    <3> HIDE DEF y
    <3> QED BY <1>0, <2>2, <2>3, <2>4, <2>5 DEF LookaheadsClosed
  <2>7. Held(k + 1, Advance(item), e) BY <2>2, <2>6
  <2> HIDE DEF Held
  <2> QED BY <2>1, <2>7
<1>5. ASSUME NEW k \in 0 .. Len(syms), NEW item \in CoreItems(c), NEW e \in Places(word), NEW m \in Places(word),
             NEW prod \in Elements(c.producers), <<k, item, e>> \in Z, DotBefore(item, prod.left),
             RestCovered(c, word, item, item.dot + 2, m, e)
      PROVE  <<k, InitialItem(prod), m>> \in Z
  <2>1. <<k, InitialItem(prod), m>> \in A BY <1>1, <1>5 DEF IsAlive
  <2>2. Held(k, item, e) /\ ~IsComplete(item) /\ AfterDot(item) = prod.left BY <1>5 DEF DotBefore
  <2>3. path[k + 1] \in StateSet(c) BY <1>2
  <2>4. InitialItem(prod) \in ClosureItems(c, item)
    <3>1. prod \in AllProductions(c) /\ prod.left \in c.nonterminals BY <1>0 DEF AllProductions, FirstIsClosed
    <3> QED BY <2>2, <3>1 DEF ClosureItems, ProductionsOf, IsNonterminal
  <2>5. item.right \in Seq(OwnSymbols(c)) /\ item.dot \in 0 .. Len(item.right) BY <1>0, CoreItemsShape
  <2>6. item.dot + 2 \in 1 .. Len(item.right) + 1 BY <2>2, <2>5 DEF IsComplete
  <2>7. SequenceBegins(c, c.first, word, item.right, item.dot + 2, m, e)
    <3> DEFINE f == Spans(c, word)
    <3>1. f \in SUBSET FirstSpans(c, c.first, word) BY <1>0, SpansBegin
    <3>2. Covered(c, word, f, item.right, item.dot + 2, m, e) BY <1>5 DEF RestCovered
    <3> HIDE DEF f
    <3> QED BY <1>0, <2>5, <2>6, <3>1, <3>2, CoverBegins
  <2>8. /\ At(word, m) \in FirstOfSequence(c.first, item.right, item.dot + 2, At(word, e))
        /\ At(word, m) \notin c.nonterminals
    <3>1. m <= e BY <2>7 DEF SequenceBegins
    <3>2. CASE m = e BY <2>2, <2>7, <3>2, SequenceFirst
    <3>3. CASE m < e
      <4>1. At(word, m) = word[m] BY <3>3 DEF At, Places
      <4>2. word[m] \in FirstOfSequence(c.first, item.right, item.dot + 2, At(word, e))
        BY <2>7, <3>3, SequenceFirst
      <4>3. word[m] \notin c.nonterminals BY <2>7, <3>3 DEF SequenceBegins
      <4> QED BY <4>1, <4>2, <4>3
    <3> QED BY <3>1, <3>2, <3>3 DEF Places
  <2>9. At(word, m) \in FollowingPredicts(c.first, item, At(word, e)) BY <2>2, <2>8 DEF FollowingPredicts
  <2> DEFINE y == <<item, At(word, e)>>
  <2>10. y \in c.looks[path[k + 1]] /\ y[1] = item /\ y[2] = At(word, e) BY <2>2
  <2>11. <<InitialItem(prod), At(word, m)>> \in c.looks[path[k + 1]]
    <3> HIDE DEF y
    <3>1. ClosureItems(c, y[1]) \X FollowingPredicts(c.first, y[1], y[2]) \subseteq c.looks[path[k + 1]]
      BY <1>0, <2>3, <2>10 DEF LookaheadsClosed
    <3> QED BY <2>4, <2>9, <2>10, <3>1
  <2>12. Held(k, InitialItem(prod), m) BY <2>8, <2>11
  <2> HIDE DEF Held
  <2> QED BY <2>1, <2>12
<1>6. x \in Z
  <2> HIDE DEF Z
  <2>1. IsAlive(c, word, syms, Z) BY <1>3, <1>4, <1>5 DEF IsAlive
  <2> QED BY <1>0, <2>1, AliveIsLeast
<1> QED BY <1>6

LEMMA StatesArePath ==
  ASSUME TypeOK, StacksAgree
  PROVE  /\ IsPath(parser, Stack, states) /\ Len(Stack) = Len(semantic) /\ Len(Stack) \in Nat
         /\ \A k \in 1 .. Len(semantic) : Stack[k] = semantic[k].symbol
<1>1. Len(Stack) = Len(semantic) /\ \A k \in 1 .. Len(semantic) : Stack[k] = semantic[k].symbol
  BY Projections DEF TypeOK, Stack
<1>2. /\ Len(semantic) \in Nat /\ Len(states) = Len(semantic) + 1
      /\ \A k \in 1 .. Len(states) : states[k] \in StateSet(parser)
  BY Stacks
<1>3. \A k \in 1 .. Len(semantic) + 1 : states[k] \in StateSet(parser) BY <1>2
<1>4. \A k \in 1 .. Len(semantic) : k \in 1 .. Len(semantic) + 1 BY <1>2
<1>5. Len(semantic) + 1 \in 1 .. Len(semantic) + 1 BY <1>2
<1> QED BY <1>1, <1>2, <1>3, <1>4, <1>5 DEF IsPath, StacksAgree

\* For an item that is ready the table has the entry that goes on with it.
LEMMA ReadyHasEntry ==
  ASSUME IInv, HasEnd, TablesComplete(parser), index <= EndPlace(tokens), pc = "loop",
         NEW item \in CoreItems(parser), NEW e \in Places(Word),
         OpenAt(parser, Word, Stack, Len(semantic), item, index, e),
         IsComplete(item) \/ AfterDot(item) \notin parser.nonterminals
  PROVE  /\ InLoop /\ HasAction
         /\ ~IsComplete(item) => Action.kind = "s" /\ AfterDot(item) = Look.type
         /\ IsComplete(item) => e = index /\ item.dot = Len(item.right)
         /\ IsComplete(item) /\ item.left = AugmentedStart => Action.kind = "acc"
         /\ IsComplete(item) /\ item.left # AugmentedStart =>
              Action.kind = "r" /\ WholeItem(parser.producers[Action.to]) = item
<1> DEFINE c == parser
           w == Word
           x == <<Len(semantic), item, e>>
<1>1. TypeOK /\ StacksAgree BY DEF IInv
<1>2. /\ index \in Places(w) /\ index <= Len(tokens) /\ At(w, index) = Look.type /\ Len(w) \in Nat
      /\ (Look.type # EndMarker => index <= Len(w) /\ w[index] = Look.type)
      /\ (Look.type = EndMarker => index = Len(w) + 1)
  BY <1>1, LookIsAt, WordFacts
<1>3. InLoop BY <1>2 DEF InLoop
<1>4. Top = states[Len(semantic) + 1] /\ Top \in StateSet(c) BY <1>1, Stacks
<1>5. HasProducers(c) /\ CellsComplete(c) BY TablesMean
<1>6. x \in Alive(c, w, Stack) /\ x[1] = Len(semantic) /\ x[2] = item /\ x[3] = e BY DEF OpenAt
<1> HIDE DEF x
<1>7. <<item, At(w, e)>> \in c.looks[Top] /\ At(w, e) \notin c.nonterminals
  <2>1. IsPath(c, Stack, states) /\ Len(Stack) \in Nat BY <1>1, StatesArePath
  <2>2. <<x[2], At(w, x[3])>> \in c.looks[states[x[1] + 1]] /\ At(w, x[3]) \notin c.nonterminals
    BY <1>2, <1>6, <2>1, AliveIsInItsState
  <2> QED BY <1>4, <1>6, <2>2
<1>8. /\ IsComplete(item) => index = e /\ item.dot = Len(item.right)
      /\ ~IsComplete(item) => index <= Len(w) /\ w[index] = AfterDot(item)
  BY <1>2, <1>5, OpenHere
<1> DEFINE y == <<item, At(w, e)>>
           wanted == IF IsComplete(item) THEN At(w, e) ELSE AfterDot(item)
<1>9. wanted = Look.type
  <2>1. CASE IsComplete(item) BY <1>2, <1>8, <2>1
  <2>2. CASE ~IsComplete(item)
    <3>1. index # Len(w) + 1 BY <1>2, <1>8, <2>2 DEF Places
    <3> QED BY <1>2, <1>8, <2>2, <3>1
  <2> QED BY <2>1, <2>2
<1>10. wanted \notin c.nonterminals BY <1>7
<1>11. y \in c.looks[Top] /\ y[1] = item /\ y[2] = At(w, e) BY <1>7
<1> HIDE DEF y, wanted, c
<1>12. /\ Look.type \in DOMAIN c.action[Top]
       /\ ~IsComplete(item) => c.action[Top][Look.type].kind = "s"
       /\ IsComplete(item) /\ item.left = AugmentedStart => c.action[Top][Look.type].kind = "acc"
       /\ IsComplete(item) /\ item.left # AugmentedStart =>
            /\ c.action[Top][Look.type].kind = "r"
            /\ WholeItem(c.producers[c.action[Top][Look.type].to]) = item
  <2>1. LET want == IF IsComplete(y[1]) THEN y[2] ELSE AfterDot(y[1])
            act  == c.action[Top][want]
        IN  want \notin c.nonterminals =>
              /\ want \in DOMAIN c.action[Top]
              /\ ~IsComplete(y[1]) => act.kind = "s"
              /\ IsComplete(y[1]) /\ y[1].left = AugmentedStart => act.kind = "acc"
              /\ IsComplete(y[1]) /\ y[1].left # AugmentedStart =>
                   act.kind = "r" /\ WholeItem(c.producers[act.to]) = y[1]
    BY <1>4, <1>5, <1>11 DEF CellsComplete
  <2>2. (IF IsComplete(y[1]) THEN y[2] ELSE AfterDot(y[1])) = Look.type BY <1>9, <1>11 DEF wanted
  <2>3. Look.type \notin c.nonterminals BY <1>9, <1>10
  <2> QED BY <1>11, <2>1, <2>2, <2>3
<1>13. Action = c.action[Top][Look.type] /\ HasAction BY <1>12 DEF Action, HasAction, c
<1>14. ~IsComplete(item) => AfterDot(item) = Look.type BY <1>9 DEF wanted
<1> QED BY <1>3, <1>8, <1>12, <1>13, <1>14 DEF c


LEMMA InitStaysOpen ==
  ASSUME Init, HasEnd, TablesComplete(parser), InLanguage(parser, Word)
  PROVE  StaysOpen
<1>1. TypeOK /\ StacksAgree BY InitInv DEF IInv
<1>2. pc = "loop" /\ index = 1 /\ Len(semantic) = 0 BY EmptySequence DEF Init
<1> DEFINE syms == Stack
           w == Word
<1>3. Len(syms) \in Nat /\ Len(w) \in Nat BY <1>1, StatesArePath, WordFacts
<1> HIDE DEF syms, w
<1>4. Open(parser, w, syms, 0, 1) BY <1>3, TablesMean, OpenAtFirst DEF w
<1> QED BY <1>2, <1>4 DEF StaysOpen, syms, w

\* Behind one entry more on the stack.
LEMMA PushedStack ==
  ASSUME TypeOK, TypeOK', NEW entry, semantic' = Append(semantic, entry)
  PROVE  /\ Len(Stack) = Len(semantic) /\ Len(Stack) \in Nat /\ Len(semantic') = Len(semantic) + 1
         /\ Len(Stack') = Len(Stack) + 1 /\ Stack'[Len(Stack) + 1] = entry.symbol
         /\ \A k \in 1 .. Len(Stack) : Stack'[k] = Stack[k]
<1> DEFINE n == Len(semantic)
<1>1. IsSequence(semantic) /\ IsSequence(semantic') BY DEF TypeOK
<1>2. /\ n \in Nat /\ Len(semantic') = n + 1 /\ semantic'[n + 1] = entry
      /\ \A k \in 1 .. n : semantic'[k] = semantic[k]
  BY <1>1, AppendSequence, SequenceFacts
<1>3. Len(Stack) = n /\ \A k \in 1 .. n : Stack[k] = semantic[k].symbol BY <1>1, Projections DEF Stack
<1>4. Len(Stack') = n + 1 /\ \A k \in 1 .. n + 1 : Stack'[k] = semantic'[k].symbol
  BY <1>1, <1>2, Projections DEF Stack
<1>5. n + 1 \in 1 .. n + 1 /\ \A k \in 1 .. n : k \in 1 .. n + 1 BY <1>2
<1> QED BY <1>2, <1>3, <1>4, <1>5

\* Something open behind the stack is ready, and the table has the entry for it.
LEMMA StackIsReady ==
  ASSUME IInv, HasEnd, TablesComplete(parser), HasRead, StaysOpen, pc = "loop"
  PROVE  \E item \in CoreItems(parser) : \E e \in Places(Word) :
           /\ OpenAt(parser, Word, Stack, Len(semantic), item, index, e)
           /\ InLoop /\ HasAction
           /\ ~IsComplete(item) => /\ Action.kind = "s" /\ AfterDot(item) = Look.type
                                   /\ RestCovered(parser, Word, item, item.dot + 2, index + 1, e)
           /\ IsComplete(item) => e = index /\ item.dot = Len(item.right)
           /\ IsComplete(item) /\ item.left = AugmentedStart => Action.kind = "acc"
           /\ IsComplete(item) /\ item.left # AugmentedStart =>
                Action.kind = "r" /\ WholeItem(parser.producers[Action.to]) = item
<1>1. TypeOK /\ StacksAgree /\ Len(Word) \in Nat /\ HasRules(parser) /\ HasProducers(parser)
  BY WordFacts, TablesMean DEF IInv
<1>2. Len(Stack) \in Nat /\ Len(semantic) \in 0 .. Len(Stack) BY <1>1, StatesArePath
<1>3. Ready(parser, Word, Stack, Len(semantic), index)
  <2>1. Open(parser, Word, Stack, Len(semantic), index) BY DEF StaysOpen
  <2> QED BY <1>1, <1>2, <2>1, OpenIsReady
<1>4. PICK item \in CoreItems(parser), e \in Places(Word) :
        /\ OpenAt(parser, Word, Stack, Len(semantic), item, index, e)
        /\ IsComplete(item) \/ AfterDot(item) \notin parser.nonterminals
  BY <1>3 DEF Ready
<1>5. index <= EndPlace(tokens) BY DEF HasRead
<1>6. /\ InLoop /\ HasAction
      /\ ~IsComplete(item) => Action.kind = "s" /\ AfterDot(item) = Look.type
      /\ IsComplete(item) => e = index /\ item.dot = Len(item.right)
      /\ IsComplete(item) /\ item.left = AugmentedStart => Action.kind = "acc"
      /\ IsComplete(item) /\ item.left # AugmentedStart =>
           Action.kind = "r" /\ WholeItem(parser.producers[Action.to]) = item
  BY <1>4, <1>5, ReadyHasEntry
<1>7. ~IsComplete(item) => RestCovered(parser, Word, item, item.dot + 2, index + 1, e)
  BY <1>1, <1>4, OpenHere
<1> QED BY <1>4, <1>6, <1>7

LEMMA ShiftStaysOpen ==
  ASSUME IInv, Shift, HasEnd, TablesComplete(parser), HasRead, StaysOpen
  PROVE  StaysOpen'
<1>1. TypeOK /\ TypeOK' /\ StacksAgree /\ pc = "loop" /\ pc' = "loop" /\ Action.kind = "s"
  BY ShiftStep DEF IInv, Shift, InLoop
<1>2. UNCHANGED <<input, tokens>> /\ index' = index + 1 BY DEF Shift
<1>3. PICK item \in CoreItems(parser), e \in Places(Word) :
        /\ OpenAt(parser, Word, Stack, Len(semantic), item, index, e)
        /\ ~IsComplete(item) => /\ Action.kind = "s" /\ AfterDot(item) = Look.type
                                /\ RestCovered(parser, Word, item, item.dot + 2, index + 1, e)
        /\ IsComplete(item) /\ item.left = AugmentedStart => Action.kind = "acc"
        /\ IsComplete(item) /\ item.left # AugmentedStart => Action.kind = "r"
  BY <1>1, StackIsReady
<1>4. ~IsComplete(item) BY <1>1, <1>3
<1> DEFINE entry == [symbol |-> Look.type, lexeme |-> Look.lexeme,
                     value |-> <<[by |-> 0, lexeme |-> Look.lexeme]>>]
           s == Stack
           t == Stack'
           n == Len(semantic)
<1>5. semantic' = Append(semantic, entry) /\ entry.symbol = Look.type BY DEF Shift
<1> HIDE DEF entry
<1>6. /\ Len(s) = n /\ Len(s) \in Nat /\ Len(semantic') = n + 1 /\ Len(t) = n + 1
      /\ t[n + 1] = Look.type /\ \A k \in 1 .. n : t[k] = s[k]
  BY <1>1, <1>5, PushedStack
<1>7. <<n, item, e>> \in Alive(parser, Word, s) BY <1>3 DEF OpenAt
<1>8. DotBefore(item, t[n + 1]) BY <1>3, <1>4, <1>6 DEF DotBefore
<1>9. HasProducers(parser) /\ Len(Word) \in Nat BY <1>1, TablesMean, WordFacts
<1>10. RestCovered(parser, Word, item, item.dot + 2, index + 1, e) BY <1>3, <1>4
<1> HIDE DEF s, t, n
<1>11. Open(parser, Word, t, n + 1, index + 1)
  <2>1. n \in 0 .. Len(s) /\ Len(t) \in Nat BY <1>6
  <2> QED BY <1>6, <1>7, <1>8, <1>9, <1>10, <2>1, MovedOver
<1> QED BY <1>1, <1>2, <1>6, <1>11, SameWord DEF StaysOpen, t

LEMMA StartReduceStaysOpen ==
  ASSUME IInv, StartReduce, HasEnd, TablesComplete(parser), HasRead, StaysOpen
  PROVE  StaysOpen'
<1>1. TypeOK /\ StacksAgree /\ pc = "loop" /\ pc' = "reduce" /\ Action.kind = "r"
  BY DEF IInv, StartReduce, InLoop
<1>2. UNCHANGED <<input, tokens, semantic, index>> /\ rhs' = <<>> /\ production' = Action.to BY DEF StartReduce
<1>3. PICK item \in CoreItems(parser), e \in Places(Word) :
        /\ OpenAt(parser, Word, Stack, Len(semantic), item, index, e)
        /\ ~IsComplete(item) => Action.kind = "s"
        /\ IsComplete(item) => e = index /\ item.dot = Len(item.right)
        /\ IsComplete(item) /\ item.left = AugmentedStart => Action.kind = "acc"
        /\ IsComplete(item) /\ item.left # AugmentedStart => WholeItem(parser.producers[Action.to]) = item
  BY <1>1, StackIsReady
<1>4. IsComplete(item) /\ item.left # AugmentedStart BY <1>1, <1>3
<1> DEFINE prod == parser.producers[Action.to]
           x == <<Len(semantic), item, e>>
<1>5. item.left = prod.left /\ item.right = prod.right /\ item.dot = Len(prod.right) /\ e = index
  BY <1>3, <1>4 DEF WholeItem
<1>6. x \in Alive(parser, Word, Stack) /\ x[1] = Len(semantic) /\ x[2] = item /\ x[3] = e BY <1>3 DEF OpenAt
<1> HIDE DEF x, prod
<1>7. Awaited(parser, Word, Stack, Len(semantic) - item.dot, item.left, e)
  <2>1. Len(Word) \in Nat /\ Len(Stack) \in Nat /\ HasRules(parser) BY <1>1, StatesArePath, WordFacts, TablesMean
  <2> QED BY <1>4, <1>6, <2>1, ItemIsAwaited
<1>8. parser' = parser /\ Word' = Word /\ Stack' = Stack /\ Producer' = prod
  BY <1>2, SameWord DEF Stack, Producer, prod, parser
<1>9. Unpopped' = item.dot
  <2>1. Len(rhs') = 0 /\ Unpopped' = Len(prod.right) - Len(rhs') BY <1>2, <1>8, EmptySequence DEF Unpopped
  <2>2. item.dot \in Int
    <3>1. item.dot \in 0 .. Len(item.right) BY TablesMean, CoreItemsShape
    <3> QED BY <3>1
  <2> QED BY <1>5, <2>1, <2>2
<1> QED BY <1>1, <1>2, <1>5, <1>7, <1>8, <1>9 DEF StaysOpen


LEMMA PopRhsStaysOpen ==
  ASSUME IInv, PopRhs, HasEnd, TablesComplete(parser), StaysOpen
  PROVE  StaysOpen'
<1> DEFINE n == Len(semantic)
           s == Stack
           t == Stack'
           k == n - Unpopped
           A == Producer.left
           w == Word
<1>1. /\ TypeOK /\ TypeOK' /\ StacksAgree /\ pc = "reduce" /\ pc' = "reduce" /\ IInv' /\ semantic # <<>>
      /\ UNCHANGED <<input, tokens, index, production>>
  BY PopRhsStep DEF IInv, PopRhs
<1>2. rhs' = <<semantic[n]>> \o rhs /\ semantic' = SubSeq(semantic, 1, n - 1) BY <1>1 DEF PopRhs
<1>3. parser' = parser /\ Word' = w /\ Producer' = Producer BY <1>1, SameWord DEF Producer, parser
<1>4. /\ Len(Producer.right) \in Nat /\ Len(rhs) \in Nat /\ Len(rhs') \in Nat /\ n \in Nat
      /\ Len(rhs') <= Len(Producer.right)
  <2>1. Len(Producer'.right) \in Nat /\ Len(rhs') \in Nat /\ Len(rhs') <= Len(Producer'.right)
    BY <1>1, <1>3, SequenceFacts DEF IInv, PopsOnPath, TypeOK
  <2> QED BY <1>1, <1>3, <2>1, ProducerFacts, SequenceFacts DEF TypeOK
<1>5. Len(rhs') = Len(rhs) + 1
  <2> DEFINE one == <<semantic[n]>>
             more == one \o rhs
  <2>1. IsSequence(one) /\ Len(one) = 1 BY Singleton
  <2> HIDE DEF one
  <2>2. IsSequence(rhs) BY <1>1 DEF TypeOK
  <2>3. Len(more) = Len(one) + Len(rhs) BY <2>1, <2>2, Concatenation
  <2>4. rhs' = more BY <1>2 DEF one
  <2> HIDE DEF more
  <2> QED BY <1>4, <2>1, <2>3, <2>4
<1>6. n >= 1 BY <1>1, <1>4, EmptySeq DEF TypeOK, IsSequence
<1>7. Len(semantic') = n - 1 /\ \A l \in 1 .. n - 1 : semantic'[l] = semantic[l]
  <2> DEFINE shorter == SubSeq(semantic, 1, n - 1)
  <2>1. IsSequence(semantic) /\ 1 \in 1 .. n + 1 /\ n - 1 \in 0 .. n /\ 1 <= (n - 1) + 1
    BY <1>1, <1>4, <1>6 DEF TypeOK
  <2>2. /\ Len(shorter) = (n - 1) - 1 + 1
        /\ \A l \in 1 .. (n - 1) - 1 + 1 : shorter[l] = semantic[1 + l - 1]
    BY <2>1, SubSequence
  <2>3. semantic' = shorter BY <1>2
  <2> HIDE DEF shorter
  <2> QED BY <1>4, <2>2, <2>3
<1>8. Unpopped' = Unpopped - 1 /\ Unpopped' \in Nat /\ Unpopped \in Int BY <1>3, <1>4, <1>5 DEF Unpopped
<1>9. Len(semantic') - Unpopped' = k /\ k <= n - 1 BY <1>4, <1>7, <1>8
<1>10. /\ Len(s) = n /\ Len(t) = n - 1 /\ \A l \in 1 .. n - 1 : t[l] = s[l]
  <2>1. Len(s) = n /\ \A l \in 1 .. n : s[l] = semantic[l].symbol BY <1>1, Projections DEF TypeOK, Stack
  <2>2. Len(t) = n - 1 /\ \A l \in 1 .. n - 1 : t[l] = semantic'[l].symbol
    BY <1>1, <1>7, Projections DEF TypeOK, Stack
  <2>3. \A l \in 1 .. n - 1 : l \in 1 .. n BY <1>4
  <2> QED BY <1>7, <2>1, <2>2, <2>3
<1>11. HasProducers(parser) /\ Len(w) \in Nat BY <1>1, TablesMean, WordFacts
<1> HIDE DEF s, t, w, A
<1>12. PICK item \in CoreItems(parser), e \in Places(w) :
         /\ <<k, item, e>> \in Alive(parser, w, s) /\ DotBefore(item, A)
         /\ RestCovered(parser, w, item, item.dot + 2, index, e)
  BY <1>1 DEF StaysOpen, Awaited, s, w, A
<1>13. k \in 0 .. n
  <2>1. <<k, item, e>> \in Places3(parser, w, s)
    <3>1. Len(s) \in Nat BY <1>4, <1>10
    <3> QED BY <1>11, <1>12, <3>1, AliveIsLeast
  <2> QED BY <1>10, <2>1 DEF Places3
<1> DEFINE x == <<k, item, e>>
<1>14. x \in Alive(parser, w, s) /\ x[1] = k BY <1>12
<1> HIDE DEF x, k, n
<1>15. x \in Alive(parser, w, t)
  <2>1. k \in Nat /\ k <= Len(t) /\ Len(t) \in Nat /\ Len(s) \in Nat /\ x[1] <= k
    BY <1>4, <1>6, <1>9, <1>10, <1>13, <1>14
  <2>2. \A l \in 1 .. k : l <= Len(s) => t[l] = s[l]
    <3>1. \A l \in 1 .. k : l \in 1 .. n - 1 BY <1>4, <1>9, <1>13
    <3> QED BY <1>10, <3>1
  <2> QED BY <1>11, <1>14, <2>1, <2>2, AliveBelow
<1>16. Awaited(parser, w, t, k, A, index) BY <1>12, <1>15 DEF Awaited, x
<1> QED BY <1>1, <1>3, <1>9, <1>16 DEF StaysOpen, t, w, A

LEMMA PushLeftStaysOpen ==
  ASSUME IInv, PushLeft, HasEnd, TablesComplete(parser), StaysOpen
  PROVE  StaysOpen'
<1> DEFINE n == Len(semantic)
           s == Stack
           t == Stack'
           A == Producer.left
           w == Word
           entry == [symbol |-> Producer.left, lexeme |-> FirstLexeme, value |-> Result]
<1>1. /\ TypeOK /\ TypeOK' /\ StacksAgree /\ pc = "reduce" /\ pc' = "loop" /\ Len(rhs) = Len(Producer.right)
      /\ UNCHANGED <<input, tokens, index>> /\ semantic' = Append(semantic, entry)
  BY PushLeftStep DEF IInv, PushLeft
<1>2. entry.symbol = A OBVIOUS
<1> HIDE DEF entry
<1>3. n - Unpopped = n
  <2>1. Len(Producer.right) \in Nat /\ n \in Nat BY <1>1, ProducerFacts, SequenceFacts DEF TypeOK
  <2>2. Unpopped = 0 BY <1>1, <2>1 DEF Unpopped
  <2> QED BY <2>1, <2>2
<1>4. /\ Len(s) = n /\ Len(s) \in Nat /\ Len(semantic') = n + 1 /\ Len(t) = n + 1
      /\ t[n + 1] = A /\ \A k \in 1 .. n : t[k] = s[k]
  BY <1>1, <1>2, PushedStack
<1>5. HasProducers(parser) /\ Len(w) \in Nat BY <1>1, TablesMean, WordFacts
<1> HIDE DEF s, t, w, A, n
<1>6. PICK item \in CoreItems(parser), e \in Places(w) :
        /\ <<n, item, e>> \in Alive(parser, w, s) /\ DotBefore(item, A)
        /\ RestCovered(parser, w, item, item.dot + 2, index, e)
  <2>1. Awaited(parser, w, s, n, A, index) BY <1>1, <1>3 DEF StaysOpen, s, w, A, n
  <2> QED BY <2>1 DEF Awaited
<1>7. DotBefore(item, t[n + 1]) BY <1>4, <1>6
<1>8. Open(parser, w, t, n + 1, index)
  <2>1. n \in 0 .. Len(s) /\ Len(t) \in Nat BY <1>4
  <2> QED BY <1>4, <1>5, <1>6, <1>7, <2>1, MovedOver
<1> QED BY <1>1, <1>4, <1>8, SameWord DEF StaysOpen, t, w

\* A sentence is not rejected.
LEMMA SentenceGoesOn ==
  ASSUME IInv, HasEnd, TablesComplete(parser), HasRead, StaysOpen
  PROVE  ~Reject
<1> SUFFICES ASSUME Reject PROVE FALSE OBVIOUS
<1>1. pc = "loop" BY DEF Reject
<1>2. InLoop /\ HasAction /\ Action.kind \in {"s", "r", "acc"}
  <2>1. PICK item \in CoreItems(parser), e \in Places(Word) :
          /\ InLoop /\ HasAction
          /\ ~IsComplete(item) => Action.kind = "s"
          /\ IsComplete(item) /\ item.left = AugmentedStart => Action.kind = "acc"
          /\ IsComplete(item) /\ item.left # AugmentedStart => Action.kind = "r"
    BY <1>1, StackIsReady
  <2> QED BY <2>1
<1> QED BY <1>2 DEF Reject

(***************************************************************************)
(* The invariant.                                                          *)
(***************************************************************************)
LEMMA LanguageStarts == Init => LanguageInv
<1> SUFFICES ASSUME Init PROVE LanguageInv OBVIOUS
<1>1. HasEnd /\ HasRead /\ pc # "accepted" BY InitHasEnd, InitHasRead DEF Init
<1>2. parser.deterministic /\ InLanguage(parser, Word) => StaysOpen
  <2>1. parser.deterministic => TablesComplete(parser) BY DeterministicAssumption DEF Init, parser
  <2> QED BY <1>1, <2>1, InitStaysOpen
<1> QED BY <1>1, <1>2 DEF LanguageInv

LEMMA LanguageStep ==
  ASSUME IInv, LanguageInv, [Next]_vars
  PROVE  LanguageInv'
<1>1. UNCHANGED <<input, tokens>>
  BY DEF Next, vars, Shift, StartReduce, PopRhs, PushLeft, Accept, Reject
<1>2. /\ parser' = parser /\ Word' = Word /\ HasEnd' = HasEnd
      /\ InLanguage(parser, Word)' = InLanguage(parser, Word)
  BY <1>1, SameWord
<1>3. HasEnd BY DEF LanguageInv
<1> SUFFICES ASSUME parser.deterministic
             PROVE  /\ HasRead'
                    /\ pc' = "accepted" => InLanguage(parser, Word)
                    /\ InLanguage(parser, Word) => StaysOpen'
  BY <1>2, <1>3 DEF LanguageInv
<1>4. TablesComplete(parser) BY DeterministicAssumption DEF IInv, TypeOK, parser
<1>5. /\ HasRead /\ (pc = "accepted" => InLanguage(parser, Word))
      /\ InLanguage(parser, Word) => StaysOpen
  BY DEF LanguageInv
<1>6. CASE Shift
  <2>1. HasRead' BY <1>3, <1>4, <1>5, <1>6, ShiftHasRead
  <2>2. pc' = "loop" BY <1>6 DEF Shift, InLoop
  <2>3. InLanguage(parser, Word) => StaysOpen' BY <1>3, <1>4, <1>5, <1>6, ShiftStaysOpen
  <2> QED BY <2>1, <2>2, <2>3
<1>7. CASE StartReduce
  <2>1. HasRead'
    <3>1. rhs = <<>> /\ rhs' = rhs /\ UNCHANGED <<semantic, index, tokens>>
      BY <1>7 DEF IInv, TypeOK, StartReduce, InLoop
    <3>2. Gone' = Gone BY <3>1 DEF Gone, Form
    <3> QED BY <1>1, <1>2, <1>5, <3>1, <3>2, SameWord DEF HasRead
  <2>2. pc' = "reduce" BY <1>7 DEF StartReduce
  <2>3. InLanguage(parser, Word) => StaysOpen' BY <1>3, <1>4, <1>5, <1>7, StartReduceStaysOpen
  <2> QED BY <2>1, <2>2, <2>3
<1>8. CASE PopRhs
  <2>1. HasRead' BY <1>5, <1>8, PopRhsHasRead
  <2>2. pc' = "reduce" BY <1>8, PopRhsStep DEF PopRhs
  <2>3. InLanguage(parser, Word) => StaysOpen' BY <1>3, <1>4, <1>5, <1>8, PopRhsStaysOpen
  <2> QED BY <2>1, <2>2, <2>3
<1>9. CASE PushLeft
  <2>1. HasRead' BY <1>3, <1>4, <1>5, <1>9, PushLeftHasRead
  <2>2. pc' = "loop" BY <1>9, PushLeftStep
  <2>3. InLanguage(parser, Word) => StaysOpen' BY <1>3, <1>4, <1>5, <1>9, PushLeftStaysOpen
  <2> QED BY <2>1, <2>2, <2>3
<1>10. CASE Accept
  <2>1. UNCHANGED <<semantic, rhs, index, tokens>> /\ pc' = "accepted" BY <1>10 DEF Accept
  <2>2. Gone' = Gone BY <2>1 DEF Gone, Form
  <2>3. HasRead' BY <1>1, <1>2, <1>5, <2>1, <2>2, SameWord DEF HasRead
  <2>4. InLanguage(parser, Word) BY <1>3, <1>4, <1>5, <1>10, AcceptedIsSentence
  <2> QED BY <2>1, <2>3, <2>4 DEF StaysOpen
<1>11. CASE Reject
  <2>1. UNCHANGED <<semantic, rhs, index, tokens>> /\ pc' = "rejected" BY <1>11 DEF Reject
  <2>2. Gone' = Gone BY <2>1 DEF Gone, Form
  <2>3. HasRead' BY <1>1, <1>2, <1>5, <2>1, <2>2, SameWord DEF HasRead
  <2>4. ~InLanguage(parser, Word) BY <1>3, <1>4, <1>5, <1>11, SentenceGoesOn
  <2> QED BY <2>1, <2>3, <2>4
<1>12. CASE UNCHANGED vars
  <2>1. UNCHANGED <<input, tokens, states, semantic, scopes, index, pc, production, rhs>> BY <1>12 DEF vars
  <2>2. Gone' = Gone BY <2>1 DEF Gone, Form
  <2>3. HasRead' BY <1>1, <1>2, <1>5, <2>1, <2>2, SameWord DEF HasRead
  <2>4. Stack' = Stack /\ Producer' = Producer BY <2>1 DEF Stack, Producer, parser
  <2>5. Unpopped' = Unpopped BY <2>1, <2>4 DEF Unpopped
  <2>6. StaysOpen' = StaysOpen BY <1>2, <2>1, <2>4, <2>5 DEF StaysOpen
  <2> QED BY <1>5, <2>1, <2>3, <2>6
<1> QED BY <1>6, <1>7, <1>8, <1>9, <1>10, <1>11, <1>12 DEF Next

\* Without conflicts in its table, yyparse answers true exactly for the sentences of the
\* grammar, for every such grammar and every input.
THEOREM DecidesLanguage == Spec => []AcceptsLanguage
<1>1. LanguageInv => AcceptsLanguage
  <2> SUFFICES ASSUME LanguageInv, parser.deterministic, pc \in {"accepted", "rejected"}
               PROVE  pc = "accepted" <=> InLanguage(parser, Word)
    BY DEF AcceptsLanguage
  <2>1. (pc = "accepted" => InLanguage(parser, Word)) /\ (InLanguage(parser, Word) => pc # "rejected")
    BY DEF LanguageInv, StaysOpen
  <2> QED BY <2>1
<1> QED BY <1>1, LanguageStarts, LanguageStep, Inductive, PTL DEF Spec

-----------------------------------------------------------------------------
(***************************************************************************)
(* Sequences of sequences, one behind the other.                           *)
(***************************************************************************)
\* h holds what the first so many sequences of ss amount to.
Rolls(h, ss, T) ==
  /\ h \in [0 .. Len(ss) -> Seq(T)] /\ h[0] = <<>>
  /\ \A i \in 1 .. Len(ss) : h[i] = h[i - 1] \o ss[i]

LEMMA RollExists ==
  ASSUME NEW T, NEW ss \in Seq(Seq(T))
  PROVE  \E h : Rolls(h, ss, T)
<1> DEFINE N == Len(ss)
           D == Seq(T)
           st == [i \in 1 .. N |-> [x \in D |-> x \o ss[i]]]
<1>1. N \in Nat /\ \A i \in 1 .. N : ss[i] \in D BY LenProperties
<1>2. \A i \in 1 .. N : \A x \in D : x \o ss[i] \in D BY <1>1, ConcatProperties
<1>3. <<>> \in D BY EmptySeq
<1> HIDE DEF D
<1>4. st \in [1 .. N -> [D -> D]] BY <1>2
<1>5. \A i \in 1 .. N : \A x \in D : st[i][x] = x \o ss[i] OBVIOUS
<1> HIDE DEF st, N
<1>6. AreSteps(st, N, D) BY <1>1, <1>4 DEF AreSteps
<1>7. PICK h : NextStep(h, <<>>, st, N, D) BY <1>3, <1>6, StepsExist
<1>8. h \in [0 .. N -> D] /\ h[0] = <<>> /\ \A i \in 1 .. N : h[i] = st[i][h[i - 1]] BY <1>7 DEF NextStep
<1>9. ASSUME NEW i \in 1 .. N PROVE h[i] = h[i - 1] \o ss[i]
  <2>1. i - 1 \in 0 .. N BY <1>1
  <2> QED BY <1>5, <1>8, <2>1
<1> QED BY <1>8, <1>9 DEF Rolls, N, D

LEMMA FlattenIs ==
  ASSUME NEW T, NEW ss \in Seq(Seq(T)), NEW h, Rolls(h, ss, T)
  PROVE  Lists!FlattenSeq(ss) = h[Len(ss)] /\ Lists!FlattenSeq(ss) \in Seq(T)
<1> DEFINE N == Len(ss)
           flatten == CHOOSE f : f = [i \in 1 .. N |-> IF i = 1 THEN ss[i] ELSE f[i - 1] \o ss[i]]
<1>1. Lists!FlattenSeq(ss) = IF N = 0 THEN ss ELSE flatten[N] BY DEF Lists!FlattenSeq
<1>2. /\ N \in Nat /\ \A i \in 1 .. N : ss[i] \in Seq(T)
      /\ N = 0 => ss = <<>>
  BY LenProperties, EmptySeq
<1>3. /\ h \in [0 .. N -> Seq(T)] /\ h[0] = <<>>
      /\ \A i \in 1 .. N : h[i] = h[i - 1] \o ss[i]
  BY DEF Rolls
<1> HIDE DEF N
<1>4. ASSUME NEW i \in 1 .. N PROVE h[i] = IF i = 1 THEN ss[i] ELSE h[i - 1] \o ss[i]
  <2>1. CASE i = 1
    <3>1. h[i] = h[i - 1] \o ss[i] BY <1>3
    <3>2. i - 1 = 0 BY <2>1
    <3>3. <<>> \o ss[i] = ss[i] BY <1>2, ConcatEmptySeq
    <3> QED BY <1>3, <2>1, <3>1, <3>2, <3>3
  <2>2. CASE i # 1 BY <1>3, <2>2
  <2> QED BY <2>1, <2>2
<1> DEFINE k == [i \in 1 .. N |-> h[i]]
<1>5. k = [i \in 1 .. N |-> IF i = 1 THEN ss[i] ELSE k[i - 1] \o ss[i]]
  <2>1. ASSUME NEW i \in 1 .. N PROVE h[i] = IF i = 1 THEN ss[i] ELSE k[i - 1] \o ss[i]
    <3>1. CASE i = 1 BY <1>4, <3>1
    <3>2. CASE i # 1
      <4>1. i - 1 \in 1 .. N BY <1>2, <3>2
      <4>2. k[i - 1] = h[i - 1] BY <4>1
      <4> QED BY <1>4, <3>2, <4>2
    <3> QED BY <3>1, <3>2
  <2> QED BY <2>1
<1> HIDE DEF k
<1>6. flatten = [i \in 1 .. N |-> IF i = 1 THEN ss[i] ELSE flatten[i - 1] \o ss[i]] BY <1>5
<1> HIDE DEF flatten
<1>7. \A i \in 1 .. N : flatten[i] = IF i = 1 THEN ss[i] ELSE flatten[i - 1] \o ss[i] BY <1>6
<1> DEFINE Wrong == {i \in 1 .. N : flatten[i] # h[i]}
<1>8. Wrong = {}
  <2> SUFFICES ASSUME Wrong # {} PROVE FALSE OBVIOUS
  <2>1. Wrong \in SUBSET Nat BY <1>2
  <2>2. PICK m \in Wrong : \A i \in Wrong : m <= i
    <3> HIDE DEF Wrong
    <3> QED BY <2>1, LeastOf
  <2>3. m \in 1 .. N /\ flatten[m] # h[m] BY <2>2
  <2>4. m # 1 BY <1>4, <1>7, <2>3
  <2>5. m - 1 \in 1 .. N /\ ~(m <= m - 1) BY <1>2, <2>3, <2>4
  <2>6. flatten[m - 1] = h[m - 1] BY <2>2, <2>5
  <2> QED BY <1>4, <1>7, <2>3, <2>4, <2>6
<1>9. CASE N = 0 BY <1>1, <1>2, <1>3, <1>9 DEF N
<1>10. CASE N # 0
  <2>1. N \in 1 .. N /\ N \in 0 .. N BY <1>2, <1>10
  <2>2. flatten[N] = h[N] BY <1>8, <2>1
  <2>3. h[N] \in Seq(T) BY <1>3, <2>1
  <2>4. Lists!FlattenSeq(ss) = h[N] BY <1>1, <1>10, <2>2
  <2> QED BY <2>3, <2>4 DEF N
<1> QED BY <1>9, <1>10

LEMMA FlattenConcat ==
  ASSUME NEW T, NEW ss \in Seq(Seq(T)), NEW tt \in Seq(Seq(T))
  PROVE  Lists!FlattenSeq(ss \o tt) = Lists!FlattenSeq(ss) \o Lists!FlattenSeq(tt)
<1> DEFINE m == Len(ss)
           n == Len(tt)
           st == ss \o tt
<1>1. PICK h : Rolls(h, ss, T) BY RollExists
<1>2. PICK g : Rolls(g, tt, T) BY RollExists
<1>3. /\ m \in Nat /\ n \in Nat /\ st \in Seq(Seq(T)) /\ Len(st) = m + n
      /\ \A i \in 1 .. m + n : st[i] = IF i <= m THEN ss[i] ELSE tt[i - m]
  BY LenProperties, ConcatProperties
<1>4. \A i \in 1 .. n : tt[i] \in Seq(T) BY LenProperties
<1>5. /\ Lists!FlattenSeq(ss) = h[m] /\ Lists!FlattenSeq(tt) = g[n] BY <1>1, <1>2, FlattenIs
<1>6. /\ h \in [0 .. m -> Seq(T)] /\ h[0] = <<>> /\ \A i \in 1 .. m : h[i] = h[i - 1] \o ss[i]
      /\ g \in [0 .. n -> Seq(T)] /\ g[0] = <<>> /\ \A i \in 1 .. n : g[i] = g[i - 1] \o tt[i]
  BY <1>1, <1>2 DEF Rolls
<1> HIDE DEF m, n, st
<1> DEFINE k == [i \in 0 .. m + n |-> IF i <= m THEN h[i] ELSE h[m] \o g[i - m]]
<1>7. \A i \in 0 .. m : i \in 0 .. m + n /\ k[i] = h[i]
  <2> TAKE i \in 0 .. m
  <2>1. i \in 0 .. m + n /\ i <= m BY <1>3
  <2> QED BY <2>1
<1>8. h[m] \in Seq(T) BY <1>3, <1>6
<1>9. \A i \in 0 .. n : m + i \in 0 .. m + n /\ k[m + i] = h[m] \o g[i]
  <2> SUFFICES ASSUME NEW i \in 0 .. n PROVE m + i \in 0 .. m + n /\ k[m + i] = h[m] \o g[i] OBVIOUS
  <2>1. m + i \in 0 .. m + n /\ (m + i) - m = i /\ (m + i <= m <=> i = 0) BY <1>3
  <2>2. CASE i = 0
    <3>1. k[m + i] = h[m] BY <1>3, <1>7, <2>2
    <3>2. h[m] \o <<>> = h[m] BY <1>8, ConcatEmptySeq
    <3> QED BY <1>6, <2>1, <2>2, <3>1, <3>2
  <2>3. CASE i # 0 BY <2>1, <2>3
  <2> QED BY <2>2, <2>3
<1>10. k \in [0 .. m + n -> Seq(T)]
  <2>1. ASSUME NEW i \in 0 .. m + n PROVE (IF i <= m THEN h[i] ELSE h[m] \o g[i - m]) \in Seq(T)
    <3>1. CASE i <= m
      <4>1. i \in 0 .. m BY <1>3, <3>1
      <4> QED BY <1>6, <3>1, <4>1
    <3>2. CASE ~(i <= m)
      <4>1. i - m \in 0 .. n BY <1>3, <3>2
      <4>2. g[i - m] \in Seq(T) BY <1>6, <4>1
      <4> QED BY <1>8, <3>2, <4>2, ConcatProperties
    <3> QED BY <3>1, <3>2
  <2> QED BY <2>1
<1> HIDE DEF k
<1>11. ASSUME NEW i \in 1 .. m + n PROVE k[i] = k[i - 1] \o st[i]
  <2>1. CASE i <= m
    <3>1. i \in 1 .. m /\ i \in 0 .. m /\ i - 1 \in 0 .. m BY <1>3, <2>1
    <3> QED BY <1>3, <1>6, <1>7, <2>1, <3>1
  <2>2. CASE ~(i <= m)
    <3> DEFINE j == i - m
    <3>1. j \in 1 .. n /\ j \in 0 .. n /\ j - 1 \in 0 .. n /\ m + j = i /\ m + (j - 1) = i - 1
      BY <1>3, <2>2
    <3>2. st[i] = tt[j] BY <1>3, <2>2
    <3> HIDE DEF j
    <3>3. k[i] = h[m] \o g[j] /\ k[i - 1] = h[m] \o g[j - 1] BY <1>9, <3>1
    <3>4. g[j] = g[j - 1] \o tt[j] /\ g[j - 1] \in Seq(T) /\ tt[j] \in Seq(T) BY <1>4, <1>6, <3>1
    <3> DEFINE x == h[m]
               y == g[j - 1]
               z == tt[j]
    <3>5. x \in Seq(T) /\ y \in Seq(T) /\ z \in Seq(T) BY <1>8, <3>4
    <3>6. k[i] = x \o (y \o z) /\ k[i - 1] \o st[i] = (x \o y) \o z BY <3>2, <3>3, <3>4
    <3> HIDE DEF x, y, z
    <3> QED BY <3>5, <3>6, ConcatAssociative
  <2> QED BY <2>1, <2>2
<1>12. k[0] = <<>>
  <2>1. 0 \in 0 .. m BY <1>3
  <2> QED BY <1>6, <1>7, <2>1
<1>13. Rolls(k, st, T) BY <1>3, <1>10, <1>11, <1>12 DEF Rolls
<1>14. Lists!FlattenSeq(st) = k[m + n] BY <1>3, <1>13, FlattenIs
<1>15. k[m + n] = h[m] \o g[n]
  <2>1. n \in 0 .. n BY <1>3
  <2> QED BY <1>9, <2>1
<1> QED BY <1>5, <1>14, <1>15 DEF st

LEMMA FlattenOne ==
  ASSUME NEW T, NEW s \in Seq(T)
  PROVE  Lists!FlattenSeq(<<s>>) = s
<1> DEFINE ss == <<s>>
<1>1. ss \in Seq(Seq(T)) /\ Len(ss) = 1 /\ ss[1] = s OBVIOUS
<1> HIDE DEF ss
<1>2. PICK h : Rolls(h, ss, T) BY <1>1, RollExists
<1>3. h[0] = <<>> /\ h[1] = h[0] \o s
  <2>1. h[0] = <<>> /\ \A i \in 1 .. 1 : h[i] = h[i - 1] \o ss[i] BY <1>1, <1>2 DEF Rolls
  <2>2. 1 \in 1 .. 1 /\ 1 - 1 = 0 OBVIOUS
  <2>3. h[1] = h[1 - 1] \o ss[1] BY <2>1, <2>2
  <2> QED BY <1>1, <2>1, <2>2, <2>3
<1>4. <<>> \o s = s BY ConcatEmptySeq
<1>5. Lists!FlattenSeq(ss) = h[1] BY <1>1, <1>2, FlattenIs
<1> QED BY <1>3, <1>4, <1>5 DEF ss

LEMMA FlattenNone == Lists!FlattenSeq(<<>>) = <<>>
BY EmptySequence DEF Lists!FlattenSeq

(***************************************************************************)
(* Terms and their lexemes.                                                *)
(***************************************************************************)
Values(entries) == [k \in DOMAIN entries |-> entries[k].value]
Valued(entries) == IsSequence(entries) /\ \A k \in 1 .. Len(entries) : IsSequence(entries[k].value)

LEMMA ValuesIn ==
  ASSUME NEW s, Valued(s), NEW T, \A k \in 1 .. Len(s) : Elements(s[k].value) \subseteq T
  PROVE  /\ Values(s) \in Seq(Seq(T)) /\ Len(Values(s)) = Len(s)
         /\ \A k \in 1 .. Len(s) : Values(s)[k] = s[k].value
<1>1. Len(s) \in Nat /\ DOMAIN s = 1 .. Len(s) BY SequenceFacts DEF Valued
<1>2. ASSUME NEW k \in 1 .. Len(s) PROVE s[k].value \in Seq(T)
  <2> DEFINE v == s[k].value
  <2>1. v \in Seq(Elements(v)) /\ Elements(v) \subseteq T BY DEF Valued, IsSequence
  <2> HIDE DEF v
  <2>2. v \in Seq(T) BY <2>1, SeqMonotonic
  <2> QED BY <2>2 DEF v
<1>3. Values(s) \in [1 .. Len(s) -> Seq(T)] BY <1>1, <1>2 DEF Values
<1>4. Values(s) \in Seq(Seq(T)) /\ Len(Values(s)) = Len(s) BY <1>1, <1>3, SeqDef
<1> QED BY <1>1, <1>4 DEF Values

LEMMA TermsConcat ==
  ASSUME NEW s, NEW t, Valued(s), Valued(t)
  PROVE  /\ Terms(s \o t) = Terms(s) \o Terms(t) /\ Valued(s \o t)
         /\ IsSequence(Terms(s)) /\ IsSequence(Terms(t))
<1> DEFINE P == UNION {Elements(s[k].value) : k \in 1 .. Len(s)}
           Q == UNION {Elements(t[k].value) : k \in 1 .. Len(t)}
           T == P \cup Q
           st == s \o t
           m == Len(s)
           n == Len(t)
<1>1. m \in Nat /\ n \in Nat /\ IsSequence(s) /\ IsSequence(t) BY SequenceFacts DEF Valued
<1>2. /\ IsSequence(st) /\ Len(st) = m + n
      /\ \A k \in 1 .. m + n : st[k] = IF k <= m THEN s[k] ELSE t[k - m]
  BY <1>1, Concatenation
<1>3. (\A k \in 1 .. m : Elements(s[k].value) \subseteq T) /\ (\A k \in 1 .. n : Elements(t[k].value) \subseteq T)
  <2>1. ASSUME NEW k \in 1 .. m PROVE Elements(s[k].value) \subseteq T
    <3>1. Elements(s[k].value) \in {Elements(s[j].value) : j \in 1 .. m} OBVIOUS
    <3>2. Elements(s[k].value) \subseteq P BY <3>1
    <3> HIDE DEF P, Q
    <3> QED BY <3>2
  <2>2. ASSUME NEW k \in 1 .. n PROVE Elements(t[k].value) \subseteq T
    <3>1. Elements(t[k].value) \in {Elements(t[j].value) : j \in 1 .. n} OBVIOUS
    <3>2. Elements(t[k].value) \subseteq Q BY <3>1
    <3> HIDE DEF P, Q
    <3> QED BY <3>2
  <2> QED BY <2>1, <2>2
<1> HIDE DEF T, st
<1>4. /\ Values(s) \in Seq(Seq(T)) /\ Len(Values(s)) = m
      /\ \A k \in 1 .. m : Values(s)[k] = s[k].value
  BY <1>3, ValuesIn
<1>5. /\ Values(t) \in Seq(Seq(T)) /\ Len(Values(t)) = n
      /\ \A k \in 1 .. n : Values(t)[k] = t[k].value
  BY <1>3, ValuesIn
<1> HIDE DEF m, n
<1>6. ASSUME NEW k \in 1 .. m + n
      PROVE  /\ k <= m => k \in 1 .. m /\ st[k].value = s[k].value
             /\ ~(k <= m) => k - m \in 1 .. n /\ st[k].value = t[k - m].value
  BY <1>1, <1>2
<1>7. Valued(st) /\ \A k \in 1 .. m + n : Elements(st[k].value) \subseteq T
  <2>1. /\ \A k \in 1 .. m : IsSequence(s[k].value)
        /\ \A k \in 1 .. n : IsSequence(t[k].value)
    BY DEF Valued, m, n
  <2>2. ASSUME NEW k \in 1 .. m + n PROVE IsSequence(st[k].value) /\ Elements(st[k].value) \subseteq T
    <3>1. CASE k <= m BY <1>3, <1>6, <2>1, <3>1
    <3>2. CASE ~(k <= m) BY <1>3, <1>6, <2>1, <3>2
    <3> QED BY <3>1, <3>2
  <2> QED BY <1>2, <2>2 DEF Valued
<1>8. /\ Values(st) \in Seq(Seq(T)) /\ Len(Values(st)) = m + n
      /\ \A k \in 1 .. m + n : Values(st)[k] = st[k].value
  <2>1. \A k \in 1 .. Len(st) : Elements(st[k].value) \subseteq T BY <1>2, <1>7
  <2>2. /\ Values(st) \in Seq(Seq(T)) /\ Len(Values(st)) = Len(st)
        /\ \A k \in 1 .. Len(st) : Values(st)[k] = st[k].value
    BY <1>7, <2>1, ValuesIn
  <2> QED BY <1>2, <2>2
<1> DEFINE a == Values(s)
           b == Values(t)
           c == Values(st)
<1>9. /\ a \in Seq(Seq(T)) /\ b \in Seq(Seq(T)) /\ c \in Seq(Seq(T))
      /\ Len(a) = m /\ Len(b) = n /\ Len(c) = m + n
      /\ \A k \in 1 .. m : a[k] = s[k].value
      /\ \A k \in 1 .. n : b[k] = t[k].value
      /\ \A k \in 1 .. m + n : c[k] = st[k].value
  BY <1>4, <1>5, <1>8
<1> HIDE DEF a, b, c
<1>10. c = a \o b
  <2> DEFINE ab == a \o b
  <2>1. /\ ab \in Seq(Seq(T)) /\ Len(ab) = Len(a) + Len(b)
        /\ \A k \in 1 .. Len(a) + Len(b) : ab[k] = IF k <= Len(a) THEN a[k] ELSE b[k - Len(a)]
    BY <1>9, ConcatProperties
  <2> HIDE DEF ab
  <2>2. ASSUME NEW k \in 1 .. m + n PROVE c[k] = ab[k]
    <3>1. CASE k <= m BY <1>6, <1>9, <2>1, <3>1
    <3>2. CASE ~(k <= m) BY <1>6, <1>9, <2>1, <3>2
    <3> QED BY <3>1, <3>2
  <2>3. c = ab BY <1>9, <2>1, <2>2, SeqEqual
  <2> QED BY <2>3 DEF ab
<1>11. Lists!FlattenSeq(c) = Lists!FlattenSeq(a) \o Lists!FlattenSeq(b) BY <1>9, <1>10, FlattenConcat
<1>12. Lists!FlattenSeq(a) \in Seq(T) /\ Lists!FlattenSeq(b) \in Seq(T)
  <2>1. PICK h : Rolls(h, a, T) BY <1>9, RollExists
  <2>2. PICK g : Rolls(g, b, T) BY <1>9, RollExists
  <2> QED BY <1>9, <2>1, <2>2, FlattenIs
<1>13. Terms(s) = Lists!FlattenSeq(a) /\ Terms(t) = Lists!FlattenSeq(b) /\ Terms(st) = Lists!FlattenSeq(c)
  BY DEF Terms, Values, a, b, c
<1>14. IsSequence(Terms(s)) /\ IsSequence(Terms(t)) BY <1>12, <1>13, SequenceOf
<1>15. Terms(st) = Terms(s) \o Terms(t) BY <1>11, <1>13
<1> QED BY <1>7, <1>14, <1>15 DEF st

LEMMA TermsOne ==
  ASSUME NEW e, IsSequence(e.value)
  PROVE  Valued(<<e>>) /\ Terms(<<e>>) = e.value
<1>1. IsSequence(<<e>>) /\ Len(<<e>>) = 1 /\ <<e>>[1] = e BY Singleton
<1>2. \A k \in 1 .. Len(<<e>>) : <<e>>[k] = e BY <1>1
<1>3. Valued(<<e>>) BY <1>1, <1>2 DEF Valued
<1>4. [k \in DOMAIN <<e>> |-> <<e>>[k].value] = <<e.value>> OBVIOUS
<1>5. Lists!FlattenSeq(<<e.value>>) = e.value BY FlattenOne DEF IsSequence
<1> QED BY <1>3, <1>4, <1>5 DEF Terms

LEMMA TermsNone == Valued(<<>>) /\ Terms(<<>>) = <<>>
<1>1. [k \in DOMAIN <<>> |-> <<>>[k].value] = <<>> OBVIOUS
<1>2. Terms(<<>>) = <<>> BY <1>1, FlattenNone DEF Terms
<1> QED BY <1>2, EmptySequence DEF Valued

Lexemes(term) == [k \in DOMAIN term |-> IF term[k].by = 0 THEN <<term[k].lexeme>> ELSE <<>>]

LEMMA LexemesIn ==
  ASSUME NEW s, IsSequence(s), NEW T, \A k \in 1 .. Len(s) : s[k].lexeme \in T
  PROVE  /\ Lexemes(s) \in Seq(Seq(T)) /\ Len(Lexemes(s)) = Len(s)
         /\ \A k \in 1 .. Len(s) : Lexemes(s)[k] = IF s[k].by = 0 THEN <<s[k].lexeme>> ELSE <<>>
<1>1. Len(s) \in Nat /\ DOMAIN s = 1 .. Len(s) BY SequenceFacts
<1>2. ASSUME NEW k \in 1 .. Len(s)
      PROVE  (IF s[k].by = 0 THEN <<s[k].lexeme>> ELSE <<>>) \in Seq(T)
  <2>1. s[k].lexeme \in T OBVIOUS
  <2>2. <<s[k].lexeme>> \in Seq(T) BY <2>1
  <2>3. <<>> \in Seq(T) BY EmptySeq
  <2> QED BY <2>2, <2>3
<1>3. Lexemes(s) \in [1 .. Len(s) -> Seq(T)] BY <1>1, <1>2 DEF Lexemes
<1>4. Lexemes(s) \in Seq(Seq(T)) /\ Len(Lexemes(s)) = Len(s) BY <1>1, <1>3, SeqDef
<1> QED BY <1>1, <1>4 DEF Lexemes

LEMMA YieldConcat ==
  ASSUME NEW s, NEW t, IsSequence(s), IsSequence(t)
  PROVE  /\ Yield(s \o t) = Yield(s) \o Yield(t)
         /\ IsSequence(Yield(s)) /\ IsSequence(Yield(t))
<1> DEFINE T == {s[k].lexeme : k \in 1 .. Len(s)} \cup {t[k].lexeme : k \in 1 .. Len(t)}
           st == s \o t
           m == Len(s)
           n == Len(t)
<1>1. m \in Nat /\ n \in Nat BY SequenceFacts
<1>2. /\ IsSequence(st) /\ Len(st) = m + n
      /\ \A k \in 1 .. m + n : st[k] = IF k <= m THEN s[k] ELSE t[k - m]
  BY <1>1, Concatenation
<1>3. (\A k \in 1 .. m : s[k].lexeme \in T) /\ (\A k \in 1 .. n : t[k].lexeme \in T)
  OBVIOUS
<1> HIDE DEF T, st
<1>4. /\ Lexemes(s) \in Seq(Seq(T)) /\ Len(Lexemes(s)) = m
      /\ \A k \in 1 .. m : Lexemes(s)[k] = IF s[k].by = 0 THEN <<s[k].lexeme>> ELSE <<>>
  BY <1>3, LexemesIn
<1>5. /\ Lexemes(t) \in Seq(Seq(T)) /\ Len(Lexemes(t)) = n
      /\ \A k \in 1 .. n : Lexemes(t)[k] = IF t[k].by = 0 THEN <<t[k].lexeme>> ELSE <<>>
  BY <1>3, LexemesIn
<1> HIDE DEF m, n
<1>6. ASSUME NEW k \in 1 .. m + n
      PROVE  /\ k <= m => k \in 1 .. m /\ st[k] = s[k]
             /\ ~(k <= m) => k - m \in 1 .. n /\ st[k] = t[k - m]
  BY <1>1, <1>2
<1>7. \A k \in 1 .. m + n : st[k].lexeme \in T
  <2> TAKE k \in 1 .. m + n
  <2>1. CASE k <= m BY <1>3, <1>6, <2>1
  <2>2. CASE ~(k <= m) BY <1>3, <1>6, <2>2
  <2> QED BY <2>1, <2>2
<1>8. /\ Lexemes(st) \in Seq(Seq(T)) /\ Len(Lexemes(st)) = m + n
      /\ \A k \in 1 .. m + n : Lexemes(st)[k] = IF st[k].by = 0 THEN <<st[k].lexeme>> ELSE <<>>
  <2>1. \A k \in 1 .. Len(st) : st[k].lexeme \in T BY <1>2, <1>7
  <2>2. /\ Lexemes(st) \in Seq(Seq(T)) /\ Len(Lexemes(st)) = Len(st)
        /\ \A k \in 1 .. Len(st) : Lexemes(st)[k] = IF st[k].by = 0 THEN <<st[k].lexeme>> ELSE <<>>
    BY <1>2, <2>1, LexemesIn
  <2> QED BY <1>2, <2>2
<1> DEFINE a == Lexemes(s)
           b == Lexemes(t)
           c == Lexemes(st)
           ab == a \o b
<1>9. /\ a \in Seq(Seq(T)) /\ b \in Seq(Seq(T)) /\ c \in Seq(Seq(T))
      /\ Len(a) = m /\ Len(b) = n /\ Len(c) = m + n
  BY <1>4, <1>5, <1>8
<1>10. /\ ab \in Seq(Seq(T)) /\ Len(ab) = Len(a) + Len(b)
       /\ \A k \in 1 .. Len(a) + Len(b) : ab[k] = IF k <= Len(a) THEN a[k] ELSE b[k - Len(a)]
  <2> HIDE DEF a, b
  <2> QED BY <1>9, ConcatProperties
<1>11. ASSUME NEW k \in 1 .. m + n PROVE c[k] = ab[k]
  <2>1. CASE k <= m
    <3>1. c[k] = a[k] BY <1>4, <1>6, <1>8, <2>1
    <3>2. ab[k] = a[k]
      <4> HIDE DEF a, b, ab
      <4> QED BY <1>9, <1>10, <2>1
    <3> QED BY <3>1, <3>2
  <2>2. CASE ~(k <= m)
    <3>1. c[k] = b[k - m] BY <1>5, <1>6, <1>8, <2>2
    <3>2. ab[k] = b[k - m]
      <4> HIDE DEF a, b, ab
      <4> QED BY <1>9, <1>10, <2>2
    <3> QED BY <3>1, <3>2
  <2> QED BY <2>1, <2>2
<1> HIDE DEF a, b, c
<1>12. c = a \o b
  <2> HIDE DEF ab
  <2>1. c = ab BY <1>9, <1>10, <1>11, SeqEqual
  <2> QED BY <2>1 DEF ab
<1>13. Lists!FlattenSeq(c) = Lists!FlattenSeq(a) \o Lists!FlattenSeq(b) BY <1>9, <1>12, FlattenConcat
<1>14. Lists!FlattenSeq(a) \in Seq(T) /\ Lists!FlattenSeq(b) \in Seq(T)
  <2>1. PICK h : Rolls(h, a, T) BY <1>9, RollExists
  <2>2. PICK g : Rolls(g, b, T) BY <1>9, RollExists
  <2> QED BY <1>9, <2>1, <2>2, FlattenIs
<1>15. Yield(s) = Lists!FlattenSeq(a) /\ Yield(t) = Lists!FlattenSeq(b) /\ Yield(st) = Lists!FlattenSeq(c)
  BY DEF Yield, Lexemes, a, b, c
<1>16. IsSequence(Yield(s)) /\ IsSequence(Yield(t)) BY <1>14, <1>15, SequenceOf
<1>17. Yield(st) = Yield(s) \o Yield(t) BY <1>13, <1>15
<1> QED BY <1>16, <1>17 DEF st

LEMMA YieldOne ==
  ASSUME NEW mark
  PROVE  Yield(<<mark>>) = IF mark.by = 0 THEN <<mark.lexeme>> ELSE <<>>
<1> DEFINE l == IF mark.by = 0 THEN <<mark.lexeme>> ELSE <<>>
<1>1. [k \in DOMAIN <<mark>> |-> IF <<mark>>[k].by = 0 THEN <<<<mark>>[k].lexeme>> ELSE <<>>] = <<l>> OBVIOUS
<1>2. l \in Seq({mark.lexeme})
  <2>1. <<mark.lexeme>> \in Seq({mark.lexeme}) OBVIOUS
  <2>2. <<>> \in Seq({mark.lexeme}) BY EmptySeq
  <2> QED BY <2>1, <2>2
<1> HIDE DEF l
<1>3. Lists!FlattenSeq(<<l>>) = l BY <1>2, FlattenOne
<1> QED BY <1>1, <1>3 DEF Yield, l

LEMMA YieldNone == Yield(<<>>) = <<>>
<1>1. [k \in DOMAIN <<>> |-> IF <<>>[k].by = 0 THEN <<<<>>[k].lexeme>> ELSE <<>>] = <<>> OBVIOUS
<1> QED BY <1>1, FlattenNone DEF Yield

-----------------------------------------------------------------------------
(***************************************************************************)
(* The values on the stack and those being popped hold the lexemes shifted *)
(* so far, in input order.                                                 *)
(***************************************************************************)
Shifted == [k \in 1 .. index - 1 |-> tokens[k].lexeme]

ValuesInv == Valued(semantic) /\ Valued(rhs) /\ ValuesInOrder

LEMMA AppendIsOne ==
  ASSUME NEW s, IsSequence(s), NEW e
  PROVE  Append(s, e) = s \o <<e>>
<1> DEFINE T == Elements(s) \cup {e}
<1>1. s \in Seq(T) BY SeqMonotonic DEF IsSequence
<1>2. e \in T OBVIOUS
<1> HIDE DEF T
<1> QED BY <1>1, <1>2, AppendIsConcat

LEMMA NothingBehind ==
  ASSUME NEW s, IsSequence(s)
  PROVE  s \o <<>> = s /\ <<>> \o s = s
BY ConcatEmptySeq DEF IsSequence

\* What lies on the stack and what is popped, apart.
LEMMA ValuesApart ==
  ASSUME Valued(semantic), Valued(rhs)
  PROVE  /\ Yield(Terms(semantic \o rhs)) = Yield(Terms(semantic)) \o Yield(Terms(rhs))
         /\ IsSequence(Terms(semantic)) /\ IsSequence(Terms(rhs))
         /\ IsSequence(Yield(Terms(semantic))) /\ IsSequence(Yield(Terms(rhs)))
<1>1. /\ Terms(semantic \o rhs) = Terms(semantic) \o Terms(rhs)
      /\ IsSequence(Terms(semantic)) /\ IsSequence(Terms(rhs))
  BY TermsConcat
<1> QED BY <1>1, YieldConcat

\* A push onto the stack while nothing is popped adds the lexemes of the new value.
LEMMA PushedValues ==
  ASSUME Valued(semantic), NEW e, IsSequence(e.value)
  PROVE  /\ Valued(Append(semantic, e))
         /\ Yield(Terms(Append(semantic, e) \o <<>>)) = Yield(Terms(semantic)) \o Yield(e.value)
<1>1. Valued(<<e>>) /\ Terms(<<e>>) = e.value BY TermsOne
<1>2. Append(semantic, e) = semantic \o <<e>> BY AppendIsOne DEF Valued
<1>3. /\ Terms(semantic \o <<e>>) = Terms(semantic) \o Terms(<<e>>) /\ Valued(semantic \o <<e>>)
      /\ IsSequence(Terms(semantic))
  BY <1>1, TermsConcat
<1>4. IsSequence(semantic \o <<e>>) BY <1>3 DEF Valued
<1>5. (semantic \o <<e>>) \o <<>> = semantic \o <<e>> BY <1>4, NothingBehind
<1>6. Yield(Terms(semantic) \o e.value) = Yield(Terms(semantic)) \o Yield(e.value) BY <1>3, YieldConcat
<1> QED BY <1>1, <1>2, <1>3, <1>5, <1>6

LEMMA ShiftKeepsValues ==
  ASSUME IInv, ValuesInv, Shift
  PROVE  ValuesInv'
<1> DEFINE entry == [symbol |-> Look.type, lexeme |-> Look.lexeme,
                     value |-> <<[by |-> 0, lexeme |-> Look.lexeme]>>]
           mark == [by |-> 0, lexeme |-> Look.lexeme]
<1>1. /\ semantic' = Append(semantic, entry) /\ rhs = <<>> /\ index' = index + 1
      /\ UNCHANGED <<input, tokens, rhs>> /\ index \in 1 .. Len(tokens) /\ Len(tokens) \in Nat
  <2>1. Len(tokens) \in Nat BY SequenceFacts DEF IInv, TypeOK
  <2> QED BY <2>1 DEF IInv, TypeOK, Shift, InLoop
<1>2. entry.value = <<mark>> /\ mark.by = 0 /\ mark.lexeme = tokens[index].lexeme BY DEF Look
<1> HIDE DEF entry, mark
<1>3. IsSequence(entry.value) BY <1>2, Singleton
<1>4. Valued(semantic) /\ Valued(rhs) /\ ValuesInOrder BY DEF ValuesInv
<1>5. /\ Valued(semantic')
      /\ Yield(Terms(semantic' \o <<>>)) = Yield(Terms(semantic)) \o Yield(entry.value)
  BY <1>1, <1>3, <1>4, PushedValues
<1>6. Yield(entry.value) = <<tokens[index].lexeme>> BY <1>2, YieldOne
<1>7. ASSUME NoValueDropped PROVE Yield(Terms(semantic' \o rhs')) = Shifted'
  <2>1. Yield(Terms(semantic)) = Shifted
    <3>1. semantic \o <<>> = semantic BY <1>4, NothingBehind DEF Valued
    <3> QED BY <1>1, <1>4, <1>7, <3>1 DEF ValuesInOrder, Shifted
  <2> DEFINE one == <<tokens[index].lexeme>>
             n == index - 1
  <2>2. n \in Nat /\ index = n + 1 BY <1>1
  <2>3. IsSequence(Shifted) /\ Len(Shifted) = n /\ \A k \in 1 .. n : Shifted[k] = tokens[k].lexeme
    <3>1. Shifted \in [1 .. n -> {tokens[k].lexeme : k \in 1 .. n}] BY DEF Shifted
    <3>2. Shifted \in Seq({tokens[k].lexeme : k \in 1 .. n}) /\ Len(Shifted) = n BY <2>2, <3>1, SeqDef
    <3> QED BY <3>2, SequenceOf DEF Shifted
  <2>4. IsSequence(Shifted') /\ Len(Shifted') = n + 1 /\ \A k \in 1 .. n + 1 : Shifted'[k] = tokens[k].lexeme
    <3>1. Shifted' = [k \in 1 .. n + 1 |-> tokens[k].lexeme]
      <4>1. index' - 1 = n + 1 BY <1>1, <2>2
      <4> HIDE DEF n
      <4> QED BY <1>1, <4>1 DEF Shifted
    <3> DEFINE f == [k \in 1 .. n + 1 |-> tokens[k].lexeme]
    <3>2. f \in [1 .. n + 1 -> {tokens[k].lexeme : k \in 1 .. n + 1}] OBVIOUS
    <3>3. f \in Seq({tokens[k].lexeme : k \in 1 .. n + 1}) /\ Len(f) = n + 1 BY <2>2, <3>2, SeqDef
    <3> QED BY <3>1, <3>3, SequenceOf
  <2> DEFINE after == Shifted'
             more == Shifted \o one
  <2>5. IsSequence(one) /\ Len(one) = 1 /\ one[1] = tokens[index].lexeme BY Singleton
  <2> HIDE DEF one
  <2>6. /\ IsSequence(more) /\ Len(more) = n + 1
        /\ \A k \in 1 .. n + 1 : more[k] = IF k <= n THEN Shifted[k] ELSE one[k - n]
    <3>1. /\ IsSequence(more) /\ Len(more) = Len(Shifted) + Len(one)
          /\ \A k \in 1 .. Len(Shifted) + Len(one) : more[k] = IF k <= Len(Shifted) THEN Shifted[k] ELSE one[k - Len(Shifted)]
      BY <2>3, <2>5, Concatenation
    <3> HIDE DEF more
    <3> QED BY <2>3, <2>5, <3>1
  <2>7. IsSequence(after) /\ Len(after) = n + 1 /\ \A k \in 1 .. n + 1 : after[k] = tokens[k].lexeme BY <2>4
  <2> HIDE DEF more, after, n
  <2>8. ASSUME NEW k \in 1 .. n + 1 PROVE more[k] = after[k]
    <3>1. CASE k <= n
      <4>1. k \in 1 .. n BY <2>2, <3>1
      <4> QED BY <2>3, <2>6, <2>7, <3>1, <4>1
    <3>2. CASE ~(k <= n)
      <4>1. k = index /\ k - n = 1 BY <2>2, <3>2
      <4> QED BY <2>5, <2>6, <2>7, <3>2, <4>1
    <3> QED BY <3>1, <3>2
  <2>9. more = after BY <2>6, <2>7, <2>8, EqualSequences
  <2>10. more = Yield(Terms(semantic)) \o Yield(entry.value) BY <1>6, <2>1 DEF more, one
  <2> QED BY <1>1, <1>5, <2>9, <2>10 DEF after
<1>8. NoValueDropped' = NoValueDropped BY <1>1 DEF NoValueDropped, parser
<1>9. ValuesInOrder' BY <1>7, <1>8 DEF ValuesInOrder, Shifted
<1> QED BY <1>1, <1>4, <1>5, <1>9 DEF ValuesInv

\* A pop moves a value from one stack to the other.
LEMMA PopRhsKeepsValues ==
  ASSUME IInv, ValuesInv, PopRhs
  PROVE  ValuesInv'
<1> DEFINE n == Len(semantic)
           last == semantic[n]
           below == SubSeq(semantic, 1, n - 1)
<1>1. /\ semantic' = below /\ rhs' = <<last>> \o rhs /\ semantic # <<>>
      /\ UNCHANGED <<input, tokens, index>>
  BY PopRhsStep DEF PopRhs
<1>2. Valued(semantic) /\ Valued(rhs) /\ ValuesInOrder BY DEF ValuesInv
<1>3. IsSequence(semantic) /\ n \in Nat /\ n # 0 /\ \A k \in 1 .. n : IsSequence(semantic[k].value)
  <2>1. semantic \in Seq(Elements(semantic)) BY <1>2 DEF Valued, IsSequence
  <2> QED BY <1>1, <1>2, <2>1, EmptySeq DEF Valued
<1>4. /\ IsSequence(below) /\ Len(below) = n - 1
      /\ \A k \in 1 .. n - 1 : below[k] = semantic[k]
  <2>1. 1 \in 1 .. n + 1 /\ n - 1 \in 0 .. n /\ 1 <= (n - 1) + 1 /\ (n - 1) - 1 + 1 = n - 1 BY <1>3
  <2>2. /\ IsSequence(below) /\ Len(below) = (n - 1) - 1 + 1
        /\ \A k \in 1 .. (n - 1) - 1 + 1 : below[k] = semantic[1 + k - 1]
    BY <1>3, <2>1, SubSequence
  <2> HIDE DEF below, n
  <2>3. Len(below) = n - 1 /\ \A k \in 1 .. n - 1 : below[k] = semantic[1 + k - 1] BY <2>1, <2>2
  <2>4. ASSUME NEW k \in 1 .. n - 1 PROVE below[k] = semantic[k]
    <3>1. 1 + k - 1 = k BY <1>3
    <3> QED BY <2>3, <3>1
  <2> QED BY <2>2, <2>3, <2>4
<1> HIDE DEF below
<1>5. IsSequence(last.value) BY <1>3
<1> HIDE DEF last
<1>6. Valued(<<last>>) BY <1>5, TermsOne
<1>7. Valued(below)
  <2>1. \A k \in 1 .. n - 1 : k \in 1 .. n BY <1>3
  <2> QED BY <1>3, <1>4, <2>1 DEF Valued
<1>8. Valued(rhs') BY <1>1, <1>2, <1>6, TermsConcat
<1>9. below \o (<<last>> \o rhs) = semantic \o rhs
  <2> DEFINE T == Elements(below) \cup {last} \cup Elements(rhs)
             one == <<last>>
  <2>1. below \in Seq(T) /\ rhs \in Seq(T)
    <3>1. below \in Seq(Elements(below)) /\ rhs \in Seq(Elements(rhs)) BY <1>2, <1>4 DEF Valued, IsSequence
    <3> QED BY <3>1, SeqMonotonic
  <2>2. one \in Seq(T) OBVIOUS
  <2>3. IsSequence(one) /\ Len(one) = 1 /\ one[1] = last BY Singleton
  <2> HIDE DEF T, one
  <2>4. (below \o one) \o rhs = below \o (one \o rhs) BY <2>1, <2>2, ConcatAssociative
  <2>5. below \o one = semantic
    <3> DEFINE whole == below \o one
    <3>1. /\ IsSequence(whole) /\ Len(whole) = Len(below) + Len(one)
          /\ \A k \in 1 .. Len(below) + Len(one) : whole[k] = IF k <= Len(below) THEN below[k] ELSE one[k - Len(below)]
      BY <1>4, <2>3, Concatenation
    <3> HIDE DEF whole, n
    <3>2. Len(whole) = n /\ \A k \in 1 .. n : whole[k] = IF k <= n - 1 THEN below[k] ELSE one[k - (n - 1)]
      BY <1>3, <1>4, <2>3, <3>1
    <3>3. ASSUME NEW k \in 1 .. n PROVE whole[k] = semantic[k]
      <4>1. CASE k <= n - 1
        <5>1. k \in 1 .. n - 1 BY <1>3, <4>1
        <5> QED BY <1>4, <3>2, <4>1, <5>1
      <4>2. CASE ~(k <= n - 1)
        <5>1. k = n /\ k - (n - 1) = 1 BY <1>3, <4>2
        <5> QED BY <2>3, <3>2, <4>2, <5>1 DEF last
      <4> QED BY <4>1, <4>2
    <3>4. whole = semantic
      <4>1. Len(whole) = Len(semantic) /\ \A k \in 1 .. Len(whole) : whole[k] = semantic[k] BY <3>2, <3>3 DEF n
      <4> QED BY <1>3, <3>1, <4>1, EqualSequences
    <3> QED BY <3>4 DEF whole
  <2> QED BY <2>4, <2>5 DEF one
<1>10. NoValueDropped' = NoValueDropped /\ Shifted' = Shifted BY <1>1 DEF NoValueDropped, parser, Shifted
<1>11. ValuesInOrder' BY <1>1, <1>2, <1>9, <1>10 DEF ValuesInOrder, Shifted
<1> QED BY <1>1, <1>7, <1>8, <1>11 DEF ValuesInv

\* The value of a left-hand side holds the lexemes of its right-hand side.
LEMMA ResultKeepsLexemes ==
  ASSUME IInv, Valued(rhs), pc = "reduce", Len(rhs) = Len(Producer.right)
  PROVE  /\ IsSequence(Result)
         /\ NoValueDropped => Yield(Result) = Yield(Terms(rhs))
<1> DEFINE mark == Applied
<1>1. IsSequence(rhs) /\ Len(rhs) \in Nat /\ \A k \in 1 .. Len(rhs) : IsSequence(rhs[k].value)
  BY SequenceFacts DEF Valued
<1>2. IsSequence(Terms(rhs)) BY TermsNone, TermsConcat
<1>3. mark.by # 0 BY DEF Applied, IInv, TypeOK
<1> HIDE DEF mark
<1>4. CASE production \in parser.acting
  <2>1. Result = Terms(rhs) \o <<mark>> BY <1>4 DEF Result, mark
  <2>2. IsSequence(<<mark>>) /\ Yield(<<mark>>) = <<>> BY <1>3, Singleton, YieldOne
  <2>3. IsSequence(Terms(rhs) \o <<mark>>) BY <1>2, <2>2, Concatenation
  <2>4. /\ Yield(Terms(rhs) \o <<mark>>) = Yield(Terms(rhs)) \o Yield(<<mark>>)
        /\ IsSequence(Yield(Terms(rhs)))
    BY <1>2, <2>2, YieldConcat
  <2>5. Yield(Terms(rhs)) \o <<>> = Yield(Terms(rhs)) BY <2>4, NothingBehind
  <2> QED BY <2>1, <2>2, <2>3, <2>4, <2>5
<1>5. CASE production \notin parser.acting /\ rhs # <<>>
  <2>1. Result = rhs[1].value BY <1>5 DEF Result
  <2>2. Len(rhs) # 0 BY <1>1, <1>5, EmptySeq DEF IsSequence
  <2>3. 1 \in 1 .. Len(rhs) BY <1>1, <2>2
  <2>4. IsSequence(rhs[1].value) BY <1>1, <2>3
  <2>5. ASSUME NoValueDropped PROVE Terms(rhs) = rhs[1].value
    <3>1. production \in DOMAIN parser.producers
      <4>1. IsSequence(parser.producers) BY Sound DEF IInv, TablesSound
      <4>2. production \in 1 .. Len(parser.producers) BY DEF IInv, PopsOnPath
      <4> QED BY <4>1, <4>2, SequenceFacts
    <3>2. ~(Len(Producer.right) > 1) BY <1>5, <2>5, <3>1 DEF NoValueDropped, Producer
    <3>3. Len(rhs) = 1
      <4> DEFINE l == Len(rhs)
      <4>1. ~(l > 1) /\ l \in Nat /\ l # 0 BY <1>1, <2>2, <3>2
      <4> HIDE DEF l
      <4>2. l = 1 BY <4>1
      <4> QED BY <4>2 DEF l
    <3> DEFINE one == <<rhs[1]>>
    <3>4. IsSequence(one) /\ Len(one) = 1 /\ one[1] = rhs[1] BY Singleton
    <3>5. \A k \in 1 .. Len(rhs) : rhs[k] = one[k] BY <3>3, <3>4
    <3>6. rhs = one
      <4> HIDE DEF one
      <4> QED BY <1>1, <3>3, <3>4, <3>5, EqualSequences
    <3>7. Terms(one) = rhs[1].value BY <2>4, TermsOne
    <3> QED
      <4> HIDE DEF one
      <4>1. Terms(rhs) = Terms(one) BY <3>6
      <4> QED BY <3>7, <4>1
  <2> QED BY <2>1, <2>4, <2>5
<1>6. CASE production \notin parser.acting /\ rhs = <<>>
  <2>1. Result = <<>> BY <1>6 DEF Result
  <2> QED BY <1>6, <2>1, TermsNone, EmptySequence
<1> QED BY <1>4, <1>5, <1>6

LEMMA PushLeftKeepsValues ==
  ASSUME IInv, ValuesInv, PushLeft
  PROVE  ValuesInv'
<1> DEFINE entry == [symbol |-> Producer.left, lexeme |-> FirstLexeme, value |-> Result]
<1>1. /\ semantic' = Append(semantic, entry) /\ rhs' = <<>>
      /\ UNCHANGED <<input, tokens, index>> /\ pc = "reduce" /\ Len(rhs) = Len(Producer.right)
  BY PushLeftStep DEF PushLeft
<1>2. Valued(semantic) /\ Valued(rhs) /\ ValuesInOrder BY DEF ValuesInv
<1>3. IsSequence(Result) /\ (NoValueDropped => Yield(Result) = Yield(Terms(rhs)))
  BY <1>1, <1>2, ResultKeepsLexemes
<1>4. entry.value = Result OBVIOUS
<1> HIDE DEF entry
<1>5. /\ Valued(semantic')
      /\ Yield(Terms(semantic' \o <<>>)) = Yield(Terms(semantic)) \o Yield(Result)
  BY <1>1, <1>2, <1>3, <1>4, PushedValues
<1>6. NoValueDropped' = NoValueDropped /\ Shifted' = Shifted BY <1>1 DEF NoValueDropped, parser, Shifted
<1>7. ASSUME NoValueDropped PROVE Yield(Terms(semantic' \o rhs')) = Shifted
  <2>1. Yield(Terms(semantic \o rhs)) = Shifted BY <1>2, <1>7 DEF ValuesInOrder, Shifted
  <2>2. Yield(Terms(semantic \o rhs)) = Yield(Terms(semantic)) \o Yield(Terms(rhs)) BY <1>2, ValuesApart
  <2> QED BY <1>1, <1>3, <1>5, <1>7, <2>1, <2>2
<1>8. ValuesInOrder' BY <1>6, <1>7 DEF ValuesInOrder, Shifted
<1>9. Valued(rhs') BY <1>1, TermsNone
<1> QED BY <1>5, <1>8, <1>9 DEF ValuesInv

LEMMA ValuesStart == Init => ValuesInv
<1> SUFFICES ASSUME Init PROVE ValuesInv OBVIOUS
<1>1. semantic = <<>> /\ rhs = <<>> /\ index = 1 BY DEF Init
<1>2. semantic \o rhs = <<>> BY <1>1, NothingBehind, EmptySequence
<1>3. Yield(Terms(semantic \o rhs)) = <<>> BY <1>2, TermsNone, YieldNone
<1>4. Shifted = <<>>
  <2>1. index - 1 = 0 BY <1>1
  <2>2. 1 .. 0 = {} OBVIOUS
  <2>3. Shifted = [k \in 1 .. 0 |-> tokens[k].lexeme] BY <2>1 DEF Shifted
  <2>4. Shifted \in [1 .. 0 -> {}] BY <2>2, <2>3
  <2>5. Shifted \in Seq({}) /\ Len(Shifted) = 0 BY <2>4, SeqDef
  <2> QED BY <2>5, EmptySeq
<1> QED BY <1>1, <1>3, <1>4, TermsNone DEF ValuesInv, ValuesInOrder, Shifted

LEMMA ValuesStep ==
  ASSUME IInv, ValuesInv, [Next]_vars
  PROVE  ValuesInv'
<1>1. CASE Shift BY <1>1, ShiftKeepsValues
<1>2. CASE PopRhs BY <1>2, PopRhsKeepsValues
<1>3. CASE PushLeft BY <1>3, PushLeftKeepsValues
<1>4. CASE StartReduce \/ Accept \/ Reject \/ UNCHANGED vars
  <2>1. UNCHANGED <<input, tokens, semantic, index, rhs>>
    BY <1>4 DEF IInv, TypeOK, StartReduce, InLoop, Accept, Reject, vars
  <2>2. NoValueDropped' = NoValueDropped BY <2>1 DEF NoValueDropped, parser
  <2>3. Valued(semantic)' = Valued(semantic) /\ Valued(rhs)' = Valued(rhs) BY <2>1
  <2>4. ValuesInOrder' = ValuesInOrder BY <2>1, <2>2 DEF ValuesInOrder
  <2> QED BY <2>3, <2>4 DEF ValuesInv
<1> QED BY <1>1, <1>2, <1>3, <1>4 DEF Next

\* Semantic actions see each token once and in input order, whatever the grammar, its
\* tables and the input are: no value is lost, doubled or moved while right-hand sides are
\* popped and left-hand sides pushed, unless a production of several symbols has no action.
THEOREM ValuesStayInOrder == Spec => []ValuesInOrder
<1>1. ValuesInv => ValuesInOrder BY DEF ValuesInv
<1> QED BY <1>1, ValuesStart, ValuesStep, Inductive, PTL DEF Spec
=============================================================================
