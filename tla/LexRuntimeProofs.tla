-------------------------- MODULE LexRuntimeProofs --------------------------
(***************************************************************************)
(* Proofs about the generated scanner, for every scanner and every text:   *)
(* the types, the longest match, the places and the progress of the cursor *)
(* are kept by every step.                                                 *)
(***************************************************************************)
EXTENDS LexRuntime, FiniteSetTheorems, SequenceTheorems, WellFoundedInduction, TLAPS

-----------------------------------------------------------------------------
(***************************************************************************)
(* Places.                                                                 *)
(***************************************************************************)
LEMMA BreaksFinite ==
  ASSUME NEW n \in Nat
  PROVE  IsFiniteSet(Breaks(n)) /\ Cardinality(Breaks(n)) \in Nat
<1>1. IsFiniteSet(1..n) BY FS_Interval
<1>2. Breaks(n) \subseteq 1..n BY DEF Breaks
<1> QED BY <1>1, <1>2, FS_Subset, FS_CardinalityType

LEMMA NextBreaks ==
  ASSUME NEW n \in Nat
  PROVE  Cardinality(Breaks(n + 1)) =
           IF source[n + 1] = NewLine THEN Cardinality(Breaks(n)) + 1 ELSE Cardinality(Breaks(n))
<1>1. CASE source[n + 1] = NewLine
  <2>1. Breaks(n + 1) = Breaks(n) \cup {n + 1} BY <1>1 DEF Breaks
  <2>2. n + 1 \notin Breaks(n) BY DEF Breaks
  <2> QED BY <1>1, <2>1, <2>2, BreaksFinite, FS_AddElement
<1>2. CASE source[n + 1] # NewLine
  <2>1. Breaks(n + 1) = Breaks(n) BY <1>2 DEF Breaks
  <2> QED BY <1>2, <2>1
<1> QED BY <1>1, <1>2

\* A character forward is a place again, in step with its position.
LEMMA AdvanceInStep ==
  ASSUME Len(source) \in Nat, NEW p \in Places, p.pos < Len(source), InStep(p)
  PROVE  /\ Advance(p) \in Places /\ Advance(p).pos = p.pos + 1 /\ InStep(Advance(p))
<1>0. p.pos \in 0..Len(source) /\ p.pos \in Nat /\ p.line \in Nat \ {0} /\ p.column \in Nat \ {0} BY DEF Places
<1>1. Advance(p) \in Places /\ Advance(p).pos = p.pos + 1 BY <1>0 DEF Advance, Places
<1>2. PICK b \in 0..p.pos :
        /\ b = 0 \/ source[b] = NewLine
        /\ \A k \in (b + 1)..p.pos : source[k] # NewLine
        /\ p.column = p.pos - b + 1
  BY DEF InStep
<1>3. p.line = Cardinality(Breaks(p.pos)) + 1 BY DEF InStep
<1>4. Cardinality(Breaks(p.pos)) \in Nat BY <1>0, BreaksFinite
<1>5. Cardinality(Breaks(p.pos + 1)) =
        IF source[p.pos + 1] = NewLine THEN Cardinality(Breaks(p.pos)) + 1 ELSE Cardinality(Breaks(p.pos))
  BY <1>0, NextBreaks
<1> DEFINE n == p.pos + 1
           Last(c) == /\ c = 0 \/ source[c] = NewLine
                      /\ \A k \in (c + 1)..n : source[k] # NewLine
                      /\ Advance(p).column = n - c + 1
<1>6. Advance(p).line = Cardinality(Breaks(n)) + 1
  BY <1>3, <1>4, <1>5, <1>0 DEF Advance
<1>n. n \in Nat /\ n = p.pos + 1 BY <1>0
<1>7. source[n] = NewLine => \E c \in 0..n : Last(c)
  <2> HAVE source[n] = NewLine
  <2>1. Advance(p).column = 1 BY DEF Advance
  <2>2. n \in 0..n /\ Last(n)
    <3> HIDE DEF n
    <3> QED BY <1>n, <2>1
  <2> QED BY <2>2
<1>8. source[n] # NewLine => \E c \in 0..n : Last(c)
  <2> HAVE source[n] # NewLine
  <2>1. Advance(p).column = p.column + 1 BY DEF Advance
  <2>2. \A k \in (b + 1)..n : source[k] # NewLine
    <3> TAKE k \in (b + 1)..n
    <3>1. k \in (b + 1)..p.pos \/ k = n BY <1>0
    <3> QED BY <3>1, <1>2
  <2>3. b \in 0..n /\ Last(b) BY <1>0, <1>2, <2>1, <2>2
  <2> QED BY <2>3
<1>9. \E c \in 0..n : Last(c) BY <1>7, <1>8
<1> HIDE DEF Last
<1>10. InStep(Advance(p))
  <2>1. Advance(p).pos = n BY <1>1
  <2>2. Advance(p).line = Cardinality(Breaks(Advance(p).pos)) + 1 BY <1>6, <2>1
  <2>3. \E c \in 0..Advance(p).pos :
          /\ c = 0 \/ source[c] = NewLine
          /\ \A k \in (c + 1)..Advance(p).pos : source[k] # NewLine
          /\ Advance(p).column = Advance(p).pos - c + 1
    BY <1>9, <2>1 DEF Last
  <2> QED BY <2>2, <2>3 DEF InStep
<1> QED BY <1>1, <1>10

LEMMA OriginInStep ==
  ASSUME Len(source) \in Nat
  PROVE  Origin \in Places /\ InStep(Origin)
<1>1. Breaks(0) = {} BY DEF Breaks
<1>2. Cardinality(Breaks(0)) = 0 BY <1>1, FS_EmptySet
<1>3. Origin \in Places BY DEF Origin, Places
<1>4. Origin.line = Cardinality(Breaks(Origin.pos)) + 1 BY <1>2 DEF Origin
<1>5. 0 \in 0..Origin.pos /\ Origin.column = Origin.pos - 0 + 1 BY DEF Origin
<1>6. \A k \in (0 + 1)..Origin.pos : source[k] # NewLine BY DEF Origin
<1> QED BY <1>3, <1>4, <1>5, <1>6 DEF InStep

LEMMA PlaceOfAt ==
  ASSUME NEW p \in Places, NEW q
  PROVE  /\ Place(At(p, q)) = p /\ At(p, q).pos = p.pos /\ At(p, q).state = q
         /\ At(p, q).line = p.line /\ At(p, q).column = p.column
BY DEF Place, At, Places

-----------------------------------------------------------------------------
(***************************************************************************)
(* The invariant that the steps keep: while the scanning loop runs the     *)
(* cursor stands where the match began, with text left.                    *)
(***************************************************************************)
Waiting == pc = "scan" => cursor = from /\ cursor.pos < Len(source)
IInv    == TypeOK /\ PlacesFollowText /\ LongestMatch /\ CallMoves /\ Waiting

\* What the assumptions say of the scanner that runs.
LEMMA ScannerFacts ==
  ASSUME TypeOK
  PROVE  /\ source \in Seq(Characters) /\ Len(source) \in Nat
         /\ \A k \in 1..Len(source) : source[k] \in Characters
         /\ DOMAIN scanner.next \subseteq Nat /\ scanner.start \in DOMAIN scanner.next
         /\ DOMAIN scanner.action \subseteq DOMAIN scanner.next /\ NoState \notin DOMAIN scanner.next
         /\ \A q \in DOMAIN scanner.next : \A c \in DOMAIN scanner.next[q] : scanner.next[q][c] \in DOMAIN scanner.next
         /\ \A q \in DOMAIN scanner.action : scanner.action[q].kind \in {"token", "skip", "read"}
<1>1. input \in DOMAIN Scanners /\ source \in Sources[input] BY DEF TypeOK
<1>2. source \in Seq(Characters) BY <1>1, SourcesAssumption DEF Characters
<1>3. Len(source) \in Nat /\ \A k \in 1..Len(source) : source[k] \in Characters BY <1>2
<1>4. /\ DOMAIN scanner.next \subseteq Nat /\ scanner.start \in DOMAIN scanner.next
      /\ DOMAIN scanner.action \subseteq DOMAIN scanner.next
      /\ \A q \in DOMAIN scanner.next : \A c \in DOMAIN scanner.next[q] : scanner.next[q][c] \in DOMAIN scanner.next
      /\ \A q \in DOMAIN scanner.action : scanner.action[q].kind \in {"token", "skip", "read"}
  BY <1>1, ScannersAssumption DEF scanner
<1>5. NoState \notin DOMAIN scanner.next BY <1>4 DEF NoState
<1> QED BY <1>2, <1>3, <1>4, <1>5

\* The text and the scanner stay the same, and all that is defined by them.
LEMMA Static ==
  ASSUME source' = source, input' = input
  PROVE  /\ scanner' = scanner /\ Places' = Places /\ Characters' = Characters
         /\ Codes' = Codes /\ SemanticValues' = SemanticValues /\ Tokens' = Tokens
BY DEF scanner, Places, Characters, Codes, SemanticValues, Tokens

LEMMA TextType ==
  ASSUME TypeOK, NEW a \in Nat, NEW b \in 0..Len(source)
  PROVE  Text(a, b) \in Seq(Characters)
<1>1. \A i \in (a + 1)..b : source[i] \in Characters BY ScannerFacts
<1> HIDE DEF Characters
<1> QED BY <1>1, ScannerFacts, SubSeqProperties DEF Text

LEMMA MarkType ==
  ASSUME NEW p \in Places, NEW q \in DOMAIN scanner.action \cup {NoState}
  PROVE  At(p, q) \in [pos : 0..Len(source), line : Nat \ {0}, column : Nat \ {0},
                       state : DOMAIN scanner.action \cup {NoState}]
BY DEF At, Places

LEMMA AcceptedPlace ==
  ASSUME TypeOK
  PROVE  /\ Place(accepted) \in Places /\ Place(accepted).pos = accepted.pos
         /\ accepted.pos \in 0..Len(source) /\ accepted.state \in DOMAIN scanner.action \cup {NoState}
BY DEF TypeOK, Place, Places

LEMMA TokenType ==
  ASSUME from \in Places, NEW t \in Codes \cup {0, ErrorType}, NEW text \in Seq(Characters)
  PROVE  TokenOf(t, text) \in Tokens
BY DEF TokenOf, Tokens, Places

-----------------------------------------------------------------------------
LEMMA Singleton ==
  ASSUME NEW S, NEW e \in S
  PROVE  <<e>> \in Seq(S) /\ Len(<<e>>) = 1 /\ <<e>>[1] = e
OBVIOUS

\* Places that were in step stay so, whichever variable holds them.
LEMMA PlacesStep ==
  ASSUME source' = source, NEW a, NEW b, NEW c, NEW d,
         InStep(a), InStep(b), InStep(c), InStep(d),
         cursor' = a, from' = b, scan' = c, Place(accepted)' = d
  PROVE  PlacesFollowText'
BY DEF PlacesFollowText, InStep, Breaks

LEMMA InitInv == Init => IInv
<1> SUFFICES ASSUME Init PROVE IInv OBVIOUS
<1>0. input \in DOMAIN Scanners /\ source \in Sources[input] BY DEF Init
<1>1. source \in Seq(Characters) /\ Len(source) \in Nat
  BY <1>0, SourcesAssumption DEF Characters
<1>2. Origin \in Places /\ InStep(Origin) BY <1>1, OriginInStep
<1>3. Place(At(Origin, NoState)) = Origin BY <1>2, PlaceOfAt
<1>4. TypeOK
  <2>1. NoToken \in Tokens BY DEF NoToken, Tokens
  <2>2. At(Origin, NoState) \in [pos : 0..Len(source), line : Nat \ {0}, column : Nat \ {0},
                                 state : DOMAIN scanner.action \cup {NoState}]
    BY <1>2, MarkType
  <2> HIDE DEF Characters, Places, Tokens, NoToken, Origin, At, SemanticValues
  <2> QED BY <1>0, <1>2, <2>1, <2>2 DEF Init, TypeOK
<1>5. PlacesFollowText BY <1>2, <1>3 DEF Init, PlacesFollowText
<1> QED BY <1>4, <1>5 DEF Init, IInv, LongestMatch, CallMoves, Waiting

LEMMA BeginStep ==
  ASSUME IInv, Begin
  PROVE  IInv'
<1>0. TypeOK BY DEF IInv
<1> USE ScannerFacts, <1>0
<1>1. /\ UNCHANGED <<input, mode, source, cursor, yytext, token, tokens, values>>
      /\ from' = cursor /\ scan' = cursor /\ trail' = <<scanner.start>> /\ pc' = "scan" /\ pc = "call"
      /\ yylval' \in {yylval, NoValue}
  BY DEF Begin
<1>2. PICK q \in DOMAIN scanner.action \cup {NoState} :
        /\ accepted' = At(cursor, q)
        /\ q = IF IsAccepting(scanner.start) THEN scanner.start ELSE NoState
  BY DEF Begin, IsAccepting
<1>3. cursor \in Places /\ InStep(cursor) BY DEF IInv, TypeOK, PlacesFollowText
<1>4. Place(accepted') = cursor /\ accepted'.pos = cursor.pos /\ accepted'.state = q
  BY <1>2, <1>3, PlaceOfAt
<1>5. TypeOK'
  <2>1. trail' \in Seq(DOMAIN scanner.next) BY <1>1, Singleton
  <2>2. accepted' \in [pos : 0..Len(source), line : Nat \ {0}, column : Nat \ {0},
                       state : DOMAIN scanner.action \cup {NoState}]
    BY <1>2, <1>3, MarkType
  <2>3. yylval' \in SemanticValues \cup {NoValue} BY <1>1 DEF TypeOK
  <2> HIDE DEF Places, Tokens, SemanticValues
  <2> QED BY <1>1, <1>3, <2>1, <2>2, <2>3, Static DEF TypeOK
<1>6. PlacesFollowText'
  <2>1. Place(accepted)' = cursor BY <1>4 DEF Place
  <2> QED BY <1>1, <1>3, <2>1, PlacesStep
<1>7. LongestMatch'
  <2>1. cursor.pos \in Nat BY <1>3 DEF Places
  <2>2. Len(trail') = 1 /\ trail'[1] = scanner.start BY <1>1, Singleton
  <2>3. scanner' = scanner BY <1>1, Static
  <2> QED BY <1>1, <1>2, <1>4, <2>1, <2>2, <2>3 DEF LongestMatch, IsAccepting
<1>8. cursor.pos < Len(source) BY <1>3 DEF Begin, AtEnd, Places
<1> QED BY <1>1, <1>5, <1>6, <1>7, <1>8 DEF IInv, CallMoves, Waiting

LEMMA ScanStep ==
  ASSUME IInv, ScanCharacter
  PROVE  IInv'
<1>0. TypeOK BY DEF IInv
<1> USE ScannerFacts, <1>0
<1>1. /\ UNCHANGED <<input, mode, source, cursor, from, yytext, yylval, token, tokens, values, pc>>
      /\ pc = "scan" /\ CanMove /\ scan' = Advance(scan) /\ trail' = Append(trail, Target)
      /\ accepted' = IF IsAccepting(Target) THEN At(Advance(scan), Target) ELSE accepted
  BY DEF ScanCharacter
<1>2. /\ Len(trail) = scan.pos - from.pos + 1 /\ trail[1] = scanner.start
      /\ \A k \in 1..(Len(trail) - 1) :
           /\ source[from.pos + k] \in DOMAIN scanner.next[trail[k]]
           /\ trail[k + 1] = scanner.next[trail[k]][source[from.pos + k]]
      /\ from.pos <= accepted.pos /\ accepted.pos <= scan.pos
      /\ accepted.state = IF IsAccepting(trail[accepted.pos - from.pos + 1])
                          THEN trail[accepted.pos - from.pos + 1] ELSE NoState
      /\ accepted.state = NoState => accepted.pos = from.pos
      /\ \A k \in (accepted.pos - from.pos + 2)..Len(trail) : ~IsAccepting(trail[k])
  BY <1>1 DEF IInv, LongestMatch
<1>3. /\ scan \in Places /\ from \in Places /\ cursor \in Places /\ trail \in Seq(DOMAIN scanner.next)
      /\ InStep(scan) /\ InStep(cursor) /\ InStep(from) /\ InStep(Place(accepted))
  BY DEF IInv, TypeOK, PlacesFollowText
<1>4. scan.pos \in Nat /\ from.pos \in Nat /\ accepted.pos \in Nat /\ scan.pos < Len(source)
  BY <1>1, <1>3, AcceptedPlace DEF Places, CanMove, AtEnd
<1>5. Advance(scan) \in Places /\ Advance(scan).pos = scan.pos + 1 /\ InStep(Advance(scan))
  BY <1>3, <1>4, AdvanceInStep
<1>6. Len(trail) \in Nat /\ Len(trail) >= 1 BY <1>2, <1>3, <1>4
<1>7. state \in DOMAIN scanner.next BY <1>3, <1>6 DEF state
<1>8. Target \in DOMAIN scanner.next /\ Target = scanner.next[state][source[scan.pos + 1]]
      /\ source[scan.pos + 1] \in DOMAIN scanner.next[state]
  BY <1>1, <1>7 DEF Target, CanMove
<1>9. TypeOK'
  <2>1. trail' \in Seq(DOMAIN scanner.next) BY <1>1, <1>3, <1>8, AppendProperties
  <2>2. accepted' \in [pos : 0..Len(source), line : Nat \ {0}, column : Nat \ {0},
                       state : DOMAIN scanner.action \cup {NoState}]
    <3>1. CASE IsAccepting(Target) BY <1>1, <3>1, <1>5, MarkType DEF IsAccepting
    <3>2. CASE ~IsAccepting(Target) BY <1>1, <3>2 DEF TypeOK
    <3> QED BY <3>1, <3>2
  <2> HIDE DEF Places, Tokens, SemanticValues
  <2> QED BY <1>1, <1>5, <2>1, <2>2, Static DEF TypeOK
<1>10. PlacesFollowText'
  <2>1. Place(accepted)' = IF IsAccepting(Target) THEN Advance(scan) ELSE Place(accepted)
    <3>1. CASE IsAccepting(Target)
      <4>1. Place(accepted)' = Place(At(Advance(scan), Target)) BY <1>1, <3>1 DEF Place
      <4> QED BY <4>1, <3>1, <1>5, PlaceOfAt
    <3>2. CASE ~IsAccepting(Target) BY <1>1, <3>2 DEF Place
    <3> QED BY <3>1, <3>2
  <2>2. InStep(IF IsAccepting(Target) THEN Advance(scan) ELSE Place(accepted)) BY <1>3, <1>5
  <2> QED BY <1>1, <1>3, <1>5, <2>1, <2>2, PlacesStep
<1>11. LongestMatch'
  <2>1. /\ Len(trail') = Len(trail) + 1 /\ trail'[Len(trail) + 1] = Target
        /\ \A k \in 1..Len(trail) : trail'[k] = trail[k]
    BY <1>1, <1>3, <1>8
  <2>2. scan'.pos = scan.pos + 1 /\ from' = from /\ source' = source /\ scanner' = scanner
    BY <1>1, <1>5, Static
  <2>3. Len(trail') = scan'.pos - from'.pos + 1 /\ trail'[1] = scanner.start
    BY <1>2, <1>4, <1>6, <2>1, <2>2
  <2>4. \A k \in 1..(Len(trail') - 1) :
          /\ source[from.pos + k] \in DOMAIN scanner.next[trail'[k]]
          /\ trail'[k + 1] = scanner.next[trail'[k]][source[from.pos + k]]
    <3> TAKE k \in 1..(Len(trail') - 1)
    <3>1. k \in 1..Len(trail) /\ trail'[k] = trail[k] BY <2>1, <1>6
    <3>2. CASE k = Len(trail)
      <4>1. from.pos + k = scan.pos + 1 BY <3>2, <1>2, <1>4
      <4>2. trail'[k + 1] = Target /\ trail'[k] = state BY <3>1, <3>2, <2>1 DEF state
      <4> QED BY <4>1, <4>2, <1>8
    <3>3. CASE k # Len(trail)
      <4>1. k \in 1..(Len(trail) - 1) /\ k + 1 \in 1..Len(trail) BY <3>1, <3>3, <1>6
      <4> QED BY <4>1, <3>1, <2>1, <1>2
    <3> QED BY <3>2, <3>3
  <2>5. CASE IsAccepting(Target)
    <3>1. accepted'.pos = scan.pos + 1 /\ accepted'.state = Target
      BY <1>1, <1>5, <2>5, PlaceOfAt
    <3>2. accepted'.pos - from.pos + 1 = Len(trail) + 1 BY <3>1, <1>2, <1>4
    <3>3. Target # NoState BY <1>8
    <3>4. \A k \in (accepted'.pos - from.pos + 2)..Len(trail') : ~IsAccepting(trail'[k])
      BY <3>2, <3>1, <2>1, <1>4, <1>6
    <3>5. from.pos <= accepted'.pos /\ accepted'.pos <= scan'.pos BY <3>1, <2>2, <1>2, <1>4
    <3>6. accepted'.state = IF IsAccepting(trail'[accepted'.pos - from.pos + 1])
                            THEN trail'[accepted'.pos - from.pos + 1] ELSE NoState
      BY <3>1, <3>2, <2>1, <2>5
    <3> QED BY <1>1, <2>2, <2>3, <2>4, <3>1, <3>3, <3>4, <3>5, <3>6 DEF LongestMatch, IsAccepting
  <2>6. CASE ~IsAccepting(Target)
    <3>1. accepted' = accepted BY <1>1, <2>6
    <3>2. accepted.pos - from.pos + 1 \in 1..Len(trail) BY <1>2, <1>4
    <3>3. \A k \in (accepted.pos - from.pos + 2)..Len(trail') : ~IsAccepting(trail'[k])
      <4> TAKE k \in (accepted.pos - from.pos + 2)..Len(trail')
      <4>1. k \in (accepted.pos - from.pos + 2)..Len(trail) \/ k = Len(trail) + 1
        BY <2>1, <1>2, <1>4, <1>6
      <4>2. k # Len(trail) + 1 => k \in 1..Len(trail) BY <4>1, <1>2, <1>4, <1>6
      <4> QED BY <4>1, <4>2, <2>1, <2>6, <1>2
    <3>4. trail'[accepted.pos - from.pos + 1] = trail[accepted.pos - from.pos + 1] BY <3>2, <2>1
    <3>5. accepted.pos <= scan'.pos BY <2>2, <1>2, <1>4
    <3> QED BY <1>1, <1>2, <2>2, <2>3, <2>4, <3>1, <3>3, <3>4, <3>5 DEF LongestMatch, IsAccepting
  <2> QED BY <2>5, <2>6
<1> QED BY <1>1, <1>9, <1>10, <1>11 DEF IInv, CallMoves, Waiting

\* What every step after the scan starts from.
LEMMA PlaceFacts ==
  ASSUME IInv
  PROVE  /\ cursor \in Places /\ from \in Places /\ scan \in Places /\ Place(accepted) \in Places
         /\ InStep(cursor) /\ InStep(from) /\ InStep(scan) /\ InStep(Place(accepted))
         /\ cursor.pos \in 0..Len(source) /\ from.pos \in Nat /\ cursor.pos \in Nat
         /\ accepted.pos \in 0..Len(source) /\ accepted.pos \in Nat /\ Place(accepted).pos = accepted.pos
<1>0. TypeOK BY DEF IInv
<1>1. cursor \in Places /\ from \in Places /\ scan \in Places
      /\ InStep(cursor) /\ InStep(from) /\ InStep(scan) /\ InStep(Place(accepted))
  BY DEF IInv, TypeOK, PlacesFollowText
<1>2. cursor.pos \in 0..Len(source) /\ from.pos \in 0..Len(source) BY <1>1 DEF Places
<1> QED BY <1>0, <1>1, <1>2, AcceptedPlace, ScannerFacts

\* The steps after the scan that move only the cursor, to a place in step with the text.
LEMMA CursorStep ==
  ASSUME IInv, NEW p \in Places, InStep(p), cursor' = p,
         UNCHANGED <<input, mode, source, from, scan, trail, accepted>>,
         yytext' \in Seq(Characters), yylval' \in SemanticValues \cup {NoValue},
         token' \in Tokens, tokens' \in Seq(Tokens), values' \in Seq(SemanticValues \cup {NoValue}),
         pc' \in {"call", "act", "read", "loop", "done", "threw"},
         pc' \in {"act", "read"} => accepted.state # NoState,
         pc' = "act" => (pc = "scan" /\ ~CanMove) \/ pc = "act",
         pc' \in {"act", "read", "loop"} => from.pos < p.pos
  PROVE  IInv'
<1>0. TypeOK BY DEF IInv
<1>1. TypeOK'
  <2> HIDE DEF Places, Tokens, SemanticValues, Characters
  <2> QED BY <1>0, Static DEF TypeOK
<1>2. PlacesFollowText'
  <2>1. Place(accepted)' = Place(accepted) BY DEF Place
  <2> QED BY <2>1, PlaceFacts, PlacesStep
<1>3. LongestMatch'
  <2>1. scanner' = scanner BY Static
  <2>2. CASE pc' # "act" BY <2>2 DEF LongestMatch
  <2>3. CASE pc' = "act"
    <3>1. LongestMatch /\ pc \in {"scan", "act"} BY <2>3 DEF IInv
    <3>2. ~CanMove /\ pc' # "scan" BY <2>3, <3>1 DEF LongestMatch
    <3>3. ~CanMove' BY <2>1, <3>2 DEF CanMove, AtEnd, state
    <3> QED BY <2>1, <3>1, <3>3 DEF LongestMatch, IsAccepting
  <2> QED BY <2>2, <2>3
<1> QED BY <1>1, <1>2, <1>3 DEF IInv, CallMoves, Waiting

\* The match that TakeMatch takes is a text of the source.
LEMMA MatchedType ==
  ASSUME TypeOK
  PROVE  Matched \in Seq(Characters) /\ from.pos \in Nat /\ accepted.pos \in Nat
<1>1. from.pos \in Nat BY ScannerFacts DEF TypeOK, Places
<1>2. accepted.pos \in 0..Len(source) BY AcceptedPlace
<1>3. accepted.pos \in Nat BY <1>2, ScannerFacts
<1> QED BY <1>1, <1>2, <1>3, TextType DEF Matched

LEMMA ReportErrorStep ==
  ASSUME IInv, ReportError
  PROVE  IInv'
<1>0. TypeOK BY DEF IInv
<1>1. /\ pc = "scan" /\ pc' = "loop" /\ cursor' = Advance(cursor) /\ token' = TokenOf(ErrorType, yytext')
      /\ yytext' = Text(from.pos, from.pos + 1)
      /\ UNCHANGED <<input, mode, source, from, scan, trail, accepted, yylval, tokens, values>>
  BY DEF ReportError
<1>2. cursor = from /\ cursor.pos < Len(source) BY <1>1 DEF IInv, Waiting
<1>3. Advance(cursor) \in Places /\ Advance(cursor).pos = cursor.pos + 1 /\ InStep(Advance(cursor))
  BY <1>0, <1>2, PlaceFacts, ScannerFacts, AdvanceInStep
<1>4. from.pos + 1 \in 0..Len(source) BY <1>0, <1>2, PlaceFacts, ScannerFacts
<1>5. yytext' \in Seq(Characters) BY <1>0, <1>1, <1>4, PlaceFacts, TextType
<1>6. token' \in Tokens BY <1>1, <1>5, PlaceFacts, TokenType
<1>7. yylval \in SemanticValues \cup {NoValue} /\ tokens \in Seq(Tokens) /\ values \in Seq(SemanticValues \cup {NoValue})
  BY <1>0 DEF TypeOK
<1>8. from.pos < Advance(cursor).pos BY <1>2, <1>3, PlaceFacts
<1> QED BY <1>1, <1>3, <1>5, <1>6, <1>7, <1>8, CursorStep

LEMMA TakeMatchStep ==
  ASSUME IInv, TakeMatch
  PROVE  IInv'
<1>0. TypeOK BY DEF IInv
<1>1. /\ pc = "scan" /\ ~CanMove /\ pc' = "act" /\ yytext' = Matched /\ accepted.state # NoState
      /\ cursor' = IF accepted.pos = from.pos THEN Advance(cursor) ELSE Place(accepted)
      /\ UNCHANGED <<input, mode, source, from, scan, trail, accepted, yylval, token, tokens, values>>
  BY DEF TakeMatch
<1>2. cursor = from /\ cursor.pos < Len(source) BY <1>1 DEF IInv, Waiting
<1>3. Advance(cursor) \in Places /\ Advance(cursor).pos = cursor.pos + 1 /\ InStep(Advance(cursor))
  BY <1>0, <1>2, PlaceFacts, ScannerFacts, AdvanceInStep
<1>4. from.pos <= accepted.pos BY <1>1 DEF IInv, LongestMatch
<1>5. /\ yytext' \in Seq(Characters) /\ yylval \in SemanticValues \cup {NoValue} /\ token \in Tokens
      /\ tokens \in Seq(Tokens) /\ values \in Seq(SemanticValues \cup {NoValue})
  BY <1>0, <1>1, MatchedType DEF TypeOK
<1>6. CASE accepted.pos = from.pos
  <2>1. from.pos < Advance(cursor).pos BY <1>2, <1>3, PlaceFacts
  <2> QED BY <1>1, <1>3, <1>5, <1>6, <2>1, CursorStep
<1>7. CASE accepted.pos # from.pos
  <2>1. from.pos < Place(accepted).pos BY <1>4, <1>7, PlaceFacts
  <2> QED BY <1>1, <1>5, <1>7, <2>1, PlaceFacts, CursorStep
<1> QED BY <1>6, <1>7

LEMMA ActionStep ==
  ASSUME IInv, ReturnToken \/ Skip \/ StartReading
  PROVE  IInv'
<1>0. TypeOK BY DEF IInv
<1>1. /\ pc = "act" /\ pc' \in {"loop", "read"}
      /\ UNCHANGED <<input, mode, source, cursor, from, scan, trail, accepted, yytext, tokens, values>>
  BY DEF ReturnToken, Skip, StartReading
<1>2. from.pos < cursor.pos /\ accepted.state # NoState BY <1>0, <1>1 DEF IInv, CallMoves, TypeOK
<1>3. /\ yytext \in Seq(Characters) /\ yylval \in SemanticValues \cup {NoValue} /\ token \in Tokens
      /\ tokens \in Seq(Tokens) /\ values \in Seq(SemanticValues \cup {NoValue})
  BY <1>0 DEF TypeOK
<1>4. accepted.state \in DOMAIN scanner.action BY <1>0, <1>2, AcceptedPlace
<1>5. token' \in Tokens /\ yylval' \in SemanticValues \cup {NoValue}
  <2>1. CASE ReturnToken
    <3>1. /\ RuleAction = scanner.action[accepted.state] /\ RuleAction.kind = "token"
          /\ yylval' = RuleAction.value /\ token' = TokenOf(RuleAction.type, yytext)
      BY <2>1 DEF ReturnToken, RuleAction
    <3>2. RuleAction.type \in Codes /\ RuleAction.value \in SemanticValues
      BY <1>4, <3>1 DEF Codes, SemanticValues
    <3> QED BY <1>3, <3>1, <3>2, PlaceFacts, TokenType
  <2>2. CASE Skip BY <1>3, <2>2, PlaceFacts, TokenType DEF Skip
  <2>3. CASE StartReading BY <1>3, <2>3 DEF StartReading
  <2> QED BY <2>1, <2>2, <2>3
<1> QED BY <1>1, <1>2, <1>3, <1>5, PlaceFacts, CursorStep

LEMMA ReadInputStep ==
  ASSUME IInv, ReadInput
  PROVE  IInv'
<1>0. TypeOK BY DEF IInv
<1>1. /\ pc = "read" /\ pc' \in {"read", "loop"}
      /\ cursor' = IF AtEnd(cursor.pos) THEN cursor ELSE Advance(cursor)
      /\ token' \in {token, TokenOf(0, yytext)}
      /\ UNCHANGED <<input, mode, source, from, scan, trail, accepted, yytext, yylval, tokens, values>>
  BY DEF ReadInput
<1>2. from.pos < cursor.pos /\ accepted.state # NoState BY <1>0, <1>1 DEF IInv, CallMoves, TypeOK
<1>3. /\ yytext \in Seq(Characters) /\ yylval \in SemanticValues \cup {NoValue} /\ token \in Tokens
      /\ tokens \in Seq(Tokens) /\ values \in Seq(SemanticValues \cup {NoValue})
  BY <1>0 DEF TypeOK
<1>4. token' \in Tokens BY <1>1, <1>3, PlaceFacts, TokenType
<1>5. CASE AtEnd(cursor.pos) BY <1>1, <1>2, <1>3, <1>4, <1>5, PlaceFacts, CursorStep
<1>6. CASE ~AtEnd(cursor.pos)
  <2>1. cursor.pos < Len(source) BY <1>0, <1>6, PlaceFacts, ScannerFacts DEF AtEnd
  <2>2. Advance(cursor) \in Places /\ Advance(cursor).pos = cursor.pos + 1 /\ InStep(Advance(cursor))
    BY <1>0, <2>1, PlaceFacts, ScannerFacts, AdvanceInStep
  <2>3. from.pos < Advance(cursor).pos BY <1>2, <2>2, PlaceFacts
  <2> QED BY <1>1, <1>2, <1>3, <1>4, <1>6, <2>2, <2>3, CursorStep
<1> QED BY <1>5, <1>6

LEMMA LoopStep ==
  ASSUME IInv, Overflow \/ DropToken \/ CollectToken \/ Finish
  PROVE  IInv'
<1>0. TypeOK BY DEF IInv
<1>1. /\ pc' \in {"threw", "call", "done"} /\ yylval' \in {yylval, NoValue}
      /\ UNCHANGED <<input, mode, source, cursor, from, scan, trail, accepted, token>>
  BY DEF Overflow, DropToken, CollectToken, Finish
<1>2. /\ yytext \in Seq(Characters) /\ yylval \in SemanticValues \cup {NoValue} /\ token \in Tokens
      /\ tokens \in Seq(Tokens) /\ values \in Seq(SemanticValues \cup {NoValue})
  BY <1>0 DEF TypeOK
<1>3. tokens' \in Seq(Tokens) /\ values' \in Seq(SemanticValues \cup {NoValue})
  <2>1. tokens' \in {tokens, Append(tokens, token)} /\ values' \in {values, Append(values, yylval)}
    BY DEF Overflow, DropToken, CollectToken, Finish
  <2>2. Append(tokens, token) \in Seq(Tokens) BY <1>2, AppendProperties
  <2>3. Append(values, yylval) \in Seq(SemanticValues \cup {NoValue})
    <3> DEFINE S == SemanticValues \cup {NoValue}
    <3>1. yylval \in S /\ values \in Seq(S) BY <1>2
    <3> HIDE DEF S
    <3>2. Append(values, yylval) \in Seq(S) BY <3>1, AppendProperties
    <3> QED BY <3>2 DEF S
  <2> QED BY <1>2, <2>1, <2>2, <2>3
<1>4. yytext' \in Seq(Characters)
  <2>1. CASE Overflow
    <3>1. pc = "scan" /\ yytext' \in {Text(from.pos, from.pos + 1), Matched} BY <2>1 DEF Overflow
    <3>2. from.pos + 1 \in 0..Len(source)
      BY <1>0, <3>1, PlaceFacts, ScannerFacts DEF IInv, Waiting
    <3>3. Text(from.pos, from.pos + 1) \in Seq(Characters) BY <1>0, <3>2, PlaceFacts, TextType
    <3>4. Matched \in Seq(Characters) BY <1>0, MatchedType
    <3> QED BY <3>1, <3>3, <3>4
  <2>2. CASE ~Overflow BY <1>2, <2>2 DEF DropToken, CollectToken, Finish
  <2> QED BY <2>1, <2>2
<1> QED BY <1>1, <1>2, <1>3, <1>4, PlaceFacts, CursorStep

LEMMA StepInv == IInv /\ [Next]_vars => IInv'
<1> SUFFICES ASSUME IInv, [Next]_vars PROVE IInv' OBVIOUS
<1>1. CASE Begin BY <1>1, BeginStep
<1>2. CASE ScanCharacter BY <1>2, ScanStep
<1>3. CASE ReportError BY <1>3, ReportErrorStep
<1>4. CASE TakeMatch BY <1>4, TakeMatchStep
<1>5. CASE ReturnToken \/ Skip \/ StartReading BY <1>5, ActionStep
<1>6. CASE ReadInput BY <1>6, ReadInputStep
<1>7. CASE Overflow \/ DropToken \/ CollectToken \/ Finish BY <1>7, LoopStep
<1>8. CASE UNCHANGED vars
  <2>1. UNCHANGED <<input, mode, source, cursor, from, scan, trail, accepted, yytext, yylval, token, tokens, values, pc>>
    BY <1>8 DEF vars
  <2>2. TypeOK' BY <2>1, Static DEF IInv, TypeOK
  <2>3. PlacesFollowText' BY <2>1 DEF IInv, PlacesFollowText, InStep, Breaks, Place
  <2>4. LongestMatch' BY <2>1, Static DEF IInv, LongestMatch, IsAccepting, CanMove, AtEnd, state
  <2> QED BY <2>1, <2>2, <2>3, <2>4 DEF IInv, CallMoves, Waiting
<1> QED BY <1>1, <1>2, <1>3, <1>4, <1>5, <1>6, <1>7, <1>8 DEF Next

\* Types, places, longest match and progress hold in every reachable state of every
\* scanner on every text: lex_one and the loops around it (code_generator.cpp 571-711).
THEOREM Inductive == Spec => []IInv
BY InitInv, StepInv, PTL DEF Spec

\* The scanner's variables keep their types.
THEOREM TypeCorrect == Spec => []TypeOK
<1>1. IInv => TypeOK BY DEF IInv
<1> QED BY <1>1, Inductive, PTL

\* The match that lex_one takes is the longest that its transitions allow.
THEOREM TakesLongestMatch == Spec => []LongestMatch
<1>1. IInv => LongestMatch BY DEF IInv
<1> QED BY <1>1, Inductive, PTL

\* Lines and columns, of tokens too, are those of the text.
THEOREM PlacesAreExact == Spec => []PlacesFollowText
<1>1. IInv => PlacesFollowText BY DEF IInv
<1> QED BY <1>1, Inductive, PTL

\* Every call of lex_one takes at least one character away.
THEOREM EveryCallMoves == Spec => []CallMoves
<1>1. IInv => CallMoves BY DEF IInv
<1> QED BY <1>1, Inductive, PTL

\* The cursor never goes back (NeverBack): a token is cut from text no other token has.
THEOREM CursorNeverGoesBack == Spec => NeverBack
<1> DEFINE Forward == cursor.pos <= cursor'.pos /\ (cursor'.pos = cursor.pos => cursor' = cursor)
<1>1. IInv /\ [Next]_vars => [Forward]_vars
  <2> SUFFICES ASSUME IInv, Next PROVE Forward BY DEF Forward
  <2>0. TypeOK BY DEF IInv
  <2>1. cursor' \in {cursor, Advance(cursor), Place(accepted)}
    BY DEF Next, Begin, ScanCharacter, ReportError, TakeMatch, Overflow, ReturnToken, Skip,
           StartReading, ReadInput, DropToken, CollectToken, Finish
  <2>2. Advance(cursor).pos = cursor.pos + 1 BY DEF Advance
  <2>3. CASE cursor' = cursor BY <2>3, PlaceFacts
  <2>4. CASE cursor' = Advance(cursor) BY <2>2, <2>4, PlaceFacts
  <2>5. CASE cursor' # cursor /\ cursor' # Advance(cursor)
    <3>1. TakeMatch /\ cursor' = Place(accepted)
      BY <2>1, <2>5 DEF Next, Begin, ScanCharacter, ReportError, Overflow, ReturnToken, Skip,
           StartReading, ReadInput, DropToken, CollectToken, Finish
    <3>2. pc = "scan" /\ accepted.pos # from.pos BY <2>5, <3>1 DEF TakeMatch
    <3>3. cursor = from /\ from.pos <= accepted.pos BY <3>2 DEF IInv, Waiting, LongestMatch
    <3> QED BY <3>1, <3>2, <3>3, PlaceFacts
  <2> QED BY <2>3, <2>4, <2>5
<1>2. Spec => [][Next]_vars BY DEF Spec
<1> QED BY <1>1, <1>2, Inductive, PTL DEF NeverBack
-----------------------------------------------------------------------------
(***************************************************************************)
(* analysis() against the loops.  Its run is a recursive function: whoever *)
(* satisfies its equation is it, by a smallest place where two of them     *)
(* would differ.  The trail of the scanning loop satisfies it.             *)
(***************************************************************************)
LEMMA LeastOf ==
  ASSUME NEW T \in SUBSET Nat, T # {}
  PROVE  \E m \in T : \A k \in T : m <= k
<1>1. PICK m \in T : \A k \in T : ~(<<k, m>> \in OpToRel(<, Nat))
  BY WFMin, NatLessThanWellFounded, Zenon
<1>2. \A k \in T : ~(k < m) BY <1>1 DEF OpToRel
<1>3. \A k \in T : m <= k BY <1>2
<1> QED BY <1>3

\* f is a run of s over the text.
IsRun(f, s, text) ==
  f = [n \in 0..Len(text) |-> IF n = 0 THEN s.start ELSE Follow(s, f[n - 1], text[n])]

LEMMA RunUnique ==
  ASSUME NEW s, NEW text, Len(text) \in Nat, NEW f, IsRun(f, s, text)
  PROVE  RunFrom(s, text) = f
<1> DEFINE g == RunFrom(s, text)
           step(h, n) == IF n = 0 THEN s.start ELSE Follow(s, h[n - 1], text[n])
<1>1. g = CHOOSE h : h = [n \in 0..Len(text) |-> step(h, n)] BY DEF RunFrom
<1>2. f = [n \in 0..Len(text) |-> step(f, n)] BY DEF IsRun
<1>3. g = [n \in 0..Len(text) |-> step(g, n)] BY <1>1, <1>2
<1> HIDE DEF g, step
<1> DEFINE T == {n \in 0..Len(text) : f[n] # g[n]}
<1>4. T = {}
  <2> SUFFICES ASSUME T # {} PROVE FALSE OBVIOUS
  <2>1. T \in SUBSET Nat OBVIOUS
  <2>2. PICK m \in T : \A k \in T : m <= k BY <2>1, LeastOf
  <2>3. f[m] = step(f, m) /\ g[m] = step(g, m) BY <1>2, <1>3
  <2>4. m # 0 BY <2>2, <2>3 DEF step
  <2>5. m - 1 \in 0..Len(text) /\ m - 1 \notin T BY <2>2, <2>4
  <2>6. f[m - 1] = g[m - 1] BY <2>5
  <2> QED BY <2>2, <2>3, <2>4, <2>6 DEF step
<1>5. \A n \in 0..Len(text) : f[n] = g[n] BY <1>4
<1>6. f = g BY <1>2, <1>3, <1>5
<1> QED BY <1>6 DEF g

LEMMA TextFacts ==
  ASSUME TypeOK, NEW a \in Nat, NEW n \in Nat, a + n <= Len(source)
  PROVE  Len(Text(a, a + n)) = n /\ \A k \in 1..n : Text(a, a + n)[k] = source[a + k]
<1>1. a + n \in Nat /\ a + 1 <= a + n + 1 BY ScannerFacts
<1>2. \A i \in (a + 1)..(a + n) : source[i] \in Characters BY ScannerFacts
<1> HIDE DEF Characters
<1>3. Len(Text(a, a + n)) = IF a + 1 <= a + n THEN (a + n) - (a + 1) + 1 ELSE 0
  BY <1>1, <1>2, ScannerFacts, SubSeqProperties DEF Text
<1>4. \A i \in 1..(a + n + 1 - (a + 1)) : Text(a, a + n)[i] = source[a + 1 + i - 1]
  BY <1>1, <1>2, ScannerFacts, SubSeqProperties DEF Text
<1>5. Len(Text(a, a + n)) = n BY <1>3
<1>6. \A k \in 1..n : Text(a, a + n)[k] = source[a + k]
  <2> TAKE k \in 1..n
  <2>1. k \in 1..(a + n + 1 - (a + 1)) /\ a + 1 + k - 1 = a + k OBVIOUS
  <2> QED BY <1>4, <2>1
<1> QED BY <1>5, <1>6

\* analysis() follows the states that the scanning loop went through.
LEMMA RunAlong ==
  ASSUME IInv, pc \in {"scan", "act"}, NEW n \in 0..(scan.pos - from.pos)
  PROVE  RunFrom(scanner, Text(from.pos, from.pos + n))[n] = trail[n + 1]
<1>0. TypeOK BY DEF IInv
<1>1. /\ Len(trail) = scan.pos - from.pos + 1 /\ trail[1] = scanner.start
      /\ \A k \in 1..(Len(trail) - 1) :
           /\ source[from.pos + k] \in DOMAIN scanner.next[trail[k]]
           /\ trail[k + 1] = scanner.next[trail[k]][source[from.pos + k]]
  BY DEF IInv, LongestMatch
<1>2. from.pos \in Nat /\ scan.pos \in 0..Len(source) /\ Len(source) \in Nat
  BY <1>0, PlaceFacts, ScannerFacts DEF Places
<1>3. n \in Nat /\ from.pos + n <= Len(source) BY <1>2
<1> DEFINE text == Text(from.pos, from.pos + n)
           f == [k \in 0..n |-> trail[k + 1]]
<1>4. Len(text) = n /\ \A k \in 1..n : text[k] = source[from.pos + k] BY <1>0, <1>2, <1>3, TextFacts
<1> HIDE DEF text
<1>5. \A k \in 1..n : trail[k] # NoState
  <2> TAKE k \in 1..n
  <2>1. k \in 1..Len(trail) BY <1>1, <1>2
  <2>2. trail[k] \in DOMAIN scanner.next BY <1>0, <2>1 DEF TypeOK
  <2> QED BY <1>0, <2>2, ScannerFacts
<1>6. \A k \in 0..n : f[k] = IF k = 0 THEN scanner.start ELSE Follow(scanner, f[k - 1], text[k])
  <2> TAKE k \in 0..n
  <2>1. CASE k = 0 BY <1>1, <2>1
  <2>2. CASE k # 0
    <3>1. k \in 1..n /\ k - 1 \in 0..n /\ k \in 1..(Len(trail) - 1) BY <1>1, <1>2, <2>2
    <3>2. f[k] = trail[k + 1] /\ f[k - 1] = trail[k] BY <3>1
    <3>3. text[k] = source[from.pos + k] BY <1>4, <3>1
    <3> QED BY <1>1, <1>5, <2>2, <3>1, <3>2, <3>3 DEF Follow
  <2> QED BY <2>1, <2>2
<1>7. IsRun(f, scanner, text) BY <1>4, <1>6 DEF IsRun
<1>8. RunFrom(scanner, text) = f BY <1>4, <1>7, RunUnique
<1>9. f[n] = trail[n + 1] BY <1>3
<1> QED BY <1>8, <1>9 DEF text

\* What a token in flight, and every collected one, owes to analysis().
YytextIsMatch == pc = "act" => yytext = Matched
TokenAgrees   == pc = "loop" /\ token.type # 0 => Analysis(token.lexeme) = token.type
Agreement     == YytextIsMatch /\ TokenAgrees /\ AnalysisAgrees

\* The match that was taken, run on its own, ends in the accepting state.
LEMMA MatchAnalysed ==
  ASSUME IInv, pc = "act"
  PROVE  /\ accepted.state \in DOMAIN scanner.action
         /\ Analysis(Matched) = IF RuleAction.kind = "token" THEN RuleAction.type ELSE 0
<1>0. TypeOK BY DEF IInv
<1>1. /\ from.pos <= accepted.pos /\ accepted.pos <= scan.pos
      /\ accepted.state = IF IsAccepting(trail[accepted.pos - from.pos + 1])
                          THEN trail[accepted.pos - from.pos + 1] ELSE NoState
  BY DEF IInv, LongestMatch
<1>2. accepted.state # NoState BY <1>0 DEF TypeOK
<1>3. accepted.state \in DOMAIN scanner.action BY <1>0, <1>2, AcceptedPlace
<1> DEFINE n == accepted.pos - from.pos
<1>4. /\ from.pos \in Nat /\ accepted.pos \in Nat /\ scan.pos \in Nat /\ accepted.pos \in 0..Len(source)
  BY <1>0, PlaceFacts, ScannerFacts DEF Places
<1>5. n \in 0..(scan.pos - from.pos) /\ from.pos + n = accepted.pos BY <1>1, <1>4
<1>6. RunFrom(scanner, Matched)[n] = accepted.state BY <1>1, <1>2, <1>5, RunAlong DEF Matched
<1>7. Len(Matched) = n BY <1>0, <1>4, <1>5, TextFacts DEF Matched
<1> QED BY <1>3, <1>6, <1>7 DEF Analysis, RuleAction

\* A character that starts no match is refused by analysis() as well.
LEMMA ErrorAnalysed ==
  ASSUME IInv, pc = "scan", ~CanMove, accepted.state = NoState
  PROVE  Analysis(Text(from.pos, from.pos + 1)) = ErrorType
<1>0. TypeOK BY DEF IInv
<1>1. /\ Len(trail) = scan.pos - from.pos + 1 /\ trail[1] = scanner.start
      /\ accepted.pos = from.pos /\ \A k \in 2..Len(trail) : ~IsAccepting(trail[k])
      /\ from.pos <= scan.pos
  <2>1. /\ Len(trail) = scan.pos - from.pos + 1 /\ trail[1] = scanner.start
        /\ accepted.pos = from.pos /\ \A k \in (accepted.pos - from.pos + 2)..Len(trail) : ~IsAccepting(trail[k])
        /\ from.pos <= accepted.pos /\ accepted.pos <= scan.pos
    BY DEF IInv, LongestMatch
  <2>2. from.pos \in Nat BY PlaceFacts
  <2> QED BY <2>1, <2>2
<1>2. /\ from.pos \in Nat /\ scan.pos \in Nat /\ Len(source) \in Nat /\ cursor = from /\ from.pos < Len(source)
  BY <1>0, PlaceFacts, ScannerFacts DEF Places, IInv, Waiting
<1> DEFINE text == Text(from.pos, from.pos + 1)
<1>3. Len(text) = 1 /\ \A k \in 1..1 : text[k] = source[from.pos + k]
  <2>1. from.pos + 1 <= Len(source) /\ 1 \in Nat BY <1>2
  <2> QED BY <1>0, <1>2, <2>1, TextFacts, Zenon
<1>4. Len(text) = 1 /\ text[1] = source[from.pos + 1]
  <2> HIDE DEF text
  <2> QED BY <1>3
<1>5. RunFrom(scanner, text)[1] \notin DOMAIN scanner.action
  <2>1. CASE scan.pos > from.pos
    <3>1. 1 \in 0..(scan.pos - from.pos) /\ 2 \in 2..Len(trail) BY <1>1, <1>2, <2>1
    <3>2. RunFrom(scanner, text)[1] = trail[1 + 1] BY <3>1, RunAlong
    <3> QED BY <1>1, <3>1, <3>2 DEF IsAccepting
  <2>2. CASE scan.pos = from.pos
    <3>1. Len(trail) = 1 /\ state = scanner.start BY <1>1, <1>2, <2>2 DEF state
    <3>2. source[from.pos + 1] \notin DOMAIN scanner.next[scanner.start]
      BY <1>2, <2>2, <3>1 DEF CanMove, AtEnd
    <3> DEFINE f == [k \in 0..1 |-> IF k = 0 THEN scanner.start ELSE NoState]
    <3> HIDE DEF text
    <3>3. IsRun(f, scanner, text) BY <1>4, <3>2 DEF IsRun, Follow
    <3>4. RunFrom(scanner, text) = f BY <1>4, <3>3, RunUnique
    <3>5. f[1] = NoState OBVIOUS
    <3> QED BY <1>0, <3>4, <3>5, ScannerFacts
  <2> QED BY <1>1, <1>2, <2>1, <2>2
<1> HIDE DEF text
<1>6. Analysis(text) = ErrorType BY <1>4, <1>5 DEF Analysis
<1> QED BY <1>6 DEF text

LEMMA AgreementStep == IInv /\ Agreement /\ [Next]_vars => Agreement'
<1> SUFFICES ASSUME IInv, Agreement, [Next]_vars PROVE Agreement' OBVIOUS
<1>0. TypeOK BY DEF IInv
<1>1. source' = source /\ input' = input
  BY DEF Next, vars, Begin, ScanCharacter, ReportError, TakeMatch, Overflow, ReturnToken, Skip,
         StartReading, ReadInput, DropToken, CollectToken, Finish
<1>2. scanner' = scanner BY <1>1, Static
<1>3. \A text : Analysis(text)' = Analysis(text) BY <1>2 DEF Analysis
<1>4. ASSUME UNCHANGED tokens PROVE AnalysisAgrees'
  BY <1>3, <1>4 DEF Agreement, AnalysisAgrees
<1>5. CASE pc' \notin {"act", "loop"} /\ UNCHANGED tokens BY <1>4, <1>5 DEF Agreement, YytextIsMatch, TokenAgrees
<1>6. CASE Begin \/ ScanCharacter \/ StartReading \/ DropToken \/ Finish \/ Overflow
  BY <1>5, <1>6 DEF Begin, ScanCharacter, StartReading, DropToken, Finish, Overflow
<1>7. CASE ReportError
  <2>1. /\ pc = "scan" /\ ~CanMove /\ accepted.state = NoState /\ pc' = "loop" /\ UNCHANGED tokens
        /\ token' = TokenOf(ErrorType, Text(from.pos, from.pos + 1))
    BY <1>7 DEF ReportError
  <2>2. Analysis(token'.lexeme) = token'.type BY <2>1, ErrorAnalysed DEF TokenOf
  <2>3. TokenAgrees' BY <1>3, <2>2 DEF TokenAgrees
  <2> QED BY <1>4, <2>1, <2>3 DEF Agreement, YytextIsMatch
<1>8. CASE TakeMatch
  <2>1. pc' = "act" /\ yytext' = Matched /\ UNCHANGED <<from, accepted, tokens, source>> BY <1>8 DEF TakeMatch
  <2>2. Matched' = Matched BY <2>1 DEF Matched, Text
  <2> QED BY <1>4, <2>1, <2>2 DEF Agreement, YytextIsMatch, TokenAgrees
<1>9. CASE ReturnToken
  <2>1. pc = "act" /\ RuleAction.kind = "token" /\ token' = TokenOf(RuleAction.type, yytext) /\ pc' = "loop" /\ UNCHANGED tokens
    BY <1>9 DEF ReturnToken
  <2>2. Analysis(token'.lexeme) = token'.type
    BY <2>1, MatchAnalysed DEF Agreement, YytextIsMatch, TokenOf
  <2>3. TokenAgrees' BY <1>3, <2>2 DEF TokenAgrees
  <2> QED BY <1>4, <2>1, <2>3 DEF Agreement, YytextIsMatch
<1>10. CASE Skip
  <2>1. token'.type = 0 /\ pc' = "loop" /\ UNCHANGED tokens BY <1>10 DEF Skip, TokenOf
  <2> QED BY <1>4, <2>1 DEF Agreement, YytextIsMatch, TokenAgrees
<1>11. CASE ReadInput
  <2>1. pc' \in {"read", "loop"} /\ (pc' = "loop" => token'.type = 0) /\ UNCHANGED tokens
    BY <1>11 DEF ReadInput, TokenOf
  <2> QED BY <1>4, <2>1 DEF Agreement, YytextIsMatch, TokenAgrees
<1>12. CASE CollectToken
  <2>1. pc = "loop" /\ token.type # 0 /\ tokens' = Append(tokens, token) /\ pc' = "call" BY <1>12 DEF CollectToken
  <2>2. tokens \in Seq(Tokens) /\ token \in Tokens BY <1>0 DEF TypeOK
  <2>3. \A k \in DOMAIN tokens' : tokens'[k] = token \/ (k \in DOMAIN tokens /\ tokens'[k] = tokens[k])
    <3> HIDE DEF Tokens
    <3> QED BY <2>1, <2>2
  <2>4. \A k \in DOMAIN tokens' : Analysis(tokens'[k].lexeme) = tokens'[k].type
    BY <2>1, <2>3 DEF Agreement, AnalysisAgrees, TokenAgrees
  <2>5. AnalysisAgrees' BY <1>3, <2>4 DEF AnalysisAgrees
  <2> QED BY <2>1, <2>5 DEF Agreement, YytextIsMatch, TokenAgrees
<1>13. CASE UNCHANGED vars
  <2>1. UNCHANGED <<input, source, from, accepted, yytext, token, tokens, pc>> BY <1>13 DEF vars
  <2>2. Matched' = Matched BY <2>1 DEF Matched, Text
  <2> QED BY <1>3, <1>4, <2>1, <2>2 DEF Agreement, YytextIsMatch, TokenAgrees
<1> QED BY <1>6, <1>7, <1>8, <1>9, <1>10, <1>11, <1>12, <1>13 DEF Next

\* Every token of every loop has the code that analysis() gives its text on its own
\* (AnalysisAgrees), whatever the scanner and the text: where the match began, what was
\* scanned behind it and given back, and what other actions read leave no trace in it.
THEOREM AnalysisAgreesAlways == Spec => []AnalysisAgrees
<1>1. Init => Agreement BY DEF Init, Agreement, YytextIsMatch, TokenAgrees, AnalysisAgrees
<1>2. Agreement => AnalysisAgrees BY DEF Agreement
<1> QED BY <1>1, <1>2, AgreementStep, Inductive, PTL DEF Spec

-----------------------------------------------------------------------------
(***************************************************************************)
(* The tokens as the reference cuts them.  Cut is a recursive function:    *)
(* that there is one with its equation follows from calls that move on, by *)
(* a shortest rest for which there were none.                              *)
(***************************************************************************)
CallsMove(s, text) == \A pos \in 0..(Len(text) - 1) : Call(s, text, pos).to \in (pos + 1)..Len(text)

TokenThere(s, text, pos) ==
  [type |-> Call(s, text, pos).type, lexeme |-> SubSeq(text, pos + 1, pos + Call(s, text, pos).size),
   line |-> LineAt(text, pos), column |-> ColumnAt(text, pos)]

CutStep(s, text, cut, rest) ==
  LET pos  == Len(text) - rest
      call == Call(s, text, pos)
      more == cut[Len(text) - call.to]
  IN  IF rest = 0 THEN [tokens |-> <<>>, values |-> <<>>, threw |-> FALSE]
      ELSE IF call.size >= Capacity THEN [tokens |-> <<>>, values |-> <<>>, threw |-> TRUE]
      ELSE IF call.type = 0 THEN more
      ELSE [tokens |-> <<TokenThere(s, text, pos)>> \o more.tokens,
            values |-> <<call.value>> \o more.values, threw |-> more.threw]

\* cut is right for rests up to n.
CutsUpTo(s, text, cut, n) == cut = [rest \in 0..n |-> CutStep(s, text, cut, rest)]

LEMMA StepLooksBehind ==
  ASSUME NEW s, NEW text, Len(text) \in Nat, CallsMove(s, text), NEW c, NEW d, NEW rest \in 0..Len(text),
         \A k \in 0..(rest - 1) : c[k] = d[k]
  PROVE  CutStep(s, text, c, rest) = CutStep(s, text, d, rest)
<1>1. CASE rest = 0 BY <1>1 DEF CutStep
<1>2. CASE rest # 0
  <2>1. Len(text) - rest \in 0..(Len(text) - 1) BY <1>2
  <2>2. Call(s, text, Len(text) - rest).to \in (Len(text) - rest + 1)..Len(text) BY <2>1 DEF CallsMove
  <2>3. Len(text) - Call(s, text, Len(text) - rest).to \in 0..(rest - 1) BY <2>2
  <2>4. c[Len(text) - Call(s, text, Len(text) - rest).to] = d[Len(text) - Call(s, text, Len(text) - rest).to] BY <2>3
  <2> QED BY <2>4 DEF CutStep
<1> QED BY <1>1, <1>2

LEMMA CutExists ==
  ASSUME NEW s, NEW text, Len(text) \in Nat, CallsMove(s, text), NEW n \in 0..Len(text)
  PROVE  \E cut : CutsUpTo(s, text, cut, n)
<1> DEFINE T == {m \in 0..Len(text) : ~\E cut : CutsUpTo(s, text, cut, m)}
<1>1. T = {}
  <2> SUFFICES ASSUME T # {} PROVE FALSE OBVIOUS
  <2>1. T \in SUBSET Nat OBVIOUS
  <2>2. PICK m \in T : \A k \in T : m <= k BY <2>1, LeastOf
  <2>3. m \in 0..Len(text) /\ ~\E cut : CutsUpTo(s, text, cut, m) BY <2>2
  <2>4. \E c : \A k \in 0..(m - 1) : c[k] = CutStep(s, text, c, k)
    <3>1. CASE m = 0 BY <3>1
    <3>2. CASE m # 0
      <4>1. m - 1 \in 0..Len(text) /\ m - 1 \notin T BY <2>2, <2>3, <3>2
      <4>2. PICK c : CutsUpTo(s, text, c, m - 1) BY <4>1
      <4> QED BY <4>2 DEF CutsUpTo
    <3> QED BY <3>1, <3>2
  <2>5. PICK c : \A k \in 0..(m - 1) : c[k] = CutStep(s, text, c, k) BY <2>4
  <2> DEFINE d == [k \in 0..m |-> CutStep(s, text, c, k)]
  <2>6. \A k \in 0..m : CutStep(s, text, c, k) = CutStep(s, text, d, k)
    <3> TAKE k \in 0..m
    <3>1. \A j \in 0..(k - 1) : c[j] = d[j] BY <2>3, <2>5
    <3>2. k \in 0..Len(text) BY <2>3
    <3> HIDE DEF d
    <3> QED BY <3>1, <3>2, StepLooksBehind
  <2>7. d = [k \in 0..m |-> CutStep(s, text, d, k)]
    <3>1. \A k \in 0..m : d[k] = CutStep(s, text, d, k) BY <2>6
    <3>2. d = [k \in 0..m |-> d[k]] OBVIOUS
    <3> HIDE DEF d
    <3> QED BY <3>1, <3>2
  <2>8. CutsUpTo(s, text, d, m)
    <3> HIDE DEF d
    <3> QED BY <2>7 DEF CutsUpTo
  <2> QED BY <2>3, <2>8
<1> QED BY <1>1

\* Cut satisfies its own equation.
LEMMA CutUnfolds ==
  ASSUME NEW s, NEW text, Len(text) \in Nat, CallsMove(s, text), NEW rest \in 0..Len(text)
  PROVE  Cut(s, text)[rest] = CutStep(s, text, Cut(s, text), rest)
<1>1. Cut(s, text) = CHOOSE cut : CutsUpTo(s, text, cut, Len(text)) BY DEF Cut, CutsUpTo, CutStep, TokenThere
<1>2. \E cut : CutsUpTo(s, text, cut, Len(text))
  <2>1. Len(text) \in 0..Len(text) OBVIOUS
  <2> QED BY <2>1, CutExists
<1>3. CutsUpTo(s, text, Cut(s, text), Len(text)) BY <1>1, <1>2
<1> QED BY <1>3 DEF CutsUpTo

\* What Cut holds are sequences.
LEMMA CutSequences ==
  ASSUME NEW s, NEW text, Len(text) \in Nat, CallsMove(s, text), NEW rest \in 0..Len(text)
  PROVE  /\ Cut(s, text)[rest].tokens \in Seq({TokenThere(s, text, pos) : pos \in Nat})
         /\ Cut(s, text)[rest].values \in Seq({Call(s, text, pos).value : pos \in Nat})
<1> DEFINE A == {TokenThere(s, text, pos) : pos \in Nat}
           B == {Call(s, text, pos).value : pos \in Nat}
           Fine(r) == Cut(s, text)[r].tokens \in Seq(A) /\ Cut(s, text)[r].values \in Seq(B)
           T == {r \in 0..Len(text) : ~Fine(r)}
<1>1. <<>> \in Seq(A) /\ <<>> \in Seq(B) OBVIOUS
<1>2. T = {}
  <2> SUFFICES ASSUME T # {} PROVE FALSE OBVIOUS
  <2>1. T \in SUBSET Nat OBVIOUS
  <2>2. PICK m \in T : \A k \in T : m <= k
    <3> HIDE DEF T
    <3> QED BY <2>1, LeastOf
  <2>3. m \in 0..Len(text) /\ ~Fine(m) BY <2>2
  <2> DEFINE pos == Len(text) - m
             past == Len(text) - Call(s, text, pos).to
  <2>4. Cut(s, text)[m] = CutStep(s, text, Cut(s, text), m) BY <2>3, CutUnfolds
  <2>5. m # 0 BY <2>3, <2>4, <1>1 DEF CutStep
  <2>6. pos \in 0..(Len(text) - 1) /\ pos \in Nat BY <2>3, <2>5
  <2>7. Call(s, text, pos).to \in (pos + 1)..Len(text) BY <2>6 DEF CallsMove
  <2>8. past \in 0..Len(text) /\ past < m BY <2>3, <2>7
  <2>9. past \notin T
    <3> HIDE DEF T, past
    <3> QED BY <2>1, <2>2, <2>8
  <2>10. Fine(past) BY <2>8, <2>9
  <2>11. TokenThere(s, text, pos) \in A /\ Call(s, text, pos).value \in B BY <2>6
  <2> HIDE DEF A, B
  <2>12. <<TokenThere(s, text, pos)>> \in Seq(A) /\ <<Call(s, text, pos).value>> \in Seq(B) BY <2>11
  <2>13. /\ <<TokenThere(s, text, pos)>> \o Cut(s, text)[past].tokens \in Seq(A)
         /\ <<Call(s, text, pos).value>> \o Cut(s, text)[past].values \in Seq(B)
    BY <2>10, <2>12, ConcatProperties
  <2>14. Fine(m) BY <1>1, <2>4, <2>10, <2>13 DEF CutStep
  <2> QED BY <2>3, <2>14
<1> HIDE DEF A, B
<1>3. Fine(rest) BY <1>2
<1> QED BY <1>3 DEF A, B

\* Longest is what its definition asks for, and nothing else is.
LEMMA LongestFacts ==
  ASSUME NEW s, NEW text, Len(text) \in Nat, NEW pos \in 0..Len(text)
  PROVE  /\ Longest(s, text, pos) \in Matches(s, text, pos) \cup {-1}
         /\ \A n \in Matches(s, text, pos) \cup {-1} :
              (\A m \in Matches(s, text, pos) : m <= n) => Longest(s, text, pos) = n
<1> DEFINE M == Matches(s, text, pos)
           N == Len(text)
           R == {N - m : m \in M \cup {-1}}
<1>1. M \subseteq 0..N BY DEF Matches
<1> HIDE DEF M
<1>2. R \in SUBSET Nat /\ R # {}
  <2>1. \A m \in M \cup {-1} : N - m \in Nat BY <1>1
  <2>2. N - (-1) \in R OBVIOUS
  <2> QED BY <2>1, <2>2
<1>3. PICK r \in R : \A k \in R : r <= k
  <2> HIDE DEF R
  <2> QED BY <1>2, LeastOf
<1>4. PICK n \in M \cup {-1} : r = N - n BY <1>3
<1>5. \A m \in M : m <= n
  <2> TAKE m \in M
  <2>1. N - m \in R OBVIOUS
  <2>2. r <= N - m
    <3> HIDE DEF R, N
    <3> QED BY <1>3, <2>1
  <2>3. m \in Int /\ n \in Int /\ r = N - n BY <1>1, <1>4
  <2> QED BY <2>2, <2>3
<1>6. Longest(s, text, pos) = CHOOSE k \in M \cup {-1} : \A m \in M : m <= k BY DEF Longest, M
<1>7. Longest(s, text, pos) \in M \cup {-1} /\ \A m \in M : m <= Longest(s, text, pos) BY <1>4, <1>5, <1>6
<1>8. \A k \in M \cup {-1} : (\A m \in M : m <= k) => Longest(s, text, pos) = k
  <2> DEFINE L == Longest(s, text, pos)
  <2> TAKE k \in M \cup {-1}
  <2> HAVE \A m \in M : m <= k
  <2>1. L \in M \cup {-1} /\ \A m \in M : m <= L BY <1>7
  <2> HIDE DEF L
  <2>2. L = k BY <1>1, <2>1
  <2> QED BY <2>2 DEF L
<1> QED BY <1>7, <1>8 DEF M

\* How far an action reads, character by character.
LEMMA ReadToFacts ==
  ASSUME NEW text, Len(text) \in Nat, NEW pos \in 0..Len(text), NEW until
  PROVE  /\ ReadTo(text, pos, until) \in pos..Len(text)
         /\ pos = Len(text) => ReadTo(text, pos, until) = Len(text)
         /\ pos < Len(text) /\ text[pos + 1] = until => ReadTo(text, pos, until) = pos + 1
         /\ pos < Len(text) /\ text[pos + 1] # until => ReadTo(text, pos, until) = ReadTo(text, pos + 1, until)
<1> DEFINE F == {k \in (pos + 1)..Len(text) : text[k] = until}
           G == {k \in (pos + 2)..Len(text) : text[k] = until}
<1>1. ReadTo(text, pos, until) = IF F = {} THEN Len(text) ELSE CHOOSE k \in F : \A j \in F : k <= j BY DEF ReadTo
<1>2. F # {} => \E k \in F : \A j \in F : k <= j
  <2>1. F \in SUBSET Nat OBVIOUS
  <2> HIDE DEF F
  <2> QED BY <2>1, LeastOf
<1>3. F # {} => ReadTo(text, pos, until) \in F /\ \A j \in F : ReadTo(text, pos, until) <= j BY <1>1, <1>2
<1>4. ReadTo(text, pos, until) \in pos..Len(text)
  <2>1. CASE F = {} BY <1>1, <2>1
  <2>2. CASE F # {} BY <1>3, <2>2
  <2> QED BY <2>1, <2>2
<1>5. pos = Len(text) => ReadTo(text, pos, until) = Len(text)
  <2> HAVE pos = Len(text)
  <2>1. F = {} OBVIOUS
  <2> QED BY <1>1, <2>1
<1>6. pos < Len(text) /\ text[pos + 1] = until => ReadTo(text, pos, until) = pos + 1
  <2> HAVE pos < Len(text) /\ text[pos + 1] = until
  <2>1. pos + 1 \in F OBVIOUS
  <2>2. ReadTo(text, pos, until) \in F /\ ReadTo(text, pos, until) <= pos + 1 BY <1>3, <2>1
  <2> QED BY <2>2
<1>7. pos < Len(text) /\ text[pos + 1] # until => ReadTo(text, pos, until) = ReadTo(text, pos + 1, until)
  <2> HAVE pos < Len(text) /\ text[pos + 1] # until
  <2>1. F = G
    <3>1. \A k \in (pos + 1)..Len(text) : k = pos + 1 \/ k \in (pos + 2)..Len(text) OBVIOUS
    <3> QED BY <3>1
  <2>2. ReadTo(text, pos + 1, until) = IF G = {} THEN Len(text) ELSE CHOOSE k \in G : \A j \in G : k <= j
    BY DEF ReadTo
  <2> HIDE DEF F, G
  <2> QED BY <1>1, <2>1, <2>2
<1> QED BY <1>4, <1>5, <1>6, <1>7

\* A scanner whose rules do one of the three things they can do.
ActionsKnown(s) == \A q \in DOMAIN s.action : s.action[q].kind \in {"token", "skip", "read"}

Past(s, text, pos) == IF Longest(s, text, pos) > 0 THEN pos + Longest(s, text, pos) ELSE pos + 1
ActionThere(s, text, pos) == s.action[EndOf(s, text, pos, Longest(s, text, pos))]

\* A call, by what the longest match asks for.
LEMMA CallFacts ==
  ASSUME NEW s, NEW text, Len(text) \in Nat, NEW pos \in 0..(Len(text) - 1), ActionsKnown(s)
  PROVE  /\ Past(s, text, pos) \in (pos + 1)..Len(text)
         /\ Call(s, text, pos).to \in (pos + 1)..Len(text)
         /\ Longest(s, text, pos) = -1 =>
              Call(s, text, pos) = [size |-> 1, type |-> ErrorType, value |-> NoValue, to |-> Past(s, text, pos)]
         /\ Longest(s, text, pos) # -1 =>
              LET act == ActionThere(s, text, pos)
              IN  /\ Call(s, text, pos).size = Longest(s, text, pos)
                  /\ act.kind = "token" =>
                       Call(s, text, pos) = [size |-> Longest(s, text, pos), type |-> act.type,
                                             value |-> act.value, to |-> Past(s, text, pos)]
                  /\ act.kind # "token" => Call(s, text, pos).type = 0
                  /\ act.kind = "skip" => Call(s, text, pos).to = Past(s, text, pos)
                  /\ act.kind = "read" => Call(s, text, pos).to = ReadTo(text, Past(s, text, pos), act.until)
<1> DEFINE n == Longest(s, text, pos)
           past == Past(s, text, pos)
           act == ActionThere(s, text, pos)
           call == Call(s, text, pos)
<1>1. n \in Matches(s, text, pos) \cup {-1}
  <2>1. pos \in 0..Len(text) OBVIOUS
  <2> QED BY <2>1, LongestFacts
<1>2. n \in 0..(Len(text) - pos) \cup {-1} BY <1>1 DEF Matches
<1>3. past = IF n > 0 THEN pos + n ELSE pos + 1 BY DEF Past
<1>4. past \in (pos + 1)..Len(text)
  <2> HIDE DEF n, past
  <2> QED BY <1>2, <1>3
<1>5. n # -1 => act.kind \in {"token", "skip", "read"}
  <2> HAVE n # -1
  <2>1. EndOf(s, text, pos, n) \in DOMAIN s.action BY <1>1 DEF Matches
  <2> QED BY <2>1 DEF ActionsKnown, ActionThere
<1>6. call = CASE n = -1                       -> [size |-> 1, type |-> ErrorType, value |-> NoValue, to |-> past]
               [] n # -1 /\ act.kind = "token" -> [size |-> n, type |-> act.type, value |-> act.value, to |-> past]
               [] n # -1 /\ act.kind = "read"  -> [size |-> n, type |-> 0, value |-> NoValue, to |-> ReadTo(text, past, act.until)]
               [] n # -1 /\ act.kind = "skip"  -> [size |-> n, type |-> 0, value |-> NoValue, to |-> past]
  BY DEF Call, Past, ActionThere
<1> HIDE DEF n, past, act, call
<1>7. n = -1 => call = [size |-> 1, type |-> ErrorType, value |-> NoValue, to |-> past] BY <1>6
<1>8. n # -1 /\ act.kind = "token" => call = [size |-> n, type |-> act.type, value |-> act.value, to |-> past]
  BY <1>6
<1>9. n # -1 /\ act.kind = "read" =>
        call = [size |-> n, type |-> 0, value |-> NoValue, to |-> ReadTo(text, past, act.until)]
  BY <1>6
<1>10. n # -1 /\ act.kind = "skip" => call = [size |-> n, type |-> 0, value |-> NoValue, to |-> past]
  BY <1>6
<1>11. ReadTo(text, past, act.until) \in (pos + 1)..Len(text)
  <2>1. past \in 0..Len(text) BY <1>4
  <2>2. ReadTo(text, past, act.until) \in past..Len(text) BY <2>1, ReadToFacts
  <2> QED BY <1>4, <2>2
<1>12. call.to \in (pos + 1)..Len(text) BY <1>4, <1>5, <1>7, <1>8, <1>9, <1>10, <1>11
<1> QED BY <1>4, <1>5, <1>7, <1>8, <1>9, <1>10, <1>12 DEF n, past, act, call

LEMMA CallsMoveAlways ==
  ASSUME NEW s, NEW text, Len(text) \in Nat, ActionsKnown(s)
  PROVE  CallsMove(s, text)
BY CallFacts DEF CallsMove

\* Line and column, by the line ends before a position.
LEMMA PlaceNamed ==
  ASSUME Len(source) \in Nat, NEW p \in Places, InStep(p)
  PROVE  p.line = LineAt(source, p.pos) /\ p.column = ColumnAt(source, p.pos)
<1> DEFINE E == LineEnds(source, p.pos)
<1>0. p.pos \in Nat /\ p.column \in Nat BY DEF Places
<1>1. Breaks(p.pos) = E BY DEF Breaks, LineEnds
<1>2. p.line = LineAt(source, p.pos)
  <2>1. p.line = Cardinality(Breaks(p.pos)) + 1 BY DEF InStep
  <2> QED BY <1>1, <2>1 DEF LineAt
<1>3. PICK b \in 0..p.pos :
        /\ b = 0 \/ source[b] = NewLine
        /\ \A k \in (b + 1)..p.pos : source[k] # NewLine
        /\ p.column = p.pos - b + 1
  BY DEF InStep
<1>4. E = {k \in 1..p.pos : source[k] = NewLine} BY DEF LineEnds
<1>5. b \in E \cup {0} /\ \A k \in E : k <= b
  <2> HIDE DEF E
  <2>1. b \in E \cup {0} BY <1>0, <1>3, <1>4
  <2>2. \A k \in E : k <= b
    <3> TAKE k \in E
    <3>1. k \in 1..p.pos /\ source[k] = NewLine BY <1>4
    <3>2. k \notin (b + 1)..p.pos BY <1>3, <3>1
    <3> QED BY <1>0, <1>3, <3>1, <3>2
  <2> QED BY <2>1, <2>2
<1>6. \A c \in E \cup {0} : (\A k \in E : k <= c) => c = b
  <2>1. E \subseteq Nat \ {0} BY <1>0, <1>4
  <2> HIDE DEF E
  <2> QED BY <1>5, <2>1
<1>7. b = CHOOSE c \in E \cup {0} : \A k \in E : k <= c
  <2> HIDE DEF E
  <2> QED BY <1>5, <1>6
<1>8. ColumnAt(source, p.pos) = p.pos + 1 - b BY <1>7 DEF ColumnAt
<1>9. p.column = p.pos + 1 - b BY <1>0, <1>3
<1> QED BY <1>2, <1>8, <1>9

\* Behind the place where the scan stopped a run has no state.
LEMMA RunBeyond ==
  ASSUME IInv, pc = "scan", ~CanMove, NEW n \in Nat, n > scan.pos - from.pos, from.pos + n <= Len(source)
  PROVE  RunFrom(scanner, Text(from.pos, from.pos + n))[n] = NoState
<1>0. TypeOK BY DEF IInv
<1>1. /\ Len(trail) = scan.pos - from.pos + 1 /\ trail[1] = scanner.start
      /\ \A k \in 1..(Len(trail) - 1) :
           /\ source[from.pos + k] \in DOMAIN scanner.next[trail[k]]
           /\ trail[k + 1] = scanner.next[trail[k]][source[from.pos + k]]
      /\ from.pos <= accepted.pos /\ accepted.pos <= scan.pos
  BY DEF IInv, LongestMatch
<1>2. from.pos \in Nat /\ scan.pos \in 0..Len(source) /\ Len(source) \in Nat /\ accepted.pos \in Nat
  BY <1>0, PlaceFacts, ScannerFacts DEF Places
<1> DEFINE L == scan.pos - from.pos
           text == Text(from.pos, from.pos + n)
           f == [k \in 0..n |-> IF k <= L THEN trail[k + 1] ELSE NoState]
<1>3. L \in Nat /\ L < n /\ Len(trail) = L + 1 /\ from.pos + L = scan.pos BY <1>1, <1>2
<1>4. Len(text) = n /\ \A k \in 1..n : text[k] = source[from.pos + k] BY <1>0, <1>2, TextFacts
<1> HIDE DEF text
<1>5. \A k \in 1..(L + 1) : trail[k] # NoState
  <2> TAKE k \in 1..(L + 1)
  <2>1. trail[k] \in DOMAIN scanner.next BY <1>0, <1>3 DEF TypeOK
  <2> QED BY <1>0, <2>1, ScannerFacts
<1>6. source[from.pos + L + 1] \notin DOMAIN scanner.next[trail[L + 1]]
  <2>1. scan.pos < Len(source) BY <1>2, <1>3
  <2>2. state = trail[L + 1] BY <1>3 DEF state
  <2>3. ~AtEnd(scan.pos) BY <1>2, <2>1 DEF AtEnd
  <2>4. source[scan.pos + 1] \notin DOMAIN scanner.next[trail[L + 1]] BY <2>2, <2>3 DEF CanMove
  <2>5. from.pos + L + 1 = scan.pos + 1 BY <1>2
  <2> HIDE DEF L
  <2> QED BY <2>4, <2>5
<1>7. \A k \in 0..n : f[k] = IF k = 0 THEN scanner.start ELSE Follow(scanner, f[k - 1], text[k])
  <2> TAKE k \in 0..n
  <2>1. CASE k = 0 BY <1>1, <1>3, <2>1
  <2>2. CASE k # 0 /\ k <= L
    <3>1. k \in 1..n /\ k - 1 \in 0..n /\ k \in 1..(Len(trail) - 1) /\ k \in 1..(L + 1) BY <1>3, <2>2
    <3>2. f[k] = trail[k + 1] /\ f[k - 1] = trail[k] BY <1>3, <2>2, <3>1
    <3>3. text[k] = source[from.pos + k] BY <1>4, <3>1
    <3> QED BY <1>1, <1>5, <2>2, <3>1, <3>2, <3>3 DEF Follow
  <2>3. CASE k = L + 1
    <3>1. f[k] = NoState /\ f[k - 1] = trail[L + 1] /\ k # 0 BY <1>3, <2>3
    <3>2. text[k] = source[from.pos + L + 1] BY <1>2, <1>3, <1>4, <2>3
    <3> QED BY <1>6, <3>1, <3>2 DEF Follow
  <2>4. CASE k > L + 1
    <3>1. f[k] = NoState /\ f[k - 1] = NoState /\ k # 0 BY <1>3, <2>4
    <3> QED BY <3>1 DEF Follow
  <2> QED BY <1>3, <2>1, <2>2, <2>3, <2>4
<1>8. IsRun(f, scanner, text) BY <1>4, <1>7 DEF IsRun
<1>9. RunFrom(scanner, text) = f
  <2> HIDE DEF f
  <2> QED BY <1>4, <1>8, RunUnique
<1>10. f[n] = NoState BY <1>3
<1> QED BY <1>9, <1>10 DEF text

\* When the scan stops, the remembered place is that of the longest match.
LEMMA ScanFindsLongest ==
  ASSUME IInv, pc = "scan", ~CanMove
  PROVE  /\ accepted.state = NoState => Longest(scanner, source, from.pos) = -1
         /\ accepted.state # NoState =>
              /\ Longest(scanner, source, from.pos) = accepted.pos - from.pos
              /\ EndOf(scanner, source, from.pos, accepted.pos - from.pos) = accepted.state
<1>0. TypeOK BY DEF IInv
<1> DEFINE L == scan.pos - from.pos
           n == accepted.pos - from.pos
           M == Matches(scanner, source, from.pos)
<1>1. /\ Len(trail) = scan.pos - from.pos + 1 /\ trail[1] = scanner.start
      /\ from.pos <= accepted.pos /\ accepted.pos <= scan.pos
      /\ accepted.state = IF IsAccepting(trail[accepted.pos - from.pos + 1])
                          THEN trail[accepted.pos - from.pos + 1] ELSE NoState
      /\ accepted.state = NoState => accepted.pos = from.pos
      /\ \A k \in (accepted.pos - from.pos + 2)..Len(trail) : ~IsAccepting(trail[k])
  BY DEF IInv, LongestMatch
<1>2. from.pos \in Nat /\ scan.pos \in 0..Len(source) /\ Len(source) \in Nat /\ accepted.pos \in Nat
  BY <1>0, PlaceFacts, ScannerFacts DEF Places
<1>3. from.pos \in 0..Len(source) /\ L \in Nat /\ n \in 0..L /\ L <= Len(source) - from.pos /\ Len(trail) = L + 1
  BY <1>1, <1>2
<1>4. \A m \in 0..L : EndOf(scanner, source, from.pos, m) = trail[m + 1] BY RunAlong DEF EndOf, Text
<1>5. \A m \in 0..(Len(source) - from.pos) : m > L => EndOf(scanner, source, from.pos, m) = NoState
  <2> TAKE m \in 0..(Len(source) - from.pos)
  <2> HAVE m > L
  <2>1. m \in Nat /\ from.pos + m <= Len(source) BY <1>2
  <2> QED BY <2>1, RunBeyond DEF EndOf, Text
<1>6. NoState \notin DOMAIN scanner.action BY <1>0, ScannerFacts
<1>7. \A m \in M : m \in 0..L /\ IsAccepting(trail[m + 1])
  <2> TAKE m \in M
  <2>1. m \in 0..(Len(source) - from.pos) /\ EndOf(scanner, source, from.pos, m) \in DOMAIN scanner.action
    BY DEF Matches
  <2>2. m \in 0..L BY <1>3, <1>5, <1>6, <2>1
  <2> QED BY <1>4, <2>1, <2>2 DEF IsAccepting
<1>8. \A m \in M : m <= n
  <2> TAKE m \in M
  <2>1. m \in 0..L /\ IsAccepting(trail[m + 1]) BY <1>7
  <2>2. m + 1 \notin (n + 2)..Len(trail) BY <1>1, <2>1
  <2> QED BY <1>3, <2>1, <2>2
<1>9. CASE accepted.state = NoState
  <2>1. n = 0 BY <1>1, <1>2, <1>9
  <2>2. trail[1] # NoState BY <1>0, <1>1, ScannerFacts
  <2>3. ~IsAccepting(trail[1]) BY <1>1, <1>2, <1>9, <2>1, <2>2
  <2>4. M = {}
    <3> SUFFICES ASSUME NEW m \in M PROVE FALSE OBVIOUS
    <3>1. m \in 0..L /\ IsAccepting(trail[m + 1]) /\ m <= 0 BY <1>7, <1>8, <2>1
    <3> QED BY <2>3, <3>1
  <2> QED BY <1>2, <1>3, <1>9, <2>4, LongestFacts
<1>10. CASE accepted.state # NoState
  <2>1. IsAccepting(trail[n + 1]) /\ accepted.state = trail[n + 1] BY <1>1, <1>10
  <2>2. EndOf(scanner, source, from.pos, n) = accepted.state BY <1>3, <1>4, <2>1
  <2>3. n \in M BY <1>3, <2>1, <2>2 DEF Matches, IsAccepting
  <2>4. Longest(scanner, source, from.pos) = n
    <3> HIDE DEF n, M
    <3> QED BY <1>2, <1>3, <1>8, <2>3, LongestFacts DEF M
  <2> QED BY <1>10, <2>2, <2>4
<1> QED BY <1>9, <1>10

-----------------------------------------------------------------------------
(***************************************************************************)
(* What is still to be found: the tokens of the whole text are those that  *)
(* are there and those the reference cuts from the rest.                   *)
(***************************************************************************)
Owed(s, text, m, ts, vs, pos) ==
  LET all  == Cut(s, text)[Len(text)]
      rest == Cut(s, text)[Len(text) - pos]
  IN  /\ all.tokens = ts \o rest.tokens
      /\ m # "detailed" => all.values = vs \o rest.values
      /\ all.threw = rest.threw

LEMMA PushOne ==
  ASSUME NEW S, NEW T, NEW ts \in Seq(S), NEW r \in Seq(T), NEW e \in T
  PROVE  ts \o (<<e>> \o r) = Append(ts, e) \o r
<1> DEFINE U == S \cup T
<1>1. ts \in Seq(U) /\ r \in Seq(U) /\ e \in U
  <2>1. S \subseteq U /\ T \subseteq U OBVIOUS
  <2> HIDE DEF U
  <2> QED BY <2>1, SeqMonotonic
<1> HIDE DEF U
<1>2. <<e>> \in Seq(U) BY <1>1
<1>3. Append(ts, e) = ts \o <<e>> BY <1>1, AppendIsConcat
<1> QED BY <1>1, <1>2, <1>3, ConcatAssociative

\* One call pays what its turn owes.
LEMMA Turn ==
  ASSUME NEW s, NEW text, Len(text) \in Nat, ActionsKnown(s), NEW pos \in 0..(Len(text) - 1),
         NEW S, NEW V, NEW ts \in Seq(S), NEW vs \in Seq(V), NEW m, Owed(s, text, m, ts, vs, pos)
  PROVE  LET call == Call(s, text, pos)
         IN  /\ call.size < Capacity /\ call.type = 0 => Owed(s, text, m, ts, vs, call.to)
             /\ call.size < Capacity /\ call.type # 0 =>
                  Owed(s, text, m, Append(ts, TokenThere(s, text, pos)), Append(vs, call.value), call.to)
             /\ call.size >= Capacity => Cut(s, text)[Len(text) - pos] = [tokens |-> <<>>, values |-> <<>>, threw |-> TRUE]
<1> DEFINE call == Call(s, text, pos)
           cut == Cut(s, text)
           this == cut[Len(text) - pos]
           more == cut[Len(text) - call.to]
           A == {TokenThere(s, text, p) : p \in Nat}
           B == {Call(s, text, p).value : p \in Nat}
<1>1. CallsMove(s, text) BY CallsMoveAlways
<1>2. call.to \in (pos + 1)..Len(text) BY CallFacts
<1>3. Len(text) - pos \in 0..Len(text) /\ Len(text) - pos # 0 /\ Len(text) - (Len(text) - pos) = pos OBVIOUS
<1>4. this = CutStep(s, text, cut, Len(text) - pos) BY <1>1, <1>3, CutUnfolds
<1>5. this = IF call.size >= Capacity THEN [tokens |-> <<>>, values |-> <<>>, threw |-> TRUE]
             ELSE IF call.type = 0 THEN more
             ELSE [tokens |-> <<TokenThere(s, text, pos)>> \o more.tokens,
                   values |-> <<call.value>> \o more.values, threw |-> more.threw]
  BY <1>3, <1>4 DEF CutStep
<1>6. Len(text) - call.to \in 0..Len(text) BY <1>2
<1>7. more.tokens \in Seq(A) /\ more.values \in Seq(B) BY <1>1, <1>6, CutSequences
<1>8. TokenThere(s, text, pos) \in A /\ call.value \in B OBVIOUS
<1> HIDE DEF A, B
<1>9. /\ ts \o (<<TokenThere(s, text, pos)>> \o more.tokens) = Append(ts, TokenThere(s, text, pos)) \o more.tokens
      /\ vs \o (<<call.value>> \o more.values) = Append(vs, call.value) \o more.values
  <2> DEFINE t == TokenThere(s, text, pos)
             v == call.value
             rt == more.tokens
             rv == more.values
  <2>1. t \in A /\ rt \in Seq(A) BY <1>7, <1>8
  <2>2. v \in B /\ rv \in Seq(B) BY <1>7, <1>8
  <2> HIDE DEF t, v, rt, rv, call, more, cut, this
  <2>3. ts \o (<<t>> \o rt) = Append(ts, t) \o rt BY <2>1, PushOne, SMTT(60)
  <2>4. vs \o (<<v>> \o rv) = Append(vs, v) \o rv BY <2>2, PushOne, SMTT(60)
  <2> QED BY <2>3, <2>4 DEF t, v, rt, rv
<1>10. /\ cut[Len(text)].tokens = ts \o this.tokens
       /\ m # "detailed" => cut[Len(text)].values = vs \o this.values
       /\ cut[Len(text)].threw = this.threw
  BY DEF Owed
<1>11. Capacity \in Nat BY CapacityAssumption
<1>12. call.size \in Int
  <2>1. pos \in 0..Len(text) OBVIOUS
  <2>2. Longest(s, text, pos) \in Matches(s, text, pos) \cup {-1} BY <2>1, LongestFacts
  <2>3. Matches(s, text, pos) \subseteq Int BY DEF Matches
  <2>4. Longest(s, text, pos) \in Int BY <2>2, <2>3
  <2>5. call.size = 1 \/ call.size = Longest(s, text, pos) BY CallFacts
  <2> QED BY <2>4, <2>5
<1> HIDE DEF call, cut, this, more
<1>13. call.size < Capacity /\ call.type = 0 => this = more BY <1>5, <1>11, <1>12
<1>14. call.size < Capacity /\ call.type # 0 =>
         this = [tokens |-> <<TokenThere(s, text, pos)>> \o more.tokens,
                 values |-> <<call.value>> \o more.values, threw |-> more.threw]
  BY <1>5, <1>11, <1>12
<1>15. call.size < Capacity /\ call.type = 0 => Owed(s, text, m, ts, vs, call.to)
  BY <1>10, <1>13 DEF Owed, cut, more
<1>16. call.size < Capacity /\ call.type # 0 =>
         Owed(s, text, m, Append(ts, TokenThere(s, text, pos)), Append(vs, call.value), call.to)
  <2> HAVE call.size < Capacity /\ call.type # 0
  <2>1. /\ this.tokens = <<TokenThere(s, text, pos)>> \o more.tokens
        /\ this.values = <<call.value>> \o more.values /\ this.threw = more.threw
    BY <1>14
  <2>2. /\ cut[Len(text)].tokens = Append(ts, TokenThere(s, text, pos)) \o more.tokens
        /\ m # "detailed" => cut[Len(text)].values = Append(vs, call.value) \o more.values
        /\ cut[Len(text)].threw = more.threw
    BY <1>9, <1>10, <2>1
  <2> QED BY <2>2 DEF Owed, cut, more
<1> QED BY <1>5, <1>15, <1>16 DEF call, cut, this

\* At the beginning everything is owed, and nothing at the end.
LEMMA OwedEnds ==
  ASSUME NEW s, NEW text, Len(text) \in Nat, ActionsKnown(s), NEW m
  PROVE  /\ Owed(s, text, m, <<>>, <<>>, 0)
         /\ Cut(s, text)[0] = [tokens |-> <<>>, values |-> <<>>, threw |-> FALSE]
<1>1. CallsMove(s, text) BY CallsMoveAlways
<1>2. /\ Cut(s, text)[Len(text)].tokens \in Seq({TokenThere(s, text, pos) : pos \in Nat})
      /\ Cut(s, text)[Len(text)].values \in Seq({Call(s, text, pos).value : pos \in Nat})
  <2>1. Len(text) \in 0..Len(text) OBVIOUS
  <2> QED BY <1>1, <2>1, CutSequences
<1>3. Owed(s, text, m, <<>>, <<>>, 0) BY <1>2, ConcatEmptySeq DEF Owed
<1>4. Cut(s, text)[0] = CutStep(s, text, Cut(s, text), 0)
  <2>1. 0 \in 0..Len(text) OBVIOUS
  <2> QED BY <1>1, <2>1, CutUnfolds
<1> QED BY <1>3, <1>4 DEF CutStep

\* What the match taken by lex_one has to do with the call of the reference.
Judged ==
  /\ from.pos < Len(source) /\ from.pos <= accepted.pos /\ accepted.pos - from.pos < Capacity
  /\ Longest(scanner, source, from.pos) = accepted.pos - from.pos
  /\ EndOf(scanner, source, from.pos, accepted.pos - from.pos) = accepted.state
  /\ cursor.pos = Past(scanner, source, from.pos) /\ yytext = Matched

\* The tokens and values as they will be once the token in flight is collected.
WithToken == IF token.type = 0 THEN tokens ELSE Append(tokens, token)
WithValue == IF token.type = 0 THEN values ELSE Append(values, yylval)

\* From where on something is owed, at each point of the loops.
Owing ==
  /\ mode = "detailed" => values = <<>>
  /\ pc = "call" => Owed(scanner, source, mode, tokens, values, cursor.pos)
  /\ pc = "scan" => /\ Owed(scanner, source, mode, tokens, values, from.pos)
                    /\ mode # "detailed" => yylval = NoValue
  /\ pc = "act"  => Owed(scanner, source, mode, tokens, values, from.pos) /\ Judged
  /\ pc = "read" => Owed(scanner, source, mode, tokens, values, ReadTo(source, cursor.pos, RuleAction.until))
  /\ pc = "loop" => Owed(scanner, source, mode, WithToken, WithValue, cursor.pos)
  /\ pc = "done" => Owed(scanner, source, mode, tokens, values, Len(source))
  /\ pc = "threw" => /\ from.pos < Len(source) /\ Call(scanner, source, from.pos).size >= Capacity
                     /\ Owed(scanner, source, mode, tokens, values, from.pos)

LEMMA SourceFacts ==
  ASSUME IInv
  PROVE  /\ Len(source) \in Nat /\ ActionsKnown(scanner) /\ cursor.pos \in 0..Len(source) /\ from.pos \in 0..Len(source)
         /\ tokens \in Seq(Tokens) /\ values \in Seq(SemanticValues \cup {NoValue})
<1>0. TypeOK BY DEF IInv
<1>1. from.pos \in 0..Len(source) BY <1>0 DEF TypeOK, Places
<1>2. tokens \in Seq(Tokens) /\ values \in Seq(SemanticValues \cup {NoValue}) BY <1>0 DEF TypeOK
<1>3. ActionsKnown(scanner) BY <1>0, ScannerFacts DEF ActionsKnown
<1> QED BY <1>0, <1>1, <1>2, <1>3, PlaceFacts, ScannerFacts

\* Turn, for the loops.
LEMMA TurnHere ==
  ASSUME IInv, from.pos < Len(source), Owed(scanner, source, mode, tokens, values, from.pos)
  PROVE  LET call == Call(scanner, source, from.pos)
         IN  /\ call.size < Capacity /\ call.type = 0 => Owed(scanner, source, mode, tokens, values, call.to)
             /\ call.size < Capacity /\ call.type # 0 =>
                  Owed(scanner, source, mode, Append(tokens, TokenThere(scanner, source, from.pos)),
                       Append(values, call.value), call.to)
             /\ call.size >= Capacity =>
                  Cut(scanner, source)[Len(source) - from.pos] = [tokens |-> <<>>, values |-> <<>>, threw |-> TRUE]
<1>1. from.pos \in 0..(Len(source) - 1) BY SourceFacts
<1> HIDE DEF Tokens, SemanticValues
<1>2. /\ Len(source) \in Nat /\ ActionsKnown(scanner)
      /\ tokens \in Seq(Tokens) /\ values \in Seq(SemanticValues \cup {NoValue})
  BY SourceFacts
<1> QED BY <1>1, <1>2, Turn, SMTT(60)

\* The token that lex_one makes of its lexeme is the one the reference asks for.
LEMMA TokenIsThere ==
  ASSUME IInv, NEW n \in Nat, from.pos + n <= Len(source), NEW type, NEW lexeme, lexeme = Text(from.pos, from.pos + n),
         Call(scanner, source, from.pos).size = n, Call(scanner, source, from.pos).type = type
  PROVE  TokenThere(scanner, source, from.pos) = TokenOf(type, lexeme)
<1>1. from.line = LineAt(source, from.pos) /\ from.column = ColumnAt(source, from.pos)
  BY SourceFacts, PlaceFacts, PlaceNamed
<1> QED BY <1>1 DEF TokenThere, TokenOf, Text

\* While an action runs, the reference's call is known.
LEMMA CallHere ==
  ASSUME IInv, Owing, pc = "act"
  PROVE  LET call == Call(scanner, source, from.pos)
         IN  /\ call.size = accepted.pos - from.pos /\ call.size < Capacity
             /\ RuleAction.kind \in {"token", "skip", "read"}
             /\ RuleAction.kind = "token" =>
                  call.type = RuleAction.type /\ call.value = RuleAction.value /\ call.to = cursor.pos
             /\ RuleAction.kind = "skip" => call.type = 0 /\ call.to = cursor.pos
             /\ RuleAction.kind = "read" => call.type = 0 /\ call.to = ReadTo(source, cursor.pos, RuleAction.until)
             /\ TokenThere(scanner, source, from.pos) = TokenOf(call.type, yytext)
<1>0. Judged BY DEF Owing
<1>1. /\ from.pos \in 0..(Len(source) - 1) /\ Len(source) \in Nat /\ ActionsKnown(scanner)
      /\ accepted.pos \in 0..Len(source)
  BY <1>0, SourceFacts, PlaceFacts DEF Judged
<1>2. Longest(scanner, source, from.pos) # -1
  BY <1>0, <1>1 DEF Judged
<1>3. ActionThere(scanner, source, from.pos) = RuleAction BY <1>0 DEF Judged, ActionThere, RuleAction
<1>4. accepted.state \in DOMAIN scanner.action BY MatchAnalysed
<1>5. RuleAction.kind \in {"token", "skip", "read"} BY <1>1, <1>4 DEF ActionsKnown, RuleAction
<1>6. LET call == Call(scanner, source, from.pos)
      IN  /\ call.size = accepted.pos - from.pos
          /\ RuleAction.kind = "token" =>
               call = [size |-> accepted.pos - from.pos, type |-> RuleAction.type,
                       value |-> RuleAction.value, to |-> cursor.pos]
          /\ RuleAction.kind # "token" => call.type = 0
          /\ RuleAction.kind = "skip" => call.to = cursor.pos
          /\ RuleAction.kind = "read" => call.to = ReadTo(source, cursor.pos, RuleAction.until)
  BY <1>0, <1>1, <1>2, <1>3, CallFacts DEF Judged
<1>7. TokenThere(scanner, source, from.pos) = TokenOf(Call(scanner, source, from.pos).type, yytext)
  <2>1. accepted.pos - from.pos \in Nat /\ from.pos + (accepted.pos - from.pos) = accepted.pos BY <1>0, <1>1 DEF Judged
  <2>2. yytext = Text(from.pos, from.pos + (accepted.pos - from.pos)) BY <1>0, <2>1 DEF Judged, Matched
  <2>3. from.pos + (accepted.pos - from.pos) <= Len(source) BY <1>1, <2>1
  <2> QED BY <1>6, <2>1, <2>2, <2>3, TokenIsThere
<1>8. accepted.pos - from.pos < Capacity BY <1>0 DEF Judged
<1> QED BY <1>5, <1>6, <1>7, <1>8

LEMMA OwingAtFirst == Init => Owing
<1> SUFFICES ASSUME Init PROVE Owing OBVIOUS
<1>1. IInv BY InitInv
<1>2. Owed(scanner, source, mode, <<>>, <<>>, 0) BY <1>1, SourceFacts, OwedEnds
<1>3. cursor.pos = 0 /\ tokens = <<>> /\ values = <<>> /\ pc = "call" BY DEF Init, Origin
<1> QED BY <1>2, <1>3 DEF Owing

\* A match that is taken is the longest, a character that is refused has none, and a
\* lexeme that does not fit is one of the two.
LEMMA OwingScanned ==
  ASSUME IInv, Owing, ReportError \/ TakeMatch \/ Overflow
  PROVE  Owing'
<1>1. pc = "scan" /\ ~CanMove /\ UNCHANGED <<input, mode, source, from, accepted, yylval, tokens, values>>
  BY DEF ReportError, TakeMatch, Overflow
<1>2. scanner' = scanner BY <1>1, Static
<1>3. /\ mode = "detailed" => values = <<>>
      /\ Owed(scanner, source, mode, tokens, values, from.pos)
      /\ mode # "detailed" => yylval = NoValue
  BY <1>1 DEF Owing
<1>4. cursor = from /\ from.pos < Len(source) BY <1>1 DEF IInv, Waiting
<1>5. /\ Len(source) \in Nat /\ from.pos \in 0..(Len(source) - 1) /\ ActionsKnown(scanner)
      /\ accepted.pos \in 0..Len(source) /\ from.pos <= accepted.pos
  BY <1>1, <1>4, SourceFacts, PlaceFacts DEF IInv, LongestMatch
<1>6. Len(Matched) = accepted.pos - from.pos
  <2>1. accepted.pos - from.pos \in Nat /\ from.pos + (accepted.pos - from.pos) = accepted.pos BY <1>5
  <2>2. TypeOK BY DEF IInv
  <2>3. from.pos \in Nat /\ from.pos + (accepted.pos - from.pos) <= Len(source) BY <1>5, <2>1
  <2>4. Len(Text(from.pos, from.pos + (accepted.pos - from.pos))) = accepted.pos - from.pos
    BY <2>1, <2>2, <2>3, TextFacts
  <2> QED BY <2>1, <2>4 DEF Matched
<1> DEFINE call == Call(scanner, source, from.pos)
           past == Past(scanner, source, from.pos)
<1>7. accepted.state = NoState =>
        call = [size |-> 1, type |-> ErrorType, value |-> NoValue, to |-> past] /\ past = from.pos + 1
  <2> HAVE accepted.state = NoState
  <2>1. Longest(scanner, source, from.pos) = -1 BY <1>1, ScanFindsLongest
  <2>2. past = from.pos + 1 BY <2>1 DEF Past
  <2>3. call = [size |-> 1, type |-> ErrorType, value |-> NoValue, to |-> past]
    <3>1. from.pos \in 0..(Len(source) - 1) /\ Len(source) \in Nat /\ ActionsKnown(scanner) BY <1>5
    <3> QED BY <2>1, <3>1, CallFacts
  <2> QED BY <2>2, <2>3
<1>8. accepted.state # NoState =>
        /\ Longest(scanner, source, from.pos) = accepted.pos - from.pos
        /\ EndOf(scanner, source, from.pos, accepted.pos - from.pos) = accepted.state
        /\ past = IF accepted.pos = from.pos THEN from.pos + 1 ELSE accepted.pos
        /\ call.size = accepted.pos - from.pos
  <2> HAVE accepted.state # NoState
  <2>1. Longest(scanner, source, from.pos) = accepted.pos - from.pos
        /\ EndOf(scanner, source, from.pos, accepted.pos - from.pos) = accepted.state
    BY <1>1, ScanFindsLongest
  <2>2. past = IF accepted.pos = from.pos THEN from.pos + 1 ELSE accepted.pos BY <1>5, <2>1 DEF Past
  <2>3. Longest(scanner, source, from.pos) # -1 BY <1>5, <2>1
  <2>4. call.size = accepted.pos - from.pos BY <1>5, <2>1, <2>3, CallFacts
  <2> QED BY <2>1, <2>2, <2>4
<1>9. Capacity \in Nat \ {0} BY CapacityAssumption
<1>10. Advance(cursor).pos = cursor.pos + 1 BY DEF Advance
<1>11. CASE ReportError
  <2>1. /\ accepted.state = NoState /\ pc' = "loop" /\ 1 < Capacity /\ cursor' = Advance(cursor)
        /\ token' = TokenOf(ErrorType, Text(from.pos, from.pos + 1))
    BY <1>11 DEF ReportError
  <2>2. call.size = 1 /\ call.type = ErrorType /\ call.value = NoValue /\ call.to = from.pos + 1 BY <1>7, <2>1
  <2>3. cursor'.pos = from.pos + 1 BY <1>4, <1>10, <2>1
  <2>4. ErrorType # 0 BY DEF ErrorType
  <2>5. Owed(scanner, source, mode, Append(tokens, TokenThere(scanner, source, from.pos)), Append(values, NoValue), from.pos + 1)
    BY <1>3, <1>4, <2>1, <2>2, <2>4, TurnHere
  <2>6. TokenThere(scanner, source, from.pos) = token' BY <1>5, <2>1, <2>2, TokenIsThere
  <2>7. Owed(scanner, source, mode, Append(tokens, token'), Append(values, yylval), from.pos + 1)
    BY <1>3, <2>5, <2>6 DEF Owed
  <2>8. token'.type # 0 BY <2>1, <2>4 DEF TokenOf
  <2>9. WithToken' = Append(tokens, token') /\ WithValue' = Append(values, yylval) BY <1>1, <2>8 DEF WithToken, WithValue
  <2> HIDE DEF call, past
  <2> QED BY <1>1, <1>2, <1>3, <2>1, <2>3, <2>7, <2>9 DEF Owing
<1>12. CASE TakeMatch
  <2>1. /\ accepted.state # NoState /\ pc' = "act" /\ Len(Matched) < Capacity /\ yytext' = Matched
        /\ cursor' = IF accepted.pos = from.pos THEN Advance(cursor) ELSE Place(accepted)
    BY <1>12 DEF TakeMatch
  <2>2. cursor'.pos = past BY <1>4, <1>8, <1>10, <2>1, PlaceFacts
  <2>3. Matched' = Matched BY <1>1 DEF Matched, Text
  <2>4. Judged'
    <3>1. /\ from.pos < Len(source) /\ from.pos <= accepted.pos /\ accepted.pos - from.pos < Capacity
          /\ Longest(scanner, source, from.pos) = accepted.pos - from.pos
          /\ EndOf(scanner, source, from.pos, accepted.pos - from.pos) = accepted.state
          /\ cursor'.pos = Past(scanner, source, from.pos)
      BY <1>4, <1>5, <1>6, <1>8, <2>1, <2>2
    <3> QED BY <1>1, <1>2, <2>1, <2>3, <3>1 DEF Judged
  <2> HIDE DEF call, past
  <2> QED BY <1>1, <1>2, <1>3, <2>1, <2>4 DEF Owing
<1>13. CASE Overflow
  <2>1. pc' = "threw" /\ (IF accepted.state = NoState THEN 1 ELSE Len(Matched)) >= Capacity BY <1>13 DEF Overflow
  <2>2. call.size >= Capacity BY <1>6, <1>7, <1>8, <2>1
  <2> QED BY <1>1, <1>2, <1>3, <1>4, <2>1, <2>2 DEF Owing
<1> QED BY <1>11, <1>12, <1>13

\* An action returns what the call is to return, or goes on reading where it is to.
LEMMA OwingActed ==
  ASSUME IInv, Owing, ReturnToken \/ Skip \/ StartReading
  PROVE  Owing'
<1>1. pc = "act" /\ UNCHANGED <<input, mode, source, cursor, from, accepted, yytext, tokens, values>>
  BY DEF ReturnToken, Skip, StartReading
<1>2. scanner' = scanner BY <1>1, Static
<1>3. /\ mode = "detailed" => values = <<>>
      /\ Owed(scanner, source, mode, tokens, values, from.pos) /\ from.pos < Len(source)
  BY <1>1 DEF Owing, Judged
<1>4. RuleAction' = RuleAction BY <1>1, <1>2 DEF RuleAction
<1> DEFINE call == Call(scanner, source, from.pos)
<1>5. /\ call.size < Capacity
      /\ RuleAction.kind = "token" =>
           call.type = RuleAction.type /\ call.value = RuleAction.value /\ call.to = cursor.pos
      /\ RuleAction.kind = "skip" => call.type = 0 /\ call.to = cursor.pos
      /\ RuleAction.kind = "read" => call.type = 0 /\ call.to = ReadTo(source, cursor.pos, RuleAction.until)
      /\ TokenThere(scanner, source, from.pos) = TokenOf(call.type, yytext)
  BY <1>1, CallHere
<1>6. /\ call.type = 0 => Owed(scanner, source, mode, tokens, values, call.to)
      /\ call.type # 0 =>
           Owed(scanner, source, mode, Append(tokens, TokenThere(scanner, source, from.pos)), Append(values, call.value), call.to)
  BY <1>3, <1>5, TurnHere
<1> HIDE DEF call
<1>7. CASE ReturnToken
  <2>1. RuleAction.kind = "token" /\ yylval' = RuleAction.value /\ token' = TokenOf(RuleAction.type, yytext) /\ pc' = "loop"
    BY <1>7 DEF ReturnToken
  <2>2. token'.type = call.type /\ token' = TokenThere(scanner, source, from.pos) BY <1>5, <2>1 DEF TokenOf
  <2>3. Owed(scanner, source, mode, WithToken', WithValue', cursor.pos)
    <3>1. CASE call.type = 0
      <4>1. WithToken' = tokens /\ WithValue' = values BY <1>1, <2>2, <3>1 DEF WithToken, WithValue
      <4> QED BY <1>5, <1>6, <2>1, <3>1, <4>1
    <3>2. CASE call.type # 0
      <4>1. WithToken' = Append(tokens, token') /\ WithValue' = Append(values, RuleAction.value)
        BY <1>1, <2>1, <2>2, <3>2 DEF WithToken, WithValue
      <4> QED BY <1>5, <1>6, <2>1, <2>2, <3>2, <4>1
    <3> QED BY <3>1, <3>2
  <2> QED BY <1>1, <1>2, <1>3, <2>1, <2>3 DEF Owing
<1>8. CASE Skip
  <2>1. RuleAction.kind = "skip" /\ token'.type = 0 /\ pc' = "loop" BY <1>8 DEF Skip, TokenOf
  <2>2. WithToken' = tokens /\ WithValue' = values BY <1>1, <2>1 DEF WithToken, WithValue
  <2> QED BY <1>1, <1>2, <1>3, <1>5, <1>6, <2>1, <2>2 DEF Owing
<1>9. CASE StartReading
  <2>1. RuleAction.kind = "read" /\ pc' = "read" BY <1>9 DEF StartReading
  <2> QED BY <1>1, <1>2, <1>3, <1>4, <1>5, <1>6, <2>1 DEF Owing
<1> QED BY <1>7, <1>8, <1>9

\* Reading goes on to the place that was fixed when it began.
LEMMA OwingRead ==
  ASSUME IInv, Owing, ReadInput
  PROVE  Owing'
<1>1. /\ pc = "read" /\ UNCHANGED <<input, mode, source, from, accepted, yylval, tokens, values>>
      /\ cursor' = IF AtEnd(cursor.pos) THEN cursor ELSE Advance(cursor)
      /\ IF AtEnd(cursor.pos) \/ source[cursor.pos + 1] = RuleAction.until
         THEN pc' = "loop" /\ token' = TokenOf(0, yytext)
         ELSE pc' = pc
  BY DEF ReadInput
<1>2. scanner' = scanner BY <1>1, Static
<1>3. /\ mode = "detailed" => values = <<>>
      /\ Owed(scanner, source, mode, tokens, values, ReadTo(source, cursor.pos, RuleAction.until))
  BY <1>1 DEF Owing
<1>4. RuleAction' = RuleAction BY <1>1, <1>2 DEF RuleAction
<1>5. cursor.pos \in 0..Len(source) /\ Len(source) \in Nat BY SourceFacts
<1>6. Advance(cursor).pos = cursor.pos + 1 BY DEF Advance
<1>7. CASE AtEnd(cursor.pos) \/ source[cursor.pos + 1] = RuleAction.until
  <2>1. pc' = "loop" /\ token'.type = 0 BY <1>1, <1>7 DEF TokenOf
  <2>2. ReadTo(source, cursor.pos, RuleAction.until) = cursor'.pos
    <3>1. CASE AtEnd(cursor.pos)
      <4>1. cursor.pos = Len(source) /\ cursor' = cursor BY <1>1, <1>5, <3>1 DEF AtEnd
      <4> QED BY <1>5, <4>1, ReadToFacts
    <3>2. CASE ~AtEnd(cursor.pos)
      <4>1. cursor.pos < Len(source) /\ source[cursor.pos + 1] = RuleAction.until BY <1>5, <1>7, <3>2 DEF AtEnd
      <4>2. cursor'.pos = cursor.pos + 1 BY <1>1, <1>6, <3>2
      <4> QED BY <1>5, <4>1, <4>2, ReadToFacts
    <3> QED BY <3>1, <3>2
  <2>3. WithToken' = tokens /\ WithValue' = values BY <1>1, <2>1 DEF WithToken, WithValue
  <2> QED BY <1>1, <1>2, <1>3, <2>1, <2>2, <2>3 DEF Owing
<1>8. CASE ~(AtEnd(cursor.pos) \/ source[cursor.pos + 1] = RuleAction.until)
  <2>1. pc' = "read" /\ cursor'.pos = cursor.pos + 1 BY <1>1, <1>6, <1>8
  <2>2. cursor.pos < Len(source) BY <1>5, <1>8 DEF AtEnd
  <2>3. ReadTo(source, cursor.pos, RuleAction.until) = ReadTo(source, cursor'.pos, RuleAction.until)
    BY <1>5, <1>8, <2>1, <2>2, ReadToFacts
  <2> QED BY <1>1, <1>2, <1>3, <1>4, <2>1, <2>3 DEF Owing
<1> QED BY <1>7, <1>8

\* The loops themselves: what is owed stays while they look for more, and a collected
\* token pays for itself.
LEMMA OwingLooped ==
  ASSUME IInv, Owing, Begin \/ ScanCharacter \/ DropToken \/ CollectToken \/ Finish
  PROVE  Owing'
<1>1. UNCHANGED <<input, mode, source, cursor>> BY DEF Begin, ScanCharacter, DropToken, CollectToken, Finish
<1>2. scanner' = scanner BY <1>1, Static
<1>3. mode = "detailed" => values = <<>> BY DEF Owing
<1>4. CASE Begin
  <2>1. /\ pc = "call" /\ pc' = "scan" /\ from' = cursor /\ UNCHANGED <<tokens, values>>
        /\ mode # "detailed" => yylval' = NoValue
    BY <1>4 DEF Begin
  <2> QED BY <1>1, <1>2, <1>3, <2>1 DEF Owing
<1>5. CASE ScanCharacter
  <2>1. pc = "scan" /\ pc' = "scan" /\ UNCHANGED <<from, tokens, values, yylval>> BY <1>5 DEF ScanCharacter
  <2> QED BY <1>1, <1>2, <1>3, <2>1 DEF Owing
<1>6. CASE DropToken
  <2>1. pc = "loop" /\ pc' = "call" /\ token.type = 0 /\ UNCHANGED <<tokens, values>> BY <1>6 DEF DropToken
  <2>2. WithToken = tokens /\ WithValue = values BY <2>1 DEF WithToken, WithValue
  <2> QED BY <1>1, <1>2, <1>3, <2>1, <2>2 DEF Owing
<1>7. CASE CollectToken
  <2>1. /\ pc = "loop" /\ pc' = "call" /\ token.type # 0 /\ tokens' = Append(tokens, token)
        /\ values' = IF mode = "detailed" THEN values ELSE Append(values, yylval)
    BY <1>7 DEF CollectToken
  <2>2. Owed(scanner, source, mode, Append(tokens, token), Append(values, yylval), cursor.pos)
    BY <2>1 DEF Owing, WithToken, WithValue
  <2>3. Owed(scanner, source, mode, tokens', values', cursor.pos) BY <2>1, <2>2 DEF Owed
  <2> QED BY <1>1, <1>2, <1>3, <2>1, <2>3 DEF Owing
<1>8. CASE Finish
  <2>1. pc = "call" /\ pc' = "done" /\ AtEnd(cursor.pos) /\ UNCHANGED <<tokens, values>> BY <1>8 DEF Finish
  <2>2. cursor.pos = Len(source) BY <2>1, SourceFacts DEF AtEnd
  <2> QED BY <1>1, <1>2, <1>3, <2>1, <2>2 DEF Owing
<1> QED BY <1>4, <1>5, <1>6, <1>7, <1>8

LEMMA OwingStep == IInv /\ Owing /\ [Next]_vars => Owing'
<1> SUFFICES ASSUME IInv, Owing, [Next]_vars PROVE Owing' OBVIOUS
<1>1. CASE UNCHANGED vars
  <2>1. UNCHANGED <<input, mode, source, cursor, from, accepted, yytext, yylval, token, tokens, values, pc>>
    BY <1>1 DEF vars
  <2>2. scanner' = scanner /\ RuleAction' = RuleAction /\ Matched' = Matched
    BY <2>1, Static DEF RuleAction, Matched, Text
  <2>3. WithToken' = WithToken /\ WithValue' = WithValue BY <2>1 DEF WithToken, WithValue
  <2>4. Judged' = Judged BY <2>1, <2>2, Zenon DEF Judged
  <2> QED BY <2>1, <2>2, <2>3, <2>4 DEF Owing
<1>2. CASE Next BY <1>2, OwingScanned, OwingActed, OwingRead, OwingLooped DEF Next
<1> QED BY <1>1, <1>2

\* When nothing is owed any more the tokens are those of the whole text.
LEMMA OwingExact ==
  ASSUME IInv, Owing
  PROVE  TokensExact
<1> DEFINE all == Cut(scanner, source)[Len(source)]
           Finished(v) == /\ tokens = all.tokens
                          /\ values = IF mode = "detailed" THEN <<>> ELSE all.values
                          /\ all.threw = v
<1>0. /\ tokens \in Seq(Tokens) /\ values \in Seq(SemanticValues \cup {NoValue})
      /\ Len(source) \in Nat /\ ActionsKnown(scanner)
  BY SourceFacts
<1>1. tokens \o <<>> = tokens /\ values \o <<>> = values
  <2> DEFINE S == Tokens
             V == SemanticValues \cup {NoValue}
  <2>1. tokens \in Seq(S) /\ values \in Seq(V) BY <1>0
  <2> HIDE DEF S, V
  <2>2. tokens \o <<>> = tokens BY <2>1, ConcatEmptySeq
  <2>3. values \o <<>> = values BY <2>1, ConcatEmptySeq
  <2> QED BY <2>2, <2>3
<1>2. mode = "detailed" => values = <<>> BY DEF Owing
<1>3. ASSUME NEW pos, NEW v, Owed(scanner, source, mode, tokens, values, pos),
             Cut(scanner, source)[Len(source) - pos] = [tokens |-> <<>>, values |-> <<>>, threw |-> v]
      PROVE  Finished(v)
  <2>1. /\ all.tokens = tokens \o <<>> /\ all.threw = v
        /\ mode # "detailed" => all.values = values \o <<>>
    BY <1>3 DEF Owed
  <2> HIDE DEF all
  <2>2. tokens = all.tokens BY <1>1, <2>1
  <2>3. mode # "detailed" => values = all.values BY <1>1, <2>1
  <2>4. values = IF mode = "detailed" THEN <<>> ELSE all.values BY <1>2, <2>3
  <2> QED BY <2>1, <2>2, <2>4
<1> HIDE DEF all
<1>4. CASE pc = "done"
  <2>1. Owed(scanner, source, mode, tokens, values, Len(source)) BY <1>4 DEF Owing
  <2>2. Len(source) - Len(source) = 0 BY <1>0
  <2>3. Cut(scanner, source)[Len(source) - Len(source)] = [tokens |-> <<>>, values |-> <<>>, threw |-> FALSE]
    BY <1>0, <2>2, OwedEnds
  <2>4. Finished(FALSE) BY <1>3, <2>1, <2>3
  <2> QED BY <1>4, <2>4 DEF TokensExact, all
<1>5. CASE pc = "threw"
  <2>1. /\ from.pos < Len(source) /\ Call(scanner, source, from.pos).size >= Capacity
        /\ Owed(scanner, source, mode, tokens, values, from.pos)
    BY <1>5 DEF Owing
  <2>2. Cut(scanner, source)[Len(source) - from.pos] = [tokens |-> <<>>, values |-> <<>>, threw |-> TRUE]
    BY <2>1, TurnHere
  <2>3. Finished(TRUE) BY <1>3, <2>1, <2>2
  <2> QED BY <1>5, <2>3 DEF TokensExact, all
<1> QED BY <1>4, <1>5 DEF TokensExact

\* The tokens, their values and places, and whether a lexeme was too long, are those that
\* the reference cuts from the text (TokensExact), for every scanner, text and loop:
\* what lex_one finds by remembering and going back is what longest matches define, call
\* by call (code_generator.cpp 571-711).
THEOREM TokensAreExact == Spec => []TokensExact
<1>1. IInv /\ Owing => TokensExact BY OwingExact
<1> QED BY <1>1, OwingAtFirst, OwingStep, Inductive, PTL DEF Spec
=============================================================================
