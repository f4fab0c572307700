------------------------- MODULE SymbolScopesProofs -------------------------
(***************************************************************************)
(* Proofs about the symbol table, for every set of names, every set of     *)
(* types and every depth: whatever is declared, entered and left in       *)
(* whatever order, the storage handed out in a scope never overlaps.      *)
(***************************************************************************)
EXTENDS SymbolScopes, SequenceTheorems, WellFoundedInduction, TLAPS

Tables == [scopes : Seq(Frames), nextGlobal : Nat]

\* What has to hold of one frame f, the k-th, beside a global counter g.
Limit(f, k, g, e) == IF e.isParameter THEN f.nextParameter
                     ELSE IF k = 1 THEN g ELSE f.nextLocal
Below(f, k, g) == \A n \in DOMAIN f.symbols :
                    ~f.symbols[n].isFunction =>
                      f.symbols[n].offset + Width(f.symbols[n].type) <= Limit(f, k, g, f.symbols[n])
Apart(f) == \A m, n \in DOMAIN f.symbols :
              m # n /\ SharesCounter(f.symbols[m], f.symbols[n])
                => Bytes(f.symbols[m]) \cap Bytes(f.symbols[n]) = {}
AtLevel(f, k) == \A n \in DOMAIN f.symbols :
                   f.symbols[n].level = k - 1 /\ (f.symbols[n].isFunction => k = 1)
Sound(f, k, g) == Below(f, k, g) /\ Apart(f) /\ AtLevel(f, k)

Coherent(t) == /\ t \in Tables
               /\ \A k \in DOMAIN t.scopes : Sound(t.scopes[k], k, t.nextGlobal)

\* The inductive invariant, of the table as a whole.
IInv == TypeOK /\ StorageBelowCounters /\ StorageApart /\ LevelsAgree

LEMMA Unfold == IInv <=> Coherent(table)
BY DEF IInv, TypeOK, StorageBelowCounters, StorageApart, LevelsAgree, Coherent, Tables,
       Sound, Below, Apart, AtLevel, Limit, Counter

\* Every type occupies some bytes.
LEMMA WidthIsPositive == \A type : Width(type) \in Nat \ {0}
BY DEF Width

-----------------------------------------------------------------------------
(***************************************************************************)
(* Scopes.                                                                 *)
(***************************************************************************)
LEMMA EmptyFrameSound ==
  ASSUME NEW k, NEW g
  PROVE  EmptyFrame \in Frames /\ Sound(EmptyFrame, k, g)
<1>1. EmptyFrame.symbols = << >> /\ EmptyFrame.nextLocal = 0 /\ EmptyFrame.nextParameter = 0
  BY DEF EmptyFrame
<1>2. DOMAIN EmptyFrame.symbols = {} BY <1>1
<1>3. EmptyFrame.symbols \in [{} -> Assigned] BY <1>1
<1>4. {} \in SUBSET Names OBVIOUS
<1>5. EmptyFrame.symbols \in UNION {[S -> Assigned] : S \in SUBSET Names} BY <1>3, <1>4
<1>6. EmptyFrame \in Frames BY <1>5 DEF EmptyFrame, Frames
<1> QED BY <1>2, <1>6 DEF Sound, Below, Apart, AtLevel

LEMMA ResetCoherent == Coherent(ResetTable) /\ ResetTable.scopes # << >>
<1>1. ResetTable.scopes = <<EmptyFrame>> /\ ResetTable.nextGlobal = 0 BY DEF ResetTable
<1>2. ResetTable \in Tables BY EmptyFrameSound DEF ResetTable, Tables
<1>3. \A k \in DOMAIN ResetTable.scopes : ResetTable.scopes[k] = EmptyFrame BY <1>1
<1> QED BY <1>1, <1>2, <1>3, EmptyFrameSound DEF Coherent

LEMMA EmptyCoherent == Coherent(NoScopes)
<1>1. NoScopes \in Tables BY DEF NoScopes, Tables
<1>2. DOMAIN NoScopes.scopes = {} BY DEF NoScopes
<1> QED BY <1>1, <1>2 DEF Coherent

LEMMA OpenedCoherent ==
  ASSUME NEW t, Coherent(t)
  PROVE  /\ Coherent(Opened(t))
         /\ Depth(Opened(t)) \in Nat \ {0} /\ Depth(Opened(t)) = Len(Opened(t).scopes)
<1>1. Coherent(Opened(t)) /\ Opened(t).scopes # << >> BY ResetCoherent DEF Opened
<1>2. Opened(t).scopes \in Seq(Frames) BY <1>1 DEF Coherent, Tables
<1> QED BY <1>1, <1>2 DEF Depth

LEMMA EnterCoherent ==
  ASSUME NEW t, Coherent(t)
  PROVE  Coherent(EnterScope(t))
<1> DEFINE o == Opened(t)
           s == o.scopes
<1>1. Coherent(o) BY OpenedCoherent
<1>2. o \in Tables /\ s \in Seq(Frames) /\ o.nextGlobal \in Nat BY <1>1 DEF Coherent, Tables
<1>3. \A k \in DOMAIN s : Sound(s[k], k, o.nextGlobal) BY <1>1 DEF Coherent
<1>4. /\ EnterScope(t) = [o EXCEPT !.scopes = Append(s, EmptyFrame)]
      /\ EnterScope(t).scopes = Append(s, EmptyFrame)
      /\ EnterScope(t).nextGlobal = o.nextGlobal
  BY <1>2 DEF EnterScope, Tables
<1> HIDE DEF o, s
<1>5. Append(s, EmptyFrame) \in Seq(Frames) BY <1>2, EmptyFrameSound
<1>6. EnterScope(t) \in Tables BY <1>2, <1>4, <1>5 DEF Tables
<1>7. \A k \in DOMAIN Append(s, EmptyFrame) :
        Append(s, EmptyFrame)[k] = EmptyFrame \/ (k \in DOMAIN s /\ Append(s, EmptyFrame)[k] = s[k])
  BY <1>2
<1>8. \A k \in DOMAIN Append(s, EmptyFrame) : Sound(Append(s, EmptyFrame)[k], k, o.nextGlobal)
  BY <1>3, <1>7, EmptyFrameSound
<1> QED BY <1>4, <1>6, <1>8 DEF Coherent

LEMMA ExitCoherent ==
  ASSUME NEW t, Coherent(t)
  PROVE  Coherent(ExitScope(t))
<1>1. CASE Depth(t) <= 1
  <2>1. Depth(t) \in Nat BY DEF Coherent, Tables, Depth
  <2>2. ExitScope(t) = t BY <1>1, <2>1 DEF ExitScope
  <2> QED BY <2>2
<1>2. CASE Depth(t) > 1
  <2> DEFINE s == t.scopes
             r == SubSeq(s, 1, Depth(t) - 1)
  <2>1. s \in Seq(Frames) /\ Depth(t) = Len(s) /\ Len(s) \in Nat /\ t.nextGlobal \in Nat /\ t \in Tables
    BY DEF Coherent, Tables, Depth
  <2>2. /\ ExitScope(t) = [t EXCEPT !.scopes = r]
        /\ ExitScope(t).scopes = r /\ ExitScope(t).nextGlobal = t.nextGlobal
    BY <1>2, <2>1 DEF ExitScope, Tables
  <2>3. r \in Seq(Frames) /\ Len(r) = Len(s) - 1 /\ \A k \in 1..Len(r) : r[k] = s[k]
    BY <1>2, <2>1
  <2>4. \A k \in DOMAIN s : Sound(s[k], k, t.nextGlobal) BY DEF Coherent
  <2> HIDE DEF s, r
  <2>5. \A k \in DOMAIN r : k \in DOMAIN s /\ r[k] = s[k] BY <2>1, <2>3
  <2>6. ExitScope(t) \in Tables BY <2>1, <2>2, <2>3 DEF Tables
  <2> QED BY <2>2, <2>4, <2>5, <2>6 DEF Coherent
<1>3. Depth(t) \in Nat BY DEF Coherent, Tables, Depth
<1> QED BY <1>1, <1>2, <1>3

-----------------------------------------------------------------------------
(***************************************************************************)
(* Declarations.  A new entry starts where its counter stands, and only     *)
(* that counter moves, by the width of the entry.                           *)
(***************************************************************************)
\* What declare is called with: a variable or a parameter that brings no
\* offset, or a function, which brings one and is let into scope 1 only.
Declarable(t, e) == /\ e \in Entries
                    /\ ~e.isFunction => e.offset = Unassigned
                    /\ e.isFunction => e.offset \in Nat /\ Depth(t) = 1

\* Two stretches of storage are apart when one ends where the other begins.
LEMMA ApartWhenBelow ==
  ASSUME NEW d \in Assigned, NEW e \in Assigned, d.offset + Width(d.type) <= e.offset
  PROVE  Bytes(d) \cap Bytes(e) = {} /\ Bytes(e) \cap Bytes(d) = {}
<1>1. d.offset \in Nat /\ e.offset \in Nat /\ Width(d.type) \in Nat /\ Width(e.type) \in Nat
  BY WidthIsPositive DEF Assigned, Entries, Unassigned
<1> QED BY <1>1 DEF Bytes

\* The entry as declare stores it.
LEMMA PlacedFacts ==
  ASSUME NEW t \in Tables, Depth(t) \in Nat \ {0}, NEW e, Declarable(t, e)
  PROVE  LET p == Placed(t, e)
         IN  /\ p \in Assigned /\ p.type = e.type /\ p.level = Depth(t) - 1
             /\ p.isFunction = e.isFunction /\ p.isParameter = e.isParameter
             /\ ~e.isFunction => p.offset = Limit(Innermost(t), Depth(t), t.nextGlobal, e)
<1> DEFINE f == Innermost(t)
<1>1. Depth(t) = Len(t.scopes) /\ t.scopes \in Seq(Frames) /\ t.nextGlobal \in Nat BY DEF Depth, Tables
<1>2. f \in Frames /\ t.scopes # << >> BY <1>1 DEF Innermost
<1>3. f.nextLocal \in Nat /\ f.nextParameter \in Nat BY <1>2 DEF Frames
<1>4. Level(t) = Depth(t) - 1 /\ Level(t) \in Nat BY <1>2, <1>1 DEF Level
<1>5. /\ e.type \in Types /\ e.isFunction \in BOOLEAN /\ e.isParameter \in BOOLEAN
      /\ e = [type |-> e.type, level |-> e.level, offset |-> e.offset,
              isFunction |-> e.isFunction, isParameter |-> e.isParameter]
      /\ e \in Entries
  BY DEF Declarable, Entries
<1> DEFINE o == OffsetIn(t, e)
<1>6. Placed(t, e) = [type |-> e.type, level |-> Level(t), offset |-> o,
                      isFunction |-> e.isFunction, isParameter |-> e.isParameter]
  <2> HIDE DEF o
  <2>1. Placed(t, e) = [e EXCEPT !.level = Level(t), !.offset = o] BY DEF Placed, o
  <2> QED BY <1>5, <2>1 DEF Entries
<1>7. e.isFunction => o = e.offset /\ e.offset \in Nat
  <2> SUFFICES ASSUME e.isFunction PROVE o = e.offset /\ e.offset \in Nat OBVIOUS
  <2>1. ~ParameterSlot(e) /\ ~GlobalSlot(t, e) /\ ~LocalSlot(t, e)
    BY DEF ParameterSlot, GlobalSlot, LocalSlot, Allocates
  <2>2. o = e.offset BY <2>1, Zenon DEF OffsetIn
  <2> QED BY <2>2 DEF Declarable
<1>8. ~e.isFunction => Allocates(e) BY DEF Declarable, Allocates, Unassigned
<1>9. ~e.isFunction => o = Limit(f, Depth(t), t.nextGlobal, e)
  <2> SUFFICES ASSUME ~e.isFunction PROVE o = Limit(f, Depth(t), t.nextGlobal, e) OBVIOUS
  <2>1. /\ ParameterSlot(e) <=> e.isParameter
        /\ GlobalSlot(t, e) <=> ~e.isParameter /\ Depth(t) = 1
        /\ LocalSlot(t, e) <=> ~e.isParameter /\ Depth(t) # 1
    BY <1>1, <1>4, <1>5, <1>8 DEF ParameterSlot, GlobalSlot, LocalSlot
  <2>2. CASE e.isParameter
    <3>1. o = f.nextParameter BY <2>1, <2>2, Zenon DEF OffsetIn
    <3> QED BY <3>1, <2>2 DEF Limit
  <2>3. CASE ~e.isParameter /\ Depth(t) = 1
    <3>1. o = t.nextGlobal BY <2>1, <2>3, Zenon DEF OffsetIn
    <3> QED BY <3>1, <2>3 DEF Limit
  <2>4. CASE ~e.isParameter /\ Depth(t) # 1
    <3>1. o = f.nextLocal BY <2>1, <2>4, Zenon DEF OffsetIn
    <3> QED BY <3>1, <2>4 DEF Limit
  <2> QED BY <2>2, <2>3, <2>4
<1>10. Limit(f, Depth(t), t.nextGlobal, e) \in Nat BY <1>1, <1>3 DEF Limit
<1>11. o \in Nat BY <1>5, <1>7, <1>9, <1>10
<1> HIDE DEF o, f
<1>12. Placed(t, e) \in Assigned
  BY <1>4, <1>5, <1>6, <1>11 DEF Assigned, Entries, Unassigned
<1> QED BY <1>4, <1>6, <1>9, <1>12 DEF f

\* The frame and the global counter that storing an entry leaves behind.
Grown(t, e, b) == IF b THEN Width(e.type) ELSE 0
FrameAfter(t, n, e) ==
  [symbols |-> Bind(Innermost(t).symbols, n, Placed(t, e)),
   nextLocal |-> Innermost(t).nextLocal + Grown(t, e, LocalSlot(t, e)),
   nextParameter |-> Innermost(t).nextParameter + Grown(t, e, ParameterSlot(e))]
GlobalAfter(t, e) == t.nextGlobal + Grown(t, e, GlobalSlot(t, e))

LEMMA StoreForm ==
  ASSUME NEW t, NEW n, NEW e
  PROVE  Store(t, n, e) = [scopes |-> [t.scopes EXCEPT ![Depth(t)] = FrameAfter(t, n, e)],
                           nextGlobal |-> GlobalAfter(t, e)]
BY DEF Store, FrameAfter, GlobalAfter, Grown, Innermost

\* The counters only grow, the counter of the new entry by its width, and the
\* global one only from scope 1.
LEMMA CountersGrow ==
  ASSUME NEW t \in Tables, Depth(t) \in Nat \ {0}, NEW n, NEW e, Declarable(t, e)
  PROVE  LET f == Innermost(t)
             h == FrameAfter(t, n, e)
             g == GlobalAfter(t, e)
         IN  /\ f \in Frames /\ h.nextLocal \in Nat /\ h.nextParameter \in Nat /\ g \in Nat
             /\ h.nextLocal >= f.nextLocal /\ h.nextParameter >= f.nextParameter
             /\ g >= t.nextGlobal /\ (Depth(t) # 1 => g = t.nextGlobal)
             /\ ~e.isFunction =>
                  Limit(h, Depth(t), g, e) = Limit(f, Depth(t), t.nextGlobal, e) + Width(e.type)
<1> DEFINE f == Innermost(t)
           h == FrameAfter(t, n, e)
           g == GlobalAfter(t, e)
           w == Width(e.type)
<1>1. Depth(t) = Len(t.scopes) /\ t.scopes \in Seq(Frames) /\ t.nextGlobal \in Nat BY DEF Depth, Tables
<1>2. f \in Frames /\ t.scopes # << >> BY <1>1 DEF Innermost
<1>3. f.nextLocal \in Nat /\ f.nextParameter \in Nat BY <1>2 DEF Frames
<1>4. Level(t) = Depth(t) - 1 BY <1>2, <1>1 DEF Level
<1>5. e.type \in Types /\ e.isFunction \in BOOLEAN /\ e.isParameter \in BOOLEAN
  BY DEF Declarable, Entries
<1>6. w \in Nat BY <1>5, WidthIsPositive
<1>7. /\ h.nextLocal = f.nextLocal + Grown(t, e, LocalSlot(t, e))
      /\ h.nextParameter = f.nextParameter + Grown(t, e, ParameterSlot(e))
      /\ g = t.nextGlobal + Grown(t, e, GlobalSlot(t, e))
  BY DEF FrameAfter, GlobalAfter
<1>8. /\ Grown(t, e, LocalSlot(t, e)) = IF LocalSlot(t, e) THEN w ELSE 0
      /\ Grown(t, e, ParameterSlot(e)) = IF ParameterSlot(e) THEN w ELSE 0
      /\ Grown(t, e, GlobalSlot(t, e)) = IF GlobalSlot(t, e) THEN w ELSE 0
  BY DEF Grown
<1>9. ~e.isFunction => Allocates(e) BY DEF Declarable, Allocates, Unassigned
<1>10. /\ Depth(t) # 1 => ~GlobalSlot(t, e)
       /\ ~e.isFunction => (ParameterSlot(e) <=> e.isParameter)
       /\ ~e.isFunction => (GlobalSlot(t, e) <=> ~e.isParameter /\ Depth(t) = 1)
       /\ ~e.isFunction => (LocalSlot(t, e) <=> ~e.isParameter /\ Depth(t) # 1)
  BY <1>1, <1>4, <1>5, <1>9 DEF ParameterSlot, GlobalSlot, LocalSlot
<1> HIDE DEF f, h, g, w
<1>11. /\ h.nextLocal \in Nat /\ h.nextParameter \in Nat /\ g \in Nat
       /\ h.nextLocal >= f.nextLocal /\ h.nextParameter >= f.nextParameter /\ g >= t.nextGlobal
       /\ Depth(t) # 1 => g = t.nextGlobal
  BY <1>1, <1>3, <1>6, <1>7, <1>8, <1>10
<1>12. ~e.isFunction => Limit(h, Depth(t), g, e) = Limit(f, Depth(t), t.nextGlobal, e) + w
  BY <1>1, <1>3, <1>5, <1>6, <1>7, <1>8, <1>10 DEF Limit
<1> QED BY <1>2, <1>11, <1>12 DEF f, h, g, w

LEMMA FrameAfterTyped ==
  ASSUME NEW t \in Tables, Depth(t) \in Nat \ {0}, NEW n \in Names, NEW e, Declarable(t, e)
  PROVE  FrameAfter(t, n, e) \in Frames
<1> DEFINE f == Innermost(t)
           b == Bind(f.symbols, n, Placed(t, e))
<1>1. f \in Frames BY CountersGrow
<1>2. PICK S \in SUBSET Names : f.symbols \in [S -> Assigned] BY <1>1 DEF Frames
<1>3. DOMAIN f.symbols = S BY <1>2
<1>4. Placed(t, e) \in Assigned BY PlacedFacts
<1>5. b = [m \in S \cup {n} |-> IF m = n THEN Placed(t, e) ELSE f.symbols[m]] BY <1>3 DEF Bind
<1> HIDE DEF f
<1>6. b \in [S \cup {n} -> Assigned] BY <1>2, <1>4, <1>5
<1>7. S \cup {n} \in SUBSET Names BY <1>2
<1>8. b \in UNION {[R -> Assigned] : R \in SUBSET Names} BY <1>6, <1>7
<1>9. /\ FrameAfter(t, n, e).nextLocal \in Nat /\ FrameAfter(t, n, e).nextParameter \in Nat
  BY CountersGrow
<1>10. FrameAfter(t, n, e) = [symbols |-> b, nextLocal |-> FrameAfter(t, n, e).nextLocal,
                              nextParameter |-> FrameAfter(t, n, e).nextParameter]
  BY DEF FrameAfter, f
<1> HIDE DEF b
<1> QED BY <1>8, <1>9, <1>10 DEF Frames

LEMMA FrameAfterSound ==
  ASSUME NEW t \in Tables, Depth(t) \in Nat \ {0}, NEW n \in Names, NEW e, Declarable(t, e),
         n \notin DOMAIN Innermost(t).symbols, Sound(Innermost(t), Depth(t), t.nextGlobal)
  PROVE  Sound(FrameAfter(t, n, e), Depth(t), GlobalAfter(t, e))
<1> DEFINE d == Depth(t)
           f == Innermost(t)
           h == FrameAfter(t, n, e)
           g == GlobalAfter(t, e)
           p == Placed(t, e)
           s == f.symbols
<1>1. f \in Frames /\ f.nextLocal \in Nat /\ f.nextParameter \in Nat /\ t.nextGlobal \in Nat
  BY CountersGrow DEF Frames, Tables
<1>2. PICK S \in SUBSET Names : s \in [S -> Assigned] BY <1>1 DEF Frames
<1>3. DOMAIN s = S /\ \A m \in S : s[m] \in Assigned BY <1>2
<1>4. /\ p \in Assigned /\ p.type = e.type /\ p.level = d - 1
      /\ p.isFunction = e.isFunction /\ p.isParameter = e.isParameter
      /\ ~e.isFunction => p.offset = Limit(f, d, t.nextGlobal, e)
  BY PlacedFacts
<1>5. /\ h.nextLocal \in Nat /\ h.nextParameter \in Nat /\ g \in Nat
      /\ h.nextLocal >= f.nextLocal /\ h.nextParameter >= f.nextParameter
      /\ g >= t.nextGlobal
      /\ ~e.isFunction => Limit(h, d, g, e) = Limit(f, d, t.nextGlobal, e) + Width(e.type)
  BY CountersGrow
<1>6. h.symbols = [m \in S \cup {n} |-> IF m = n THEN p ELSE s[m]]
  BY <1>3 DEF FrameAfter, Bind
<1>7. Below(f, d, t.nextGlobal) /\ Apart(f) /\ AtLevel(f, d) BY DEF Sound
<1>8. n \notin S BY <1>3
<1>9. e.isFunction => d = 1 BY DEF Declarable
<1> HIDE DEF d, f, h, g, p
<1>10. /\ DOMAIN h.symbols = S \cup {n} /\ h.symbols[n] = p
       /\ \A m \in S : m # n /\ h.symbols[m] = s[m]
  BY <1>6, <1>8
<1>11. \A x \in Assigned : /\ x.offset \in Nat /\ Width(x.type) \in Nat
                           /\ x.isFunction \in BOOLEAN /\ x.isParameter \in BOOLEAN
  BY WidthIsPositive DEF Assigned, Entries, Unassigned
<1>12. \A x \in Assigned : /\ Limit(f, d, t.nextGlobal, x) \in Nat /\ Limit(h, d, g, x) \in Nat
                           /\ Limit(h, d, g, x) >= Limit(f, d, t.nextGlobal, x)
  BY <1>1, <1>5, <1>11 DEF Limit
<1>13. \A m \in S : ~s[m].isFunction => s[m].offset + Width(s[m].type) <= Limit(f, d, t.nextGlobal, s[m])
  BY <1>3, <1>7 DEF Below
<1>14. \A x \in Assigned : x.isParameter = e.isParameter =>
          Limit(f, d, t.nextGlobal, x) = Limit(f, d, t.nextGlobal, e)
  BY DEF Limit
<1>15. Below(h, d, g)
  <2>1. ~p.isFunction => p.offset + Width(p.type) <= Limit(h, d, g, p)
    <3>1. Limit(h, d, g, p) = Limit(h, d, g, e) BY <1>4 DEF Limit
    <3> QED BY <3>1, <1>4, <1>5, <1>11, <1>12
  <2>2. \A m \in S : ~s[m].isFunction => s[m].offset + Width(s[m].type) <= Limit(h, d, g, s[m])
    <3> SUFFICES ASSUME NEW m \in S, ~s[m].isFunction
                 PROVE  s[m].offset + Width(s[m].type) <= Limit(h, d, g, s[m])
      OBVIOUS
    <3>1. s[m] \in Assigned BY <1>3
    <3>2. s[m].offset + Width(s[m].type) <= Limit(f, d, t.nextGlobal, s[m]) BY <1>13
    <3> HIDE DEF s
    <3> QED BY <3>1, <3>2, <1>11, <1>12
  <2> HIDE DEF s
  <2> QED BY <2>1, <2>2, <1>10 DEF Below
<1>16. Apart(h)
  <2>1. \A m \in S : SharesCounter(s[m], p) =>
          Bytes(s[m]) \cap Bytes(p) = {} /\ Bytes(p) \cap Bytes(s[m]) = {}
    <3> SUFFICES ASSUME NEW m \in S, SharesCounter(s[m], p)
                 PROVE  Bytes(s[m]) \cap Bytes(p) = {} /\ Bytes(p) \cap Bytes(s[m]) = {}
      OBVIOUS
    <3>1. s[m] \in Assigned BY <1>3
    <3>2. ~s[m].isFunction /\ ~p.isFunction /\ s[m].isParameter = p.isParameter
      BY DEF SharesCounter
    <3>3. s[m].offset + Width(s[m].type) <= Limit(f, d, t.nextGlobal, s[m]) BY <1>13, <3>2
    <3>4. p.offset = Limit(f, d, t.nextGlobal, s[m]) BY <1>4, <1>14, <3>1, <3>2
    <3>5. s[m].offset + Width(s[m].type) <= p.offset BY <3>3, <3>4
    <3> QED BY <1>4, <3>1, <3>5, ApartWhenBelow
  <2>2. \A m \in S : SharesCounter(p, s[m]) => SharesCounter(s[m], p) BY DEF SharesCounter
  <2>3. \A m, k \in S : m # k /\ SharesCounter(s[m], s[k]) => Bytes(s[m]) \cap Bytes(s[k]) = {}
    BY <1>3, <1>7 DEF Apart
  <2> SUFFICES ASSUME NEW m \in S \cup {n}, NEW k \in S \cup {n}, m # k,
                      SharesCounter(h.symbols[m], h.symbols[k])
               PROVE  Bytes(h.symbols[m]) \cap Bytes(h.symbols[k]) = {}
    BY <1>10 DEF Apart
  <2> HIDE DEF s
  <2>4. CASE m \in S /\ k \in S BY <2>4, <2>3, <1>10
  <2>5. CASE m = n /\ k \in S BY <2>5, <2>1, <2>2, <1>10
  <2>6. CASE m \in S /\ k = n BY <2>6, <2>1, <1>10
  <2> QED BY <2>4, <2>5, <2>6
<1>17. AtLevel(h, d)
  <2>1. \A m \in S : s[m].level = d - 1 /\ (s[m].isFunction => d = 1) BY <1>3, <1>7 DEF AtLevel
  <2> HIDE DEF s
  <2> QED BY <2>1, <1>4, <1>9, <1>10 DEF AtLevel
<1> QED BY <1>15, <1>16, <1>17 DEF Sound, d, h, g

LEMMA StoreCoherent ==
  ASSUME NEW t, Coherent(t), Depth(t) \in Nat \ {0}, NEW n \in Names, NEW e, Declarable(t, e),
         n \notin DOMAIN Innermost(t).symbols
  PROVE  Coherent(Store(t, n, e))
<1> DEFINE d == Depth(t)
           h == FrameAfter(t, n, e)
           g == GlobalAfter(t, e)
           s == t.scopes
<1>1. t \in Tables /\ s \in Seq(Frames) /\ d = Len(s) /\ d \in DOMAIN s /\ t.nextGlobal \in Nat
  BY DEF Coherent, Tables, Depth
<1>2. \A k \in DOMAIN s : Sound(s[k], k, t.nextGlobal) BY DEF Coherent
<1>3. Sound(Innermost(t), d, t.nextGlobal) BY <1>1, <1>2 DEF Innermost
<1>4. Sound(h, d, g) BY <1>1, <1>3, FrameAfterSound
<1>5. h \in Frames BY <1>1, FrameAfterTyped
<1>6. g \in Nat /\ (d # 1 => g = t.nextGlobal) BY <1>1, CountersGrow
<1>7. /\ Store(t, n, e) = [scopes |-> [s EXCEPT ![d] = h], nextGlobal |-> g]
      /\ Store(t, n, e).scopes = [s EXCEPT ![d] = h] /\ Store(t, n, e).nextGlobal = g
  BY StoreForm
<1> HIDE DEF d, h, g, s
<1>8. [s EXCEPT ![d] = h] \in Seq(Frames) BY <1>1, <1>5
<1>9. Store(t, n, e) \in Tables BY <1>6, <1>7, <1>8 DEF Tables
<1>10. \A k \in DOMAIN s : Sound([s EXCEPT ![d] = h][k], k, g)
  <2> TAKE k \in DOMAIN s
  <2>1. CASE k = d BY <2>1, <1>1, <1>4
  <2>2. CASE k # d
    <3>1. d # 1 BY <2>2, <1>1
    <3> QED BY <3>1, <2>2, <1>2, <1>6
  <2> QED BY <2>1, <2>2
<1>11. DOMAIN [s EXCEPT ![d] = h] = DOMAIN s OBVIOUS
<1> QED BY <1>7, <1>9, <1>10, <1>11 DEF Coherent

LEMMA DeclareCoherent ==
  ASSUME NEW t, Coherent(t), NEW n \in Names, NEW e, Declarable(Opened(t), e)
  PROVE  Coherent(Declare(t, n, e))
BY OpenedCoherent, StoreCoherent DEF Declare, Accepts

-----------------------------------------------------------------------------
(***************************************************************************)
(* The theorem.                                                            *)
(***************************************************************************)
LEMMA Declarables ==
  ASSUME NEW t, NEW type \in Types
  PROVE  /\ Declarable(t, Variable(type)) /\ Declarable(t, Parameter(type))
         /\ Depth(t) = 1 => Declarable(t, Function(type))
BY DEF Declarable, Variable, Parameter, Function, Entries, Unassigned

LEMMA StepCoherent ==
  ASSUME Coherent(table), [Next]_table
  PROVE  Coherent(table')
<1>1. CASE Reset BY <1>1, ResetCoherent DEF Reset
<1>2. CASE Enter BY <1>2, EnterCoherent DEF Enter
<1>3. CASE Exit BY <1>3, ExitCoherent DEF Exit
<1>4. ASSUME NEW n \in Names, NEW type \in Types, AddVariable(n, type)
      PROVE  Coherent(table')
  BY <1>4, DeclareCoherent, Declarables DEF AddVariable, DeclareVariable
<1>5. ASSUME NEW n \in Names, NEW type \in Types, AddParameter(n, type)
      PROVE  Coherent(table')
  BY <1>5, DeclareCoherent, Declarables DEF AddParameter, DeclareParameter
<1>6. ASSUME NEW n \in Names, NEW type \in Types, AddFunction(n, type)
      PROVE  Coherent(table')
  <2>1. table' = DeclareFunction(table, n, type) BY <1>6 DEF AddFunction
  <2>2. CASE Depth(Opened(table)) > 1 BY <2>1, <2>2, OpenedCoherent DEF DeclareFunction
  <2>3. CASE ~(Depth(Opened(table)) > 1)
    <3>1. Depth(Opened(table)) = 1 BY <2>3, OpenedCoherent
    <3> QED BY <2>1, <2>3, <3>1, DeclareCoherent, Declarables DEF DeclareFunction
  <2> QED BY <2>2, <2>3
<1>7. CASE UNCHANGED table BY <1>7
<1> QED BY <1>1, <1>2, <1>3, <1>4, <1>5, <1>6, <1>7 DEF Next

\* Whatever calls are made in whatever order, on a table of any depth: every
\* entry is typed and placed, at the level of its scope, below the counter it
\* came from, and apart from the other entries of that counter.
THEOREM TableInvariant == Spec => []IInv
<1>1. Init => IInv BY EmptyCoherent, Unfold DEF Init
<1>2. IInv /\ [Next]_table => IInv'
  <2> SUFFICES ASSUME IInv, [Next]_table PROVE IInv' OBVIOUS
  <2>1. Coherent(table') BY Unfold, StepCoherent
  <2>2. IInv' <=> Coherent(table')
    BY DEF IInv, TypeOK, StorageBelowCounters, StorageApart, LevelsAgree, Coherent, Tables,
           Sound, Below, Apart, AtLevel, Limit, Counter
  <2> QED BY <2>1, <2>2
<1> QED BY <1>1, <1>2, PTL DEF Spec

\* Two variables of one scope that draw on the same counter never share a
\* byte (symbol_table.cpp:54-65), for all names, widths and depths.
THEOREM StorageTheorem == Spec => []StorageApart
<1>1. IInv => StorageApart BY DEF IInv
<1> QED BY <1>1, TableInvariant, PTL

-----------------------------------------------------------------------------
(***************************************************************************)
(* Lookup.  What a name means with k scopes open is what the k-th frame     *)
(* says of it, and otherwise what it means with k - 1.                      *)
(***************************************************************************)
Upto(t, k) == [t EXCEPT !.scopes = SubSeq(@, 1, k)]
VisibleIn(t, k, n) == IF Found(Upto(t, k), n) THEN Lookup(Upto(t, k), n) ELSE NoMeaning

\* The frames up to the k-th that declare n.
Declaring(t, k, n) == {j \in 1..k : n \in DOMAIN t.scopes[j].symbols}
IsInnermost(t, k, n, j) == j \in Declaring(t, k, n) /\ \A i \in Declaring(t, k, n) : i <= j

LEMMA LargestOf ==
  ASSUME NEW k \in Nat, NEW T \in SUBSET (1..k), T # {}
  PROVE  \E j \in T : \A i \in T : i <= j
<1> DEFINE R == {k - i : i \in T}
<1>1. R \subseteq Nat /\ R # {}
  <2>1. \A i \in T : k - i \in Nat OBVIOUS
  <2>2. R \subseteq Nat BY <2>1
  <2>3. PICK i \in T : TRUE OBVIOUS
  <2>4. k - i \in R BY <2>3
  <2> QED BY <2>2, <2>4
<1>2. PICK x \in R : \A y \in R : ~(<<y, x>> \in OpToRel(<, Nat))
  BY <1>1, WFMin, NatLessThanWellFounded, Zenon
<1>3. \A y \in R : ~(y < x) BY <1>1, <1>2 DEF OpToRel
<1>4. PICK j \in T : x = k - j BY <1>2
<1>5. \A i \in T : i <= j
  <2> TAKE i \in T
  <2>1. k - i \in R OBVIOUS
  <2>2. ~(k - i < k - j) BY <1>3, <1>4, <2>1
  <2> QED BY <2>2
<1> QED BY <1>5

LEMMA UptoFacts ==
  ASSUME NEW t \in Tables, NEW k \in DOMAIN t.scopes, NEW n
  PROVE  /\ Len(t.scopes) \in Nat /\ k \in 1..Len(t.scopes)
         /\ Holding(Upto(t, k), n) = Declaring(t, k, n)
         /\ \A j \in 1..k : Upto(t, k).scopes[j] = t.scopes[j]
<1>1. t.scopes \in Seq(Frames) /\ Len(t.scopes) \in Nat BY DEF Tables
<1>2. k \in 1..Len(t.scopes) BY <1>1
<1> DEFINE s == t.scopes
           r == SubSeq(s, 1, k)
<1>3. Upto(t, k).scopes = r BY DEF Upto, Tables
<1>4. r \in Seq(Frames) /\ Len(r) = k /\ \A j \in 1..k : r[j] = s[j] BY <1>1, <1>2
<1> HIDE DEF r
<1>5. Depth(Upto(t, k)) = k BY <1>3, <1>4 DEF Depth
<1>6. Holding(Upto(t, k), n) = Declaring(t, k, n) BY <1>3, <1>4, <1>5 DEF Holding, Declaring
<1> QED BY <1>1, <1>2, <1>3, <1>4, <1>6

LEMMA VisibleIs ==
  ASSUME NEW t \in Tables, NEW k \in DOMAIN t.scopes, NEW n
  PROVE  /\ \A j : IsInnermost(t, k, n, j) => VisibleIn(t, k, n) = t.scopes[j].symbols[n]
         /\ Declaring(t, k, n) = {} => VisibleIn(t, k, n) = NoMeaning
         /\ Declaring(t, k, n) # {} => \E j : IsInnermost(t, k, n, j)
<1> DEFINE H == Holding(Upto(t, k), n)
           D == Declaring(t, k, n)
<1>1. H = D /\ \A j \in 1..k : Upto(t, k).scopes[j] = t.scopes[j] BY UptoFacts
<1>2. k \in Nat /\ D \subseteq 1..k
  <2>1. k \in 1..Len(t.scopes) /\ Len(t.scopes) \in Nat BY UptoFacts
  <2> QED BY <2>1 DEF Declaring
<1>3. ASSUME NEW j, IsInnermost(t, k, n, j)
      PROVE  VisibleIn(t, k, n) = t.scopes[j].symbols[n]
  <2>1. j \in H /\ \A i \in H : i <= j BY <1>1, <1>3 DEF IsInnermost
  <2> DEFINE c == CHOOSE m \in H : \A i \in H : i <= m
  <2> HIDE DEF H
  <2>2. c \in H /\ \A i \in H : i <= c BY <2>1
  <2>3. c = j
    <3>1. c \in 1..k /\ j \in 1..k /\ c <= j /\ j <= c BY <1>1, <1>2, <2>1, <2>2
    <3> QED BY <3>1
  <2>4. Found(Upto(t, k), n) BY <2>1 DEF Found, H
  <2>5. Lookup(Upto(t, k), n) = Upto(t, k).scopes[c].symbols[n] BY DEF Lookup, H
  <2> QED BY <1>1, <1>2, <2>1, <2>3, <2>4, <2>5 DEF VisibleIn
<1>4. D = {} => VisibleIn(t, k, n) = NoMeaning BY <1>1 DEF VisibleIn, Found
<1>5. D # {} => \E j : IsInnermost(t, k, n, j) BY <1>2, LargestOf DEF IsInnermost
<1> QED BY <1>3, <1>4, <1>5

\* The rule of lookup, frame by frame.
LEMMA LookupRule ==
  ASSUME NEW t \in Tables, NEW k \in DOMAIN t.scopes, NEW n
  PROVE  /\ n \in DOMAIN t.scopes[k].symbols => VisibleIn(t, k, n) = t.scopes[k].symbols[n]
         /\ n \notin DOMAIN t.scopes[k].symbols /\ k = 1 => VisibleIn(t, k, n) = NoMeaning
         /\ n \notin DOMAIN t.scopes[k].symbols /\ k # 1 => VisibleIn(t, k, n) = VisibleIn(t, k - 1, n)
<1>1. k \in Nat \ {0} /\ k \in 1..Len(t.scopes) /\ Len(t.scopes) \in Nat BY UptoFacts
<1>2. n \in DOMAIN t.scopes[k].symbols => IsInnermost(t, k, n, k)
  BY <1>1 DEF IsInnermost, Declaring
<1>3. n \notin DOMAIN t.scopes[k].symbols /\ k = 1 => Declaring(t, k, n) = {}
  BY <1>1 DEF Declaring
<1>4. ASSUME n \notin DOMAIN t.scopes[k].symbols, k # 1
      PROVE  VisibleIn(t, k, n) = VisibleIn(t, k - 1, n)
  <2>1. k - 1 \in DOMAIN t.scopes
    <3>1. t.scopes \in Seq(Frames) BY DEF Tables
    <3> QED BY <3>1, <1>1, <1>4
  <2>2. Declaring(t, k, n) = Declaring(t, k - 1, n) BY <1>1, <1>4 DEF Declaring
  <2>3. \A j : IsInnermost(t, k, n, j) <=> IsInnermost(t, k - 1, n, j) BY <2>2 DEF IsInnermost
  <2>4. CASE Declaring(t, k, n) = {} BY <2>1, <2>2, <2>4, VisibleIs
  <2>5. CASE Declaring(t, k, n) # {}
    <3>1. PICK j : IsInnermost(t, k, n, j) BY <2>5, VisibleIs
    <3> QED BY <2>1, <2>3, <3>1, VisibleIs
  <2> QED BY <2>4, <2>5
<1> QED BY <1>2, <1>3, <1>4, VisibleIs

\* A meaning rests on the frames up to its own.
LEMMA SameBelow ==
  ASSUME NEW t \in Tables, NEW u \in Tables, NEW k \in DOMAIN t.scopes, k \in DOMAIN u.scopes,
         \A j \in 1..k : t.scopes[j] = u.scopes[j], NEW n
  PROVE  VisibleIn(t, k, n) = VisibleIn(u, k, n)
<1>1. k \in Nat BY UptoFacts
<1>2. Declaring(t, k, n) = Declaring(u, k, n) BY DEF Declaring
<1>3. \A j : IsInnermost(t, k, n, j) <=> IsInnermost(u, k, n, j) BY <1>2 DEF IsInnermost
<1>4. CASE Declaring(t, k, n) = {} BY <1>2, <1>4, VisibleIs
<1>5. CASE Declaring(t, k, n) # {}
  <2>1. PICK j : IsInnermost(t, k, n, j) BY <1>5, VisibleIs
  <2>2. j \in 1..k BY <2>1 DEF IsInnermost, Declaring
  <2>3. VisibleIn(t, k, n) = t.scopes[j].symbols[n] BY <2>1, VisibleIs
  <2>4. VisibleIn(u, k, n) = u.scopes[j].symbols[n] BY <1>3, <2>1, VisibleIs
  <2> QED BY <2>2, <2>3, <2>4
<1> QED BY <1>4, <1>5

-----------------------------------------------------------------------------
(***************************************************************************)
(* The environments of a table, and what the operations do to them.         *)
(***************************************************************************)
Envs(t) == [k \in DOMAIN t.scopes |-> [n \in Names |-> VisibleIn(t, k, n)]]
Owns(t) == [k \in DOMAIN t.scopes |-> DOMAIN t.scopes[k].symbols]
Blank   == [n \in Names |-> NoMeaning]

LEMMA EnvsFacts ==
  ASSUME NEW t \in Tables
  PROVE  /\ Len(t.scopes) \in Nat /\ DOMAIN t.scopes = 1..Len(t.scopes)
         /\ DOMAIN Envs(t) = 1..Len(t.scopes) /\ DOMAIN Owns(t) = 1..Len(t.scopes)
         /\ Len(Envs(t)) = Len(t.scopes) /\ Len(Owns(t)) = Len(t.scopes)
         /\ Envs(t) = << >> <=> t.scopes = << >>
<1>1. t.scopes \in Seq(Frames) BY DEF Tables
<1>2. Len(t.scopes) \in Nat /\ DOMAIN t.scopes = 1..Len(t.scopes) BY <1>1
<1>3. DOMAIN Envs(t) = 1..Len(t.scopes) /\ DOMAIN Owns(t) = 1..Len(t.scopes) BY <1>2 DEF Envs, Owns
<1>4. Len(Envs(t)) = Len(t.scopes) /\ Len(Owns(t)) = Len(t.scopes) BY <1>2, <1>3
<1>5. Envs(t) = << >> <=> t.scopes = << >>
  <2>1. ASSUME t.scopes = << >> PROVE Envs(t) = << >> BY <2>1 DEF Envs
  <2>2. ASSUME Envs(t) = << >> PROVE t.scopes = << >> BY <2>2, <1>1, <1>4
  <2> QED BY <2>1, <2>2
<1> QED BY <1>2, <1>3, <1>4, <1>5

\* A frame without symbols adds a copy of the environment below it.
LEMMA EmptyOnTop ==
  ASSUME NEW t \in Tables, NEW k \in DOMAIN t.scopes, t.scopes[k] = EmptyFrame
  PROVE  /\ k = 1 => Envs(t)[k] = Blank
         /\ k # 1 => Envs(t)[k] = Envs(t)[k - 1]
         /\ Owns(t)[k] = {}
<1>1. DOMAIN t.scopes[k].symbols = {} BY DEF EmptyFrame
<1>2. k \in 1..Len(t.scopes) /\ Len(t.scopes) \in Nat BY UptoFacts
<1>3. k # 1 => k - 1 \in DOMAIN t.scopes BY <1>2, EnvsFacts
<1>4. \A n : /\ k = 1 => VisibleIn(t, k, n) = NoMeaning
             /\ k # 1 => VisibleIn(t, k, n) = VisibleIn(t, k - 1, n)
  BY <1>1, LookupRule
<1> QED BY <1>1, <1>3, <1>4 DEF Envs, Owns, Blank

LEMMA ResetMaps == Envs(ResetTable) = <<Blank>> /\ Owns(ResetTable) = <<{}>>
<1>1. ResetTable \in Tables BY ResetCoherent DEF Coherent
<1>2. ResetTable.scopes = <<EmptyFrame>> BY DEF ResetTable
<1>3. DOMAIN ResetTable.scopes = 1..1 /\ ResetTable.scopes[1] = EmptyFrame /\ Len(ResetTable.scopes) = 1
  BY <1>2
<1>4. Envs(ResetTable)[1] = Blank /\ Owns(ResetTable)[1] = {} BY <1>1, <1>3, EmptyOnTop
<1>5. DOMAIN Envs(ResetTable) = 1..1 /\ DOMAIN Owns(ResetTable) = 1..1 BY <1>3 DEF Envs, Owns
<1>6. Envs(ResetTable) = [k \in 1..1 |-> Envs(ResetTable)[k]] /\ Owns(ResetTable) = [k \in 1..1 |-> Owns(ResetTable)[k]]
  BY <1>5 DEF Envs, Owns
<1> QED BY <1>4, <1>6

\* Two tables of one depth whose frames agree but for the last have
\* environments that agree but for the last.
LEMMA AgreeBelow ==
  ASSUME NEW t \in Tables, NEW u \in Tables, NEW d \in Nat,
         d <= Len(t.scopes), d <= Len(u.scopes), \A j \in 1..d : t.scopes[j] = u.scopes[j]
  PROVE  \A k \in 1..d : Envs(t)[k] = Envs(u)[k] /\ Owns(t)[k] = Owns(u)[k]
<1> TAKE k \in 1..d
<1>1. k \in DOMAIN t.scopes /\ k \in DOMAIN u.scopes BY EnvsFacts
<1>2. \A j \in 1..k : t.scopes[j] = u.scopes[j] OBVIOUS
<1>3. \A n : VisibleIn(t, k, n) = VisibleIn(u, k, n) BY <1>1, <1>2, SameBelow
<1> QED BY <1>1, <1>2, <1>3 DEF Envs, Owns

\* A function on 1..n is a sequence, and Append adds the place n + 1 to it.
LEMMA SequenceOf ==
  ASSUME NEW n \in Nat, NEW f, f = [k \in 1..n |-> f[k]], NEW x
  PROVE  /\ f \in Seq({f[k] : k \in 1..n} \cup {x}) /\ Len(f) = n
         /\ Append(f, x) = [k \in 1..(n + 1) |-> IF k \in 1..n THEN f[k] ELSE x]
<1> DEFINE S == {f[k] : k \in 1..n} \cup {x}
           r == [k \in 1..(n + 1) |-> IF k \in 1..n THEN f[k] ELSE x]
<1>1. \A k \in 1..n : f[k] \in S OBVIOUS
<1>2. f \in [1..n -> S] BY <1>1
<1>3. f \in Seq(S) /\ Len(f) = n BY <1>2
<1>4. x \in S OBVIOUS
<1>5. /\ Append(f, x) \in Seq(S) /\ Len(Append(f, x)) = n + 1
      /\ \A k \in 1..(n + 1) : Append(f, x)[k] = IF k \in 1..n THEN f[k] ELSE x
  <2> HIDE DEF S
  <2>1. Append(f, x) \in Seq(S) /\ Len(Append(f, x)) = n + 1 BY <1>3, <1>4
  <2>2. \A k \in 1..n : Append(f, x)[k] = f[k] BY <1>3, <1>4
  <2>3. Append(f, x)[n + 1] = x BY <1>3, <1>4
  <2>4. \A k \in 1..(n + 1) : k \notin 1..n => k = n + 1 OBVIOUS
  <2> QED BY <2>1, <2>2, <2>3, <2>4
<1>6. Append(f, x) = [k \in 1..(n + 1) |-> Append(f, x)[k]]
  <2> HIDE DEF S
  <2>1. Append(f, x) \in [1..(n + 1) -> S] BY <1>5, LenProperties
  <2> QED BY <2>1
<1>7. Append(f, x) = r BY <1>5, <1>6
<1> QED BY <1>3, <1>7

LEMMA EnterMaps ==
  ASSUME NEW t, Coherent(t), t.scopes # << >>
  PROVE  /\ Envs(EnterScope(t)) = Append(Envs(t), Envs(t)[Len(Envs(t))])
         /\ Owns(EnterScope(t)) = Append(Owns(t), {})
<1> DEFINE u == EnterScope(t)
           d == Len(t.scopes)
<1>1. t \in Tables /\ t.scopes \in Seq(Frames) /\ d \in Nat \ {0} BY DEF Coherent, Tables
<1>2. u \in Tables BY EnterCoherent DEF Coherent
<1>3. u.scopes = Append(t.scopes, EmptyFrame) BY <1>1 DEF EnterScope, Opened, Tables
<1>4. Len(u.scopes) = d + 1 /\ u.scopes[d + 1] = EmptyFrame /\ \A j \in 1..d : t.scopes[j] = u.scopes[j]
  BY <1>1, <1>3, EmptyFrameSound
<1> HIDE DEF u, d
<1>5. d + 1 \in DOMAIN u.scopes BY <1>1, <1>2, <1>4, EnvsFacts
<1>6. Envs(u)[d + 1] = Envs(u)[d] /\ Owns(u)[d + 1] = {} BY <1>1, <1>2, <1>4, <1>5, EmptyOnTop
<1>7. \A k \in 1..d : Envs(t)[k] = Envs(u)[k] /\ Owns(t)[k] = Owns(u)[k]
  BY <1>1, <1>2, <1>4, AgreeBelow DEF d
<1>8. Len(Envs(t)) = d /\ Len(Owns(t)) = d /\ DOMAIN Envs(u) = 1..(d + 1) /\ DOMAIN Owns(u) = 1..(d + 1)
  BY <1>1, <1>2, <1>4, EnvsFacts DEF d
<1>9. /\ Envs(t) = [k \in 1..d |-> Envs(t)[k]] /\ Owns(t) = [k \in 1..d |-> Owns(t)[k]]
      /\ Envs(u) = [k \in 1..(d + 1) |-> Envs(u)[k]] /\ Owns(u) = [k \in 1..(d + 1) |-> Owns(u)[k]]
  BY <1>8, <1>1, EnvsFacts DEF Envs, Owns, d
<1>10. d \in 1..d /\ \A k \in 1..(d + 1) : k \notin 1..d => k = d + 1 BY <1>1
<1> DEFINE e == Envs(t)[d]
<1>11. Envs(u) = [k \in 1..(d + 1) |-> IF k \in 1..d THEN Envs(t)[k] ELSE e]
  <2>1. \A k \in 1..(d + 1) : Envs(u)[k] = IF k \in 1..d THEN Envs(t)[k] ELSE e
    BY <1>6, <1>7, <1>10
  <2> QED BY <1>9, <2>1
<1>12. Owns(u) = [k \in 1..(d + 1) |-> IF k \in 1..d THEN Owns(t)[k] ELSE {}]
  <2>1. \A k \in 1..(d + 1) : Owns(u)[k] = IF k \in 1..d THEN Owns(t)[k] ELSE {}
    BY <1>6, <1>7, <1>10
  <2> QED BY <1>9, <2>1
<1>13. Append(Envs(t), e) = [k \in 1..(d + 1) |-> IF k \in 1..d THEN Envs(t)[k] ELSE e]
  BY <1>1, <1>9, SequenceOf
<1>14. Append(Owns(t), {}) = [k \in 1..(d + 1) |-> IF k \in 1..d THEN Owns(t)[k] ELSE {}]
  BY <1>1, <1>9, SequenceOf
<1>15. Envs(u) = Append(Envs(t), e) BY <1>11, <1>13
<1>16. Owns(u) = Append(Owns(t), {}) BY <1>12, <1>14
<1> QED BY <1>8, <1>15, <1>16 DEF u

LEMMA ExitMaps ==
  ASSUME NEW t, Coherent(t), Depth(t) > 1
  PROVE  /\ Envs(ExitScope(t)) = SubSeq(Envs(t), 1, Len(Envs(t)) - 1)
         /\ Owns(ExitScope(t)) = SubSeq(Owns(t), 1, Len(Envs(t)) - 1)
<1> DEFINE u == ExitScope(t)
           d == Len(t.scopes)
<1>1. t \in Tables /\ t.scopes \in Seq(Frames) /\ d \in Nat \ {0, 1} BY DEF Coherent, Tables, Depth
<1>2. u \in Tables BY ExitCoherent DEF Coherent
<1>3. u.scopes = SubSeq(t.scopes, 1, d - 1) BY <1>1 DEF ExitScope, Depth, Tables
<1>4. d - 1 \in Nat /\ Len(u.scopes) = d - 1 /\ \A j \in 1..(d - 1) : u.scopes[j] = t.scopes[j]
  BY <1>1, <1>3
<1> HIDE DEF u, d
<1>5. \A k \in 1..(d - 1) : Envs(u)[k] = Envs(t)[k] /\ Owns(u)[k] = Owns(t)[k]
  BY <1>1, <1>2, <1>4, AgreeBelow DEF d
<1>6. /\ DOMAIN Envs(t) = 1..d /\ DOMAIN Owns(t) = 1..d /\ Len(Envs(t)) = d
      /\ DOMAIN Envs(u) = 1..(d - 1) /\ DOMAIN Owns(u) = 1..(d - 1)
  BY <1>1, <1>2, <1>4, EnvsFacts DEF d
<1>7. /\ Envs(u) = [k \in 1..(d - 1) |-> Envs(u)[k]] /\ Owns(u) = [k \in 1..(d - 1) |-> Owns(u)[k]]
  BY <1>6 DEF Envs, Owns
<1>8. \A f : SubSeq(f, 1, d - 1) = [k \in 1..(d - 1) |-> f[k]]
  <2> TAKE f
  <2>1. SubSeq(f, 1, d - 1) = [k \in 1..(1 + (d - 1) - 1) |-> f[k + 1 - 1]] BY <1>1
  <2> QED BY <2>1, <1>1
<1>9. Envs(u) = SubSeq(Envs(t), 1, d - 1) BY <1>5, <1>7, <1>8
<1>10. Owns(u) = SubSeq(Owns(t), 1, d - 1) BY <1>5, <1>7, <1>8
<1> QED BY <1>6, <1>9, <1>10 DEF u

\* An entry that is stored changes one meaning in the innermost environment.
LEMMA StoreMaps ==
  ASSUME NEW t, Coherent(t), Depth(t) \in Nat \ {0}, NEW n \in Names, NEW e, Declarable(t, e),
         n \notin DOMAIN Innermost(t).symbols
  PROVE  LET u == Store(t, n, e)
             d == Len(t.scopes)
             p == Placed(t, e)
         IN  /\ p \in Entries
             /\ Envs(u) = [Envs(t) EXCEPT ![d] = [Envs(t)[d] EXCEPT ![n] = p]]
             /\ Owns(u) = [Owns(t) EXCEPT ![d] = Owns(t)[d] \cup {n}]
<1> DEFINE u == Store(t, n, e)
           d == Len(t.scopes)
           p == Placed(t, e)
           h == FrameAfter(t, n, e)
           s == t.scopes
<1>1. t \in Tables /\ s \in Seq(Frames) /\ d \in Nat \ {0} /\ Depth(t) = d BY DEF Coherent, Tables, Depth
<1>2. u \in Tables BY StoreCoherent DEF Coherent
<1>3. p \in Entries BY <1>1, PlacedFacts DEF Assigned
<1>4. u.scopes = [s EXCEPT ![d] = h] BY <1>1, StoreForm
<1>5. h.symbols = Bind(s[d].symbols, n, p) BY <1>1 DEF FrameAfter, Innermost
<1>6. /\ DOMAIN h.symbols = DOMAIN s[d].symbols \cup {n} /\ h.symbols[n] = p
      /\ \A m \in DOMAIN s[d].symbols : m # n => h.symbols[m] = s[d].symbols[m]
  BY <1>5 DEF Bind
<1> HIDE DEF u, d, p, h, s
<1>7. DOMAIN u.scopes = 1..d /\ u.scopes[d] = h /\ \A j \in 1..(d - 1) : u.scopes[j] = s[j]
  <2>1. DOMAIN s = 1..d BY <1>1, EnvsFacts DEF d, s
  <2>2. d \in 1..d /\ \A j \in 1..(d - 1) : j \in 1..d /\ j # d BY <1>1
  <2> QED BY <1>4, <2>1, <2>2
<1>8. Len(u.scopes) = d BY <1>1, <1>2, <1>7, EnvsFacts
<1>9. d \in DOMAIN s /\ d \in DOMAIN u.scopes BY <1>1, <1>7 DEF d, s
<1>10. \A k \in 1..(d - 1) : Envs(u)[k] = Envs(t)[k] /\ Owns(u)[k] = Owns(t)[k]
  BY <1>1, <1>2, <1>7, <1>8, AgreeBelow DEF d, s
<1>11. VisibleIn(u, d, n) = p BY <1>2, <1>6, <1>7, <1>9, LookupRule
<1>12. ASSUME NEW m \in Names, m # n
       PROVE  VisibleIn(u, d, m) = VisibleIn(t, d, m)
  <2>1. CASE m \in DOMAIN s[d].symbols
    BY <2>1, <1>1, <1>2, <1>6, <1>7, <1>9, <1>12, LookupRule DEF s
  <2>2. CASE m \notin DOMAIN s[d].symbols /\ d = 1
    <3>1. VisibleIn(u, d, m) = NoMeaning BY <2>2, <1>2, <1>6, <1>7, <1>9, <1>12, LookupRule
    <3>2. VisibleIn(t, d, m) = NoMeaning BY <2>2, <1>1, <1>9, LookupRule DEF s
    <3> QED BY <3>1, <3>2
  <2>3. CASE m \notin DOMAIN s[d].symbols /\ d # 1
    <3>1. VisibleIn(u, d, m) = VisibleIn(u, d - 1, m) BY <2>3, <1>2, <1>6, <1>7, <1>9, <1>12, LookupRule
    <3>2. VisibleIn(t, d, m) = VisibleIn(t, d - 1, m) BY <2>3, <1>1, <1>9, LookupRule DEF s
    <3>3. d - 1 \in DOMAIN u.scopes /\ d - 1 \in DOMAIN t.scopes
      <4>1. DOMAIN t.scopes = 1..d BY <1>1, EnvsFacts DEF d
      <4>2. d - 1 \in 1..d BY <2>3, <1>1
      <4> QED BY <1>7, <4>1, <4>2
    <3>4. VisibleIn(t, d - 1, m) = VisibleIn(u, d - 1, m) BY <3>3, <1>1, <1>2, <1>7, SameBelow DEF s
    <3> QED BY <3>1, <3>2, <3>4
  <2> QED BY <2>1, <2>2, <2>3
<1>13. Envs(u)[d] = [Envs(t)[d] EXCEPT ![n] = p]
  <2>1. Envs(u)[d] = [m \in Names |-> VisibleIn(u, d, m)] BY <1>9 DEF Envs
  <2>2. Envs(t)[d] = [m \in Names |-> VisibleIn(t, d, m)] BY <1>9 DEF Envs, s
  <2> QED BY <2>1, <2>2, <1>11, <1>12
<1>14. Owns(u)[d] = Owns(t)[d] \cup {n} BY <1>6, <1>7, <1>9 DEF Owns, s
<1>15. /\ DOMAIN Envs(u) = 1..d /\ DOMAIN Envs(t) = 1..d
       /\ DOMAIN Owns(u) = 1..d /\ DOMAIN Owns(t) = 1..d
  BY <1>1, <1>2, <1>8, EnvsFacts DEF d
<1>16. /\ Envs(u) = [k \in 1..d |-> Envs(u)[k]] /\ Envs(t) = [k \in 1..d |-> Envs(t)[k]]
       /\ Owns(u) = [k \in 1..d |-> Owns(u)[k]] /\ Owns(t) = [k \in 1..d |-> Owns(t)[k]]
  BY <1>15 DEF Envs, Owns
<1>17. \A k \in 1..d : k # d => k \in 1..(d - 1) BY <1>1
<1>18. Envs(u) = [Envs(t) EXCEPT ![d] = [Envs(t)[d] EXCEPT ![n] = p]]
  BY <1>10, <1>13, <1>15, <1>16, <1>17
<1>19. Owns(u) = [Owns(t) EXCEPT ![d] = Owns(t)[d] \cup {n}]
  BY <1>10, <1>14, <1>15, <1>16, <1>17
<1> QED BY <1>3, <1>18, <1>19 DEF u, d, p

-----------------------------------------------------------------------------
(***************************************************************************)
(* The refinement.                                                         *)
(***************************************************************************)
LEMMA Mapping == Environments = Envs(table) /\ Own = Owns(table)
BY DEF Environments, Own, Envs, Owns, Visible, VisibleIn, Upto

LEMMA MappingNext == Environments' = Envs(table') /\ Own' = Owns(table')
BY DEF Environments, Own, Envs, Owns, Visible, VisibleIn, Upto

LEMMA SingleChanged == \A v, w : [<<v>> EXCEPT ![1] = w] = <<w>>
OBVIOUS

LEMMA PairOf == \A v : Append(<<v>>, v) = [k \in 1..2 |-> v] /\ Append(<<v>>, v) = <<v, v>>
<1> TAKE v
<1>1. <<v>> = [k \in 1..1 |-> <<v>>[k]] /\ 1 \in Nat OBVIOUS
<1>2. Append(<<v>>, v) = [k \in 1..(1 + 1) |-> IF k \in 1..1 THEN <<v>>[k] ELSE v]
  BY <1>1, SequenceOf
<1>3. Append(<<v>>, v) = [k \in 1..2 |-> v] BY <1>2
<1>4. <<v, v>> = [k \in 1..2 |-> v] OBVIOUS
<1> QED BY <1>3, <1>4

LEMMA InitRefines == Init => Lexical!Init
<1> SUFFICES ASSUME Init PROVE Lexical!Init OBVIOUS
<1>1. table \in Tables /\ table.scopes = << >>
  BY EmptyCoherent DEF Init, Coherent, NoScopes
<1>2. Envs(table) = << >> BY <1>1, EnvsFacts
<1>3. Owns(table) = << >> BY <1>1 DEF Owns
<1> QED BY <1>2, <1>3, Mapping DEF Lexical!Init

\* A declaration that is accepted is one of the abstract table, and one that
\* is rejected only opens the table.
LEMMA DeclareRefines ==
  ASSUME Coherent(table), NEW n \in Names, NEW e, Declarable(Opened(table), e),
         table' = Declare(table, n, e)
  PROVE  [Lexical!Next]_(Lexical!scoping)
<1> DEFINE o == Opened(table)
           p == Placed(o, e)
           d == Len(o.scopes)
<1>1. Coherent(o) /\ o \in Tables /\ Depth(o) \in Nat \ {0} /\ d = Depth(o)
  BY OpenedCoherent DEF Coherent
<1>2. table \in Tables BY DEF Coherent
<1>3. CASE ~Accepts(table, n)
  <2>1. table' = o BY <1>3 DEF Declare
  <2>2. table.scopes # << >>
    <3> SUFFICES ASSUME table.scopes = << >> PROVE FALSE OBVIOUS
    <3>1. o = ResetTable BY DEF Opened
    <3>2. Innermost(o) = EmptyFrame BY <3>1 DEF Innermost, Depth, ResetTable
    <3>3. DOMAIN EmptyFrame.symbols = {} BY DEF EmptyFrame
    <3> QED BY <1>3, <3>2, <3>3 DEF Accepts
  <2>3. table' = table BY <2>1, <2>2 DEF Opened
  <2> QED BY <2>3, Mapping, MappingNext DEF Lexical!scoping
<1>4. CASE Accepts(table, n)
  <2>1. table' = Store(o, n, e) /\ n \notin DOMAIN Innermost(o).symbols
    BY <1>4 DEF Declare, Accepts
  <2>2. /\ p \in Entries
        /\ Environments' = [Envs(o) EXCEPT ![d] = [Envs(o)[d] EXCEPT ![n] = p]]
        /\ Own' = [Owns(o) EXCEPT ![d] = Owns(o)[d] \cup {n}]
    <3> DEFINE u == Store(o, n, e)
    <3>1. /\ p \in Entries
          /\ Envs(u) = [Envs(o) EXCEPT ![d] = [Envs(o)[d] EXCEPT ![n] = p]]
          /\ Owns(u) = [Owns(o) EXCEPT ![d] = Owns(o)[d] \cup {n}]
      BY <1>1, <2>1, StoreMaps
    <3>2. Environments' = Envs(u) /\ Own' = Owns(u) BY <2>1, MappingNext
    <3> QED BY <3>1, <3>2
  <2>3. Owns(o)[d] = DOMAIN Innermost(o).symbols /\ d \in DOMAIN o.scopes
    BY <1>1, EnvsFacts DEF Owns, Innermost
  <2>4. Envs(o)[d] = [m \in Names |-> VisibleIn(o, d, m)] BY <2>3 DEF Envs
  <2>5. DOMAIN Envs(o) = 1..d /\ Len(Envs(o)) = d /\ d \in 1..d BY <1>1, EnvsFacts
  <2> HIDE DEF p, d
  <2>6. /\ Environments'[d] = [Envs(o)[d] EXCEPT ![n] = p] /\ Environments'[d][n] = p
        /\ DOMAIN Environments' = 1..d
    BY <2>2, <2>4, <2>5
  <2>7. Len(Environments') = d BY <1>1, <2>6
  <2>8. CASE table.scopes # << >>
    <3>1. o = table BY <2>8 DEF Opened
    <3>2. Environments = Envs(o) /\ Own = Owns(o) /\ Len(Environments) = d /\ Environments # << >>
      BY <3>1, <2>5, <2>8, <1>2, Mapping, EnvsFacts
    <3>3. Lexical!Declare(n)
      BY <2>1, <2>2, <2>3, <2>6, <2>7, <3>2 DEF Lexical!Declare, Lexical!Depth
    <3> QED BY <3>3 DEF Lexical!Next
  <2>9. CASE table.scopes = << >>
    <3>1. o = ResetTable BY <2>9 DEF Opened
    <3>2. d = 1 BY <3>1 DEF d, ResetTable
    <3>3. Envs(o) = <<Blank>> /\ Owns(o) = <<{}>> BY <3>1, ResetMaps
    <3>4. Environments = << >> BY <2>9, <1>2, Mapping, EnvsFacts
    <3>5. Environments' = <<[Blank EXCEPT ![n] = p]>> /\ Own' = <<{n}>>
      <4>1. Envs(o)[d] = Blank /\ Owns(o)[d] = {} BY <3>2, <3>3
      <4>2. Environments' = [<<Blank>> EXCEPT ![1] = [Blank EXCEPT ![n] = p]]
        BY <2>2, <3>2, <3>3, <4>1
      <4>3. Own' = [<<{}>> EXCEPT ![1] = {n}] BY <2>2, <3>2, <3>3, <4>1
      <4> QED BY <4>2, <4>3, SingleChanged
    <3>6. [Blank EXCEPT ![n] = p] = [m \in Names |-> IF m = n THEN p ELSE NoMeaning] BY DEF Blank
    <3>7. Len(Environments') = 1 /\ Environments'[1][n] = p BY <2>6, <2>7, <3>2
    <3>8. Lexical!OpenAndDeclare(n)
      BY <2>2, <3>4, <3>5, <3>6, <3>7 DEF Lexical!OpenAndDeclare
    <3> QED BY <3>8 DEF Lexical!Next
  <2> QED BY <2>8, <2>9
<1> QED BY <1>3, <1>4

LEMMA EnterRefines ==
  ASSUME Coherent(table), Enter
  PROVE  [Lexical!Next]_(Lexical!scoping)
<1>1. table' = EnterScope(table) /\ table \in Tables BY DEF Enter, Coherent
<1>2. CASE table.scopes # << >>
  <2>1. /\ Environments' = Append(Environments, Environments[Len(Environments)])
        /\ Own' = Append(Own, {}) /\ Environments # << >>
    BY <1>1, <1>2, EnterMaps, EnvsFacts, Mapping, MappingNext
  <2>2. Lexical!Enter BY <2>1 DEF Lexical!Enter, Lexical!Depth
  <2> QED BY <2>2 DEF Lexical!Next
<1>3. CASE table.scopes = << >>
  <2>1. table' = EnterScope(ResetTable) BY <1>1, <1>3 DEF EnterScope, Opened, ResetTable
  <2>2. ResetTable.scopes # << >> BY ResetCoherent
  <2>3. /\ Environments' = Append(<<Blank>>, Blank) /\ Own' = Append(<<{}>>, {})
    <3>1. Envs(EnterScope(ResetTable)) = Append(<<Blank>>, <<Blank>>[Len(<<Blank>>)])
      BY <2>2, ResetCoherent, ResetMaps, EnterMaps
    <3>2. Owns(EnterScope(ResetTable)) = Append(<<{}>>, {})
      BY <2>2, ResetCoherent, ResetMaps, EnterMaps
    <3>3. <<Blank>>[Len(<<Blank>>)] = Blank OBVIOUS
    <3> QED BY <2>1, <3>1, <3>2, <3>3, MappingNext
  <2>4. Environments = << >> BY <1>1, <1>3, Mapping, EnvsFacts
  <2>5. Environments' = [k \in 1..2 |-> Blank] /\ Own' = <<{}, {}>> BY <2>3, PairOf
  <2>6. Lexical!OpenAndEnter BY <2>4, <2>5 DEF Lexical!OpenAndEnter, Blank
  <2> QED BY <2>6 DEF Lexical!Next
<1> QED BY <1>2, <1>3

LEMMA ExitRefines ==
  ASSUME Coherent(table), Exit
  PROVE  [Lexical!Next]_(Lexical!scoping)
<1>1. table' = ExitScope(table) /\ table \in Tables /\ Depth(table) \in Nat /\ Len(Envs(table)) = Depth(table)
  BY EnvsFacts DEF Exit, Coherent, Depth
<1>2. CASE Depth(table) > 1
  <2>1. /\ Environments' = SubSeq(Environments, 1, Len(Environments) - 1)
        /\ Own' = SubSeq(Own, 1, Len(Environments) - 1) /\ Len(Environments) > 1
    BY <1>1, <1>2, ExitMaps, Mapping, MappingNext
  <2>2. Lexical!Leave BY <2>1 DEF Lexical!Leave, Lexical!Depth
  <2> QED BY <2>2 DEF Lexical!Next
<1>3. CASE ~(Depth(table) > 1)
  <2>1. table' = table BY <1>1, <1>3 DEF ExitScope
  <2> QED BY <2>1, Mapping, MappingNext DEF Lexical!scoping
<1> QED BY <1>2, <1>3

LEMMA StepRefines ==
  ASSUME Coherent(table), [Next]_table
  PROVE  [Lexical!Next]_(Lexical!scoping)
<1>1. CASE Reset
  <2>1. Environments' = <<Blank>> /\ Own' = <<{}>> BY <1>1, ResetMaps, MappingNext DEF Reset
  <2> QED BY <2>1 DEF Lexical!Next, Lexical!Clear, Blank
<1>2. CASE Enter BY <1>2, EnterRefines
<1>3. CASE Exit BY <1>3, ExitRefines
<1>4. ASSUME NEW n \in Names, NEW type \in Types, AddVariable(n, type)
      PROVE  [Lexical!Next]_(Lexical!scoping)
  BY <1>4, DeclareRefines, Declarables DEF AddVariable, DeclareVariable
<1>5. ASSUME NEW n \in Names, NEW type \in Types, AddParameter(n, type)
      PROVE  [Lexical!Next]_(Lexical!scoping)
  BY <1>5, DeclareRefines, Declarables DEF AddParameter, DeclareParameter
<1>6. ASSUME NEW n \in Names, NEW type \in Types, AddFunction(n, type)
      PROVE  [Lexical!Next]_(Lexical!scoping)
  <2>1. table' = DeclareFunction(table, n, type) BY <1>6 DEF AddFunction
  <2>2. CASE Depth(Opened(table)) > 1
    <3>1. table.scopes # << >>
      <4>1. Depth(ResetTable) = 1 BY DEF ResetTable, Depth
      <4> QED BY <2>2, <4>1 DEF Opened
    <3>2. table' = table BY <2>1, <2>2, <3>1 DEF DeclareFunction, Opened
    <3> QED BY <3>2, Mapping, MappingNext DEF Lexical!scoping
  <2>3. CASE ~(Depth(Opened(table)) > 1)
    <3>1. Depth(Opened(table)) = 1 BY <2>3, OpenedCoherent
    <3>2. Declarable(Opened(table), Function(type)) BY <3>1, Declarables
    <3>3. table' = Declare(table, n, Function(type)) BY <2>1, <2>3 DEF DeclareFunction
    <3> QED BY <3>2, <3>3, DeclareRefines
  <2> QED BY <2>2, <2>3
<1>7. CASE UNCHANGED table
  <2>1. table' = table BY <1>7
  <2> QED BY <2>1, Mapping, MappingNext DEF Lexical!scoping
<1> QED BY <1>1, <1>2, <1>3, <1>4, <1>5, <1>6, <1>7 DEF Next

\* The stack of frames with its lookup from the inside out implements a stack
\* of complete environments: leaving a scope brings back exactly the meanings
\* there were, and a rejected declaration changes none (symbol_table.cpp).
THEOREM Refinement == Spec => ImplementsScoping
<1>1. IInv => Coherent(table) BY Unfold
<1>2. Coherent(table) /\ [Next]_table => [Lexical!Next]_(Lexical!scoping) BY StepRefines
<1> QED BY <1>1, <1>2, InitRefines, TableInvariant, PTL DEF Spec, ImplementsScoping, Lexical!Spec
=============================================================================
