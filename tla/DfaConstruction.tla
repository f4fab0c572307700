--------------------------- MODULE DfaConstruction ---------------------------
(***************************************************************************)
(* DFABuilder::subsetConstruct (dfa_builder.cpp) and the minimizer behind  *)
(* it, DFAMinimizer::minimizeDFA (dfa_minimizer.cpp), with the global      *)
(* tables of actions they leave behind.  The automaton to begin with is    *)
(* [start, edges, accepting]: edges leads from a node to a set of          *)
(* <<character or "eps", node>>, accepting from an accepting node to       *)
(* [action, priority].  States and blocks are numbered from 1 here, from 0 *)
(* in the code.  LexGenerator hands the automaton over, with Submit, and   *)
(* calls Clear between two of them.                                        *)
(***************************************************************************)
EXTENDS Integers, Sequences, FiniteSets

CONSTANTS
  Alphabet,   \* the characters, in their order
  Names       \* the texts of the actions, in alphabetical order

NoAction == "none"

ASSUME AlphabetAssumption == Alphabet \in Seq({Alphabet[k] : k \in DOMAIN Alphabet})
ASSUME NamesAssumption ==
  /\ Names \in Seq({Names[k] : k \in DOMAIN Names})
  /\ \A k \in DOMAIN Names : Names[k] # NoAction /\ \A m \in DOMAIN Names : Names[m] = Names[k] => m = k
VARIABLES
  nfa,              \* the automaton in work
  stateSets,        \* the sets of nodes found, by state
  transitions,      \* by state: character |-> state
  acceptActions,    \* by state, NoAction when it does not accept
  work,             \* the queue of states
  at,               \* the next character of the state in front of the queue
  terTable,         \* TerStateActionTable: state |-> action
  mindfareturn,     \* the same of the minimal automaton
  partitions,       \* sequence of blocks, each a sequence of states
  refined,          \* the blocks of the pass under way
  group,            \* the block it looks at
  changed,
  minimal,          \* the automaton in the end: [start, next, accepting]
  dpc               \* "idle", "start", "subset", "refine", "done"

dfaVars == <<nfa, stateSets, transitions, acceptActions, work, at, terTable, mindfareturn,
             partitions, refined, group, changed, minimal, dpc>>

NoAutomaton == [start |-> 0, next |-> <<>>, accepting |-> <<>>]

NoNfa       == [start |-> 1, edges |-> <<{}>>, accepting |-> <<>>]

DfaInit ==
  /\ nfa = NoNfa
  /\ stateSets = <<>> /\ transitions = <<>> /\ acceptActions = <<>> /\ work = <<>> /\ at = 1
  /\ terTable = <<>> /\ mindfareturn = <<>>
  /\ partitions = <<>> /\ refined = <<>> /\ group = 1 /\ changed = FALSE
  /\ minimal = NoAutomaton /\ dpc = "idle"

\* An automaton comes in; the tables are as the process left them.
Submit(a) ==
  /\ dpc = "idle"
  /\ nfa' = a /\ dpc' = "start"
  /\ UNCHANGED <<stateSets, transitions, acceptActions, work, at, terTable, mindfareturn,
                 partitions, refined, group, changed, minimal>>

\* What a list has of the set S, in its order.
Those(list, S) ==
  LET upTo[k \in 0..Len(list)] ==
        IF k = 0 THEN <<>> ELSE IF list[k] \in S THEN Append(upTo[k - 1], list[k]) ELSE upTo[k - 1]
  IN  upTo[Len(list)]

\* The characters of the edges, in their order.
chars == Those(Alphabet, {e[1] : e \in UNION {nfa.edges[n] : n \in DOMAIN nfa.edges}})
Ends(S, c) == {e[2] : e \in {e \in UNION {nfa.edges[n] : n \in S} : e[1] = c}}

-----------------------------------------------------------------------------
(***************************************************************************)
(* subsetConstruct                                                         *)
(***************************************************************************)
\* The nodes reached by empty moves.
Eclosure(S) ==
  LET after[n \in 0..Cardinality(DOMAIN nfa.edges)] ==
        IF n = 0 THEN S ELSE UNION {T \cup Ends(T, "eps") : T \in {after[n - 1]}}
  IN  after[Cardinality(DOMAIN nfa.edges)]

\* Mutant: the last rule wins.
MutPickAction(S) ==
  LET ends == S \cap DOMAIN nfa.accepting
  IN  IF ends = {} THEN NoAction
      ELSE nfa.accepting[CHOOSE n \in ends :
             \A m \in ends : nfa.accepting[n].priority >= nfa.accepting[m].priority].action

\* pickActionFromSet: the rule that comes first.
PickAction(S) ==
  LET ends == S \cap DOMAIN nfa.accepting
  IN  IF ends = {} THEN NoAction
      ELSE nfa.accepting[CHOOSE n \in ends :
             \A m \in ends : nfa.accepting[n].priority <= nfa.accepting[m].priority].action

Start ==
  /\ dpc = "start"
  /\ stateSets' = <<Eclosure({nfa.start})>>
  /\ transitions' = <<<<>>>>
  /\ acceptActions' = <<PickAction(Eclosure({nfa.start}))>>
  /\ work' = <<1>> /\ at' = 1 /\ dpc' = "subset"
  /\ UNCHANGED <<nfa, terTable, mindfareturn, partitions, refined, group, changed, minimal>>

With(f, c, t) == [x \in DOMAIN f \cup {c} |-> IF x = c THEN t ELSE f[x]]

\* No node of the state has an edge with the character.
NoMove ==
  /\ dpc = "subset" /\ work # <<>> /\ at <= Len(chars)
  /\ Ends(stateSets[Head(work)], chars[at]) = {}
  /\ at' = at + 1
  /\ UNCHANGED <<nfa, stateSets, transitions, acceptActions, work, terTable, mindfareturn,
                 partitions, refined, group, changed, minimal, dpc>>

\* Mutant: a state is new unless it was found from the same state.
MutFoundAt(moved) == {t \in 1..Len(stateSets) : stateSets[t] = moved /\ t >= Head(work)}

FoundAt(moved) == {t \in 1..Len(stateSets) : stateSets[t] = moved}

\* The nodes behind the character are a state, a new one unless they were found before.
Move ==
  /\ dpc = "subset" /\ work # <<>> /\ at <= Len(chars)
  /\ Ends(stateSets[Head(work)], chars[at]) # {}
  /\ LET moved  == Eclosure(Ends(stateSets[Head(work)], chars[at]))
         target == IF FoundAt(moved) = {} THEN Len(stateSets) + 1 ELSE CHOOSE t \in FoundAt(moved) : TRUE
         edges  == [transitions EXCEPT ![Head(work)] = With(@, chars[at], target)]
     IN  IF FoundAt(moved) = {}
         THEN /\ stateSets' = Append(stateSets, moved)
              /\ transitions' = Append(edges, <<>>)
              /\ acceptActions' = Append(acceptActions, PickAction(moved))
              /\ work' = Append(work, target)
         ELSE /\ transitions' = edges
              /\ UNCHANGED <<stateSets, acceptActions, work>>
  /\ at' = at + 1
  /\ UNCHANGED <<nfa, terTable, mindfareturn, partitions, refined, group, changed, minimal, dpc>>

NextState ==
  /\ dpc = "subset" /\ work # <<>> /\ at > Len(chars)
  /\ work' = Tail(work) /\ at' = 1
  /\ UNCHANGED <<nfa, stateSets, transitions, acceptActions, terTable, mindfareturn,
                 partitions, refined, group, changed, minimal, dpc>>

States    == 1..Len(stateSets)
Accepting == {q \in States : acceptActions[q] # NoAction}

\* Some of the states, as the loop over all of them lists them.
Sorted(S) == Those([q \in States |-> q], S)

-----------------------------------------------------------------------------
(***************************************************************************)
(* minimizeDFA                                                             *)
(***************************************************************************)
\* The first blocks: the states that do not accept, then those of each action.
FirstBlocks ==
  LET used   == Those(Names, {acceptActions[q] : q \in Accepting})
      blocks == [k \in 1..Len(used) |-> Sorted({q \in Accepting : acceptActions[q] = used[k]})]
  IN  IF Accepting = States THEN blocks ELSE <<Sorted(States \ Accepting)>> \o blocks

\* The end of subsetConstruct writes the table of actions; minimizeDFA begins with it.
FinishSubset ==
  /\ dpc = "subset" /\ work = <<>>
  /\ terTable' = [q \in Accepting |-> acceptActions[q]]
  /\ partitions' = FirstBlocks /\ refined' = <<>> /\ group' = 1 /\ changed' = FALSE
  /\ dpc' = "refine"
  /\ UNCHANGED <<nfa, stateSets, transitions, acceptActions, work, at, mindfareturn, minimal>>

\* actionForState, which asks the minimal automaton's table first.
ActionForState(q) ==
  IF q \in DOMAIN mindfareturn THEN mindfareturn[q]
  ELSE IF q \in DOMAIN terTable THEN terTable[q] ELSE NoAction

InBlock(q)  == CHOOSE p \in 1..Len(partitions) : \E k \in 1..Len(partitions[p]) : partitions[p][k] = q
NoBlock     == 0

\* Mutant: the first character alone decides.
MutTargetOf(q) == [k \in 1..Len(chars) |->
                     IF k = 1 /\ chars[k] \in DOMAIN transitions[q] THEN InBlock(transitions[q][chars[k]]) ELSE NoBlock]

\* The blocks the characters lead to from q, as they were when the pass began.
TargetOf(q) == [k \in 1..Len(chars) |->
                  IF chars[k] \in DOMAIN transitions[q] THEN InBlock(transitions[q][chars[k]]) ELSE NoBlock]

Signature(q)    == [action |-> ActionForState(q), targets |-> TargetOf(q)]

ActionOrder(x) == Cardinality({k \in DOMAIN Names : x.action # NoAction /\ \E m \in k..Len(Names) : Names[m] = x.action})

\* The order of the signatures' texts, as long as there are no more than ten blocks.
Before(x, y) ==
  \/ ActionOrder(x) < ActionOrder(y)
  \/ /\ ActionOrder(x) = ActionOrder(y)
     /\ \E k \in DOMAIN x.targets :
          /\ x.targets[k] < y.targets[k]
          /\ \A m \in DOMAIN x.targets : m < k => x.targets[m] = y.targets[m]

\* The keys of the buckets, as a std::map lists them.
InOrder(S) ==
  LET listed[rest \in SUBSET S] ==
        IF rest = {} THEN <<>>
        ELSE LET x == CHOOSE y \in rest : \A z \in rest \ {y} : Before(y, z) IN <<x>> \o listed[rest \ {x}]
  IN  listed[S]

\* A block falls into buckets of equal signatures.
RefineGroup ==
  /\ dpc = "refine" /\ group <= Len(partitions)
  /\ LET block   == partitions[group]
         orders  == InOrder({Signature(block[k]) : k \in DOMAIN block})
         buckets == [b \in DOMAIN orders |-> Those(block, {q \in States : Signature(q) = orders[b]})]
     IN  /\ refined' = refined \o buckets
         /\ changed' = (changed \/ Len(orders) > 1)
  /\ group' = group + 1
  /\ UNCHANGED <<nfa, stateSets, transitions, acceptActions, work, at, terTable, mindfareturn,
                 partitions, minimal, dpc>>

\* Mutant: another pass whatever happened in this one.
MutEndPass ==
  /\ dpc = "refine" /\ group > Len(partitions)
  /\ partitions' = refined /\ refined' = <<>> /\ group' = 1 /\ changed' = FALSE
  /\ UNCHANGED <<nfa, stateSets, transitions, acceptActions, work, at, terTable, mindfareturn, minimal, dpc>>

\* The map of the states is built anew, and another pass begins.
EndPass ==
  /\ dpc = "refine" /\ group > Len(partitions) /\ changed
  /\ partitions' = refined /\ refined' = <<>> /\ group' = 1 /\ changed' = FALSE
  /\ UNCHANGED <<nfa, stateSets, transitions, acceptActions, work, at, terTable, mindfareturn, minimal, dpc>>

\* A quiet pass ends it.  Every block is a state, with the edges and the action of its
\* first state; the tables of actions are written again.
FinishMinimal ==
  /\ dpc = "refine" /\ group > Len(partitions) /\ ~changed
  /\ LET first(p) == partitions[p][1]
         accepts  == {p \in 1..Len(partitions) : ActionForState(first(p)) # NoAction}
         table    == [p \in accepts |-> ActionForState(first(p))]
     IN  /\ minimal' = [start |-> InBlock(1),
                        next  |-> [p \in 1..Len(partitions) |->
                                     [c \in DOMAIN transitions[first(p)] |-> InBlock(transitions[first(p)][c])]],
                        accepting |-> table]
         /\ terTable' = table /\ mindfareturn' = table
  /\ partitions' = refined
  /\ dpc' = "done"
  /\ UNCHANGED <<nfa, stateSets, transitions, acceptActions, work, at, refined, group, changed>>

\* resetGlobalTables, before the next automaton of the process.
Clear ==
  /\ dpc = "done"
  /\ terTable' = <<>> /\ mindfareturn' = <<>> /\ nfa' = NoNfa
  /\ stateSets' = <<>> /\ transitions' = <<>> /\ acceptActions' = <<>> /\ at' = 1
  /\ partitions' = <<>> /\ refined' = <<>> /\ group' = 1 /\ changed' = FALSE
  /\ minimal' = NoAutomaton /\ dpc' = "idle"
  /\ UNCHANGED <<work>>

DfaNext ==
  \/ Start \/ NoMove \/ Move \/ NextState \/ FinishSubset
  \/ RefineGroup \/ EndPass \/ FinishMinimal

-----------------------------------------------------------------------------
\* Every state stands for another set of nodes, closed under empty moves; its edges lead
\* to the states of the sets the characters lead to; only the states on the queue, which
\* holds each once and in their order, still lack edges (dfa_builder.cpp 123-160).
SubsetsFaithful ==
  /\ \A q, t \in States : stateSets[q] = stateSets[t] => q = t
  /\ \A q \in States :
       /\ stateSets[q] # {} /\ Ends(stateSets[q], "eps") \subseteq stateSets[q]
       /\ \A c \in DOMAIN transitions[q] : stateSets[transitions[q][c]] = Eclosure(Ends(stateSets[q], c))
       /\ q \notin {work[k] : k \in DOMAIN work} =>
            \A k \in DOMAIN chars : Ends(stateSets[q], chars[k]) # {} => chars[k] \in DOMAIN transitions[q]
  /\ \A k \in DOMAIN work : work[k] = Len(stateSets) - Len(work) + k

\* The pairs of states that no word tells apart: with the same action, and with edges of
\* the same characters to such pairs.  A round that takes none away is the last.
Alike(pairs) ==
  {p \in pairs : /\ DOMAIN transitions[p[1]] = DOMAIN transitions[p[2]]
                 /\ \A c \in DOMAIN transitions[p[1]] :
                      <<transitions[p[1]][c], transitions[p[2]][c]>> \in pairs}
Same ==
  LET pairs == States \X States
      left[n \in 0..Cardinality(pairs)] ==
        IF n = 0 THEN {p \in pairs : acceptActions[p[1]] = acceptActions[p[2]]}
        ELSE UNION {{p : p \in Alike(P)} : P \in {left[n - 1]}}
  IN  left[Cardinality(pairs)]

\* The passes only tell states apart that some word tells apart.  In the end they have told
\* all of those apart, and the minimal automaton is that of the blocks: what a state does,
\* its block does (dfa_minimizer.cpp 55-135).
MinimalExact ==
  /\ dpc = "refine" => \A p \in Same : InBlock(p[1]) = InBlock(p[2])
  /\ dpc = "done" =>
       /\ Same = {p \in States \X States : InBlock(p[1]) = InBlock(p[2])}
       /\ minimal.start = InBlock(1) /\ DOMAIN minimal.next = {InBlock(q) : q \in States}
       /\ \A q \in States :
            /\ minimal.next[InBlock(q)] = [c \in DOMAIN transitions[q] |-> InBlock(transitions[q][c])]
            /\ acceptActions[q] = IF InBlock(q) \in DOMAIN minimal.accepting
                                  THEN minimal.accepting[InBlock(q)] ELSE NoAction
=============================================================================
