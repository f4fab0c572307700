---------------------------- MODULE LexGenerator ----------------------------
(***************************************************************************)
(* SeuLexDriver::generate (code_generator.cpp): the automaton of a         *)
(* specification's rules is built, made deterministic and minimized.  A    *)
(* process may do so for several specifications, as runSelfTests does, and *)
(* begins each by resetting the global tables.                             *)
(***************************************************************************)
EXTENDS DfaConstruction

CONSTANTS
  Programs,      \* sequences of specifications
  Unsupported,   \* literals that buildNFA rejects
  Texts          \* the texts that scanners are tried on

\* Specifications as the reader hands them over: rules in their order, none without an expression
\* or an action.
IsSequence(s) == s \in Seq({s[k] : k \in DOMAIN s})
ASSUME RulesAssumption ==
  \A p \in Programs :
    /\ IsSequence(p) /\ p # <<>>
    /\ \A k \in DOMAIN p :
         /\ IsSequence(p[k]) /\ p[k] # <<>>
         /\ \A i \in DOMAIN p[k] :
              /\ IsSequence(p[k][i].infix) /\ p[k][i].infix # <<>>
              /\ p[k][i].action \in {Names[m] : m \in DOMAIN Names}

\* An operand stands at the beginning and behind "(", "|" and "&", and nowhere else, as
\* serializeAst writes it; the marker of an empty move, '\0', is no character.
Awaits(t) == t \in {"(", "|", "&"}
Begins(t) == t \notin {"|", "&", "*", ")"}
ASSUME ExpressionsAssumption ==
  \A p \in Programs : \A k \in DOMAIN p : \A i \in DOMAIN p[k] :
    LET infix == p[k][i].infix
    IN  /\ Begins(infix[1]) /\ ~Awaits(infix[Len(infix)])
        /\ \A m \in 1..Len(infix) - 1 : Begins(infix[m + 1]) <=> Awaits(infix[m])
ASSUME TextsAssumption ==
  /\ \A k \in DOMAIN Alphabet : Alphabet[k] # "eps"
  /\ Texts \subseteq Seq({Alphabet[k] : k \in DOMAIN Alphabet})

VARIABLES
  program, g,    \* the specifications and which of them is in work
  rules, r, pos, operators, postfix, fragments, nodes, charSet, accepting, nfaTable, merged, pc

Nfa == INSTANCE NfaConstruction WITH Specifications <- {p[1] : p \in Programs}

nfaVars == <<rules, r, pos, operators, postfix, fragments, nodes, charSet, accepting, nfaTable, merged, pc>>
vars    == <<program, g, nfaVars, dfaVars>>

Init ==
  /\ program \in Programs /\ g = 1
  /\ Nfa!Init /\ rules = program[1]
  /\ DfaInit

BuildNfa == Nfa!Next /\ UNCHANGED <<program, g, dfaVars>>

\* The merged automaton goes to the subset construction.
Handover ==
  /\ pc = "done"
  /\ Submit([start |-> merged, edges |-> [n \in DOMAIN nodes |-> nodes[n].edges], accepting |-> accepting])
  /\ UNCHANGED <<program, g, nfaVars>>

BuildDfa == DfaNext /\ UNCHANGED <<program, g, nfaVars>>

\* The next specification, behind resetGlobalTables.
Regenerate ==
  /\ dpc = "done" /\ g < Len(program)
  /\ g' = g + 1 /\ rules' = program[g + 1]
  /\ Clear
  /\ r' = 1 /\ pos' = 1 /\ operators' = <<>> /\ postfix' = <<>> /\ fragments' = <<>>
  /\ nodes' = <<>> /\ charSet' = {} /\ accepting' = <<>> /\ nfaTable' = <<>> /\ merged' = 0 /\ pc' = "postfix"
  /\ UNCHANGED program

Next     == BuildNfa \/ Handover \/ BuildDfa \/ Regenerate
Spec     == Init /\ [][Next]_vars
FairSpec == Spec /\ WF_vars(Next)   \* generate runs until it returns

-----------------------------------------------------------------------------
(***************************************************************************)
(* What an expression means in a text: the pairs of places, counted in     *)
(* characters from its beginning, between which the expression matches.    *)
(* It is read from outside in, as a relation made of the relations of its  *)
(* operands; of operators that lie side by side the last is the outermost, *)
(* and "|" goes before "&".                                                *)
(***************************************************************************)
Places(w) == 0..Len(w)
Unit(t, w) ==
  IF t = "eps" THEN {<<a, a>> : a \in Places(w)} ELSE {<<a - 1, a>> : a \in {b \in 1..Len(w) : w[b] = t}}
Chained(R, S) == {<<q[1][1], q[2][2]>> : q \in {x \in R \X S : x[1][2] = x[2][1]}}
Repeated(R, w) ==
  {p \in Places(w) \X Places(w) :
     \A T \in SUBSET Places(w) : p[1] \in T /\ (\A q \in R : q[1] \in T => q[2] \in T) => p[2] \in T}

\* How many parentheses are open behind the first k tokens.
Depth(infix, k) ==
  Cardinality({m \in 1..k : infix[m] = "("}) - Cardinality({m \in 1..k : infix[m] = ")"})
Outermost(infix, p, op) == {k \in p[1]..p[2] : infix[k] = op /\ Depth(infix, k) = Depth(infix, p[1] - 1)}
Rightmost(S) == CHOOSE k \in S : \A m \in S : m <= k

Meaning(infix, w) ==
  LET split(p, op) == Rightmost(Outermost(infix, p, op))
      of[p \in (1..Len(infix) + 1) \X (0..Len(infix))] ==
        CASE p[2] < p[1] -> {}
          [] p[1] <= p[2] /\ Outermost(infix, p, "|") # {} ->
               of[<<p[1], split(p, "|") - 1>>] \cup of[<<split(p, "|") + 1, p[2]>>]
          [] p[1] <= p[2] /\ Outermost(infix, p, "|") = {} /\ Outermost(infix, p, "&") # {} ->
               Chained(of[<<p[1], split(p, "&") - 1>>], of[<<split(p, "&") + 1, p[2]>>])
          [] OTHER ->
               CASE infix[p[2]] = "*" -> Repeated(of[<<p[1], p[2] - 1>>], w)
                 [] infix[p[2]] = ")" -> of[<<p[1] + 1, p[2] - 1>>]
                 [] OTHER -> Unit(infix[p[2]], w)
  IN  of[<<1, Len(infix)>>]
Matches(infix, w) == <<0, Len(w)>> \in Meaning(infix, w)

\* The action of the first rule that matches the text.
Verdict(w) ==
  LET matching == {k \in DOMAIN rules : Matches(rules[k].infix, w)}
  IN  IF matching = {} THEN NoAction
      ELSE rules[CHOOSE k \in matching : \A m \in matching : k <= m].action

\* The state that a deterministic automaton is in behind the text, 0 if it was left.
StateAfter(next, start, w) ==
  LET after[k \in 0..Len(w)] ==
        IF k = 0 THEN start
        ELSE IF after[k - 1] # 0 /\ w[k] \in DOMAIN next[after[k - 1]] THEN next[after[k - 1]][w[k]] ELSE 0
  IN  after[Len(w)]

\* The scanner's automaton gives every text the action of the first rule that matches it,
\* and none to any other text: before the minimizer and behind it, whatever was built in
\* the same process before (nfa_constructor.cpp, dfa_builder.cpp, dfa_minimizer.cpp).
VerdictExact ==
  dpc = "done" =>
    \A w \in Texts :
      LET q == StateAfter(transitions, 1, w)
          p == StateAfter(minimal.next, minimal.start, w)
      IN  /\ Verdict(w) = IF q = 0 THEN NoAction ELSE acceptActions[q]
          /\ Verdict(w) = IF p \in DOMAIN minimal.accepting THEN minimal.accepting[p] ELSE NoAction

-----------------------------------------------------------------------------
\* generate comes to the end of every specification, or to a literal it rejects: no
\* operator of toPostfix and buildNFA ever misses a partner or an operand, and the passes
\* of the minimizer end.
Terminates == <>(pc = "threw" \/ (dpc = "done" /\ g = Len(program)))
=============================================================================
