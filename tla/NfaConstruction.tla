--------------------------- MODULE NfaConstruction ---------------------------
(***************************************************************************)
(* From regular expressions to one nondeterministic automaton:             *)
(* NFABuilder::toPostfix, buildNFA and mergeNFA (nfa_constructor.cpp), for *)
(* the rules of a specification in their order, as SeuLexDriver::generate  *)
(* calls them.  A rule is [infix, action]: the tokens expandRE returns, in *)
(* which a literal stands for itself, and the text of its action.  Nodes   *)
(* are numbered by createState and live in one arena; an edge is           *)
(* <<character or "eps", node>>.                                           *)
(***************************************************************************)
EXTENDS Integers, Sequences, FiniteSets

CONSTANTS
  Specifications,   \* non-empty sequences of rules with non-empty expressions
  Unsupported       \* literals outside the range 1..127

Operators == {"|", "&", "*", "(", ")"}

VARIABLES
  rules,      \* the specification
  r,          \* the rule in work; its priority is r - 1
  pos,        \* the next token of the infix, or of the postfix expression
  operators,  \* the stack of toPostfix
  postfix,    \* its output
  fragments,  \* the stack of buildNFA
  nodes,      \* g_nodeArena: [accepted, edges] by label
  charSet,    \* char_set
  accepting,  \* nfaterstatetoaction and nfaPriorityTableInternal: label |-> [action, priority]
  nfaTable,   \* the automata of the rules: [start, accept]
  merged,     \* the start of the merged automaton, 0 before mergeNFA
  pc          \* "postfix", "build", "done" or "threw"

nfaVars == <<rules, r, pos, operators, postfix, fragments, nodes, charSet, accepting, nfaTable, merged, pc>>

Init ==
  /\ rules \in Specifications /\ r = 1 /\ pos = 1
  /\ operators = <<>> /\ postfix = <<>> /\ fragments = <<>>
  /\ nodes = <<>> /\ charSet = {} /\ accepting = <<>> /\ nfaTable = <<>> /\ merged = 0
  /\ pc = "postfix"

Peek(s)    == s[Len(s)]
Rest(s)    == SubSeq(s, 1, Len(s) - 1)
infixRead  == pos > Len(rules[r].infix)
token      == rules[r].infix[pos]
Precedence(op) == CASE op = "|" -> 1 [] op = "&" -> 2 [] OTHER -> 0

-----------------------------------------------------------------------------
(***************************************************************************)
(* toPostfix                                                               *)
(***************************************************************************)
\* The operator on the stack goes first.
Pops ==
  /\ operators # <<>> /\ Peek(operators) # "("
  /\ \/ token = ")"
     \/ token \in {"|", "&"} /\ Precedence(Peek(operators)) >= Precedence(token)

PassOn ==
  /\ pc = "postfix" /\ ~infixRead /\ token \notin {"(", ")", "|", "&"}
  /\ postfix' = Append(postfix, token) /\ pos' = pos + 1
  /\ UNCHANGED <<rules, r, operators, fragments, nodes, charSet, accepting, nfaTable, merged, pc>>

PopOperator ==
  /\ pc = "postfix" /\ ~infixRead /\ Pops
  /\ postfix' = Append(postfix, Peek(operators)) /\ operators' = Rest(operators)
  /\ UNCHANGED <<rules, r, pos, fragments, nodes, charSet, accepting, nfaTable, merged, pc>>

PushOperator ==
  /\ pc = "postfix" /\ ~infixRead /\ token \in {"(", "|", "&"} /\ ~Pops
  /\ operators' = Append(operators, token) /\ pos' = pos + 1
  /\ UNCHANGED <<rules, r, postfix, fragments, nodes, charSet, accepting, nfaTable, merged, pc>>

CloseParenthesis ==
  /\ pc = "postfix" /\ ~infixRead /\ token = ")" /\ operators # <<>> /\ ~Pops
  /\ operators' = Rest(operators) /\ pos' = pos + 1
  /\ UNCHANGED <<rules, r, postfix, fragments, nodes, charSet, accepting, nfaTable, merged, pc>>

FlushOperator ==
  /\ pc = "postfix" /\ infixRead /\ operators # <<>> /\ Peek(operators) # "("
  /\ postfix' = Append(postfix, Peek(operators)) /\ operators' = Rest(operators)
  /\ UNCHANGED <<rules, r, pos, fragments, nodes, charSet, accepting, nfaTable, merged, pc>>

StartBuild ==
  /\ pc = "postfix" /\ infixRead /\ operators = <<>>
  /\ pc' = "build" /\ pos' = 1
  /\ UNCHANGED <<rules, r, operators, postfix, fragments, nodes, charSet, accepting, nfaTable, merged>>

-----------------------------------------------------------------------------
(***************************************************************************)
(* buildNFA                                                                *)
(***************************************************************************)
postfixRead == pos > Len(postfix)
symbol      == postfix[pos]
top         == Peek(fragments)
below       == Peek(Rest(fragments))

\* createState, for a start and an accepting node.
newStart    == Len(nodes) + 1
newAccept   == Len(nodes) + 2
NewPair(startEdges) ==
  nodes \o <<[accepted |-> FALSE, edges |-> startEdges], [accepted |-> TRUE, edges |-> {}]>>

\* The accepting node n of a fragment becomes an inner one.
Joined(ns, n, targets) ==
  [ns EXCEPT ![n] = [accepted |-> FALSE, edges |-> @.edges \cup ({"eps"} \X targets)]]

\* A character, or nothing.
Atom ==
  /\ pc = "build" /\ ~postfixRead /\ symbol \notin Operators \cup Unsupported
  /\ nodes' = NewPair({<<symbol, newAccept>>})
  /\ fragments' = Append(fragments, [start |-> newStart, accept |-> newAccept])
  /\ charSet' = charSet \cup ({symbol} \ {"eps"})
  /\ pos' = pos + 1
  /\ UNCHANGED <<rules, r, operators, postfix, accepting, nfaTable, merged, pc>>

\* A literal that is no ASCII character ends the generator.
RejectLiteral ==
  /\ pc = "build" /\ ~postfixRead /\ symbol \in Unsupported
  /\ pc' = "threw"
  /\ UNCHANGED <<rules, r, pos, operators, postfix, fragments, nodes, charSet, accepting, nfaTable, merged>>

Concatenate ==
  /\ pc = "build" /\ ~postfixRead /\ symbol = "&" /\ Len(fragments) >= 2
  /\ nodes' = Joined(nodes, below.accept, {top.start})
  /\ fragments' = Append(Rest(Rest(fragments)), [start |-> below.start, accept |-> top.accept])
  /\ pos' = pos + 1
  /\ UNCHANGED <<rules, r, operators, postfix, charSet, accepting, nfaTable, merged, pc>>

Alternate ==
  /\ pc = "build" /\ ~postfixRead /\ symbol = "|" /\ Len(fragments) >= 2
  /\ nodes' = Joined(Joined(NewPair({"eps"} \X {below.start, top.start}), below.accept, {newAccept}),
                     top.accept, {newAccept})
  /\ fragments' = Append(Rest(Rest(fragments)), [start |-> newStart, accept |-> newAccept])
  /\ pos' = pos + 1
  /\ UNCHANGED <<rules, r, operators, postfix, charSet, accepting, nfaTable, merged, pc>>

Repeat ==
  /\ pc = "build" /\ ~postfixRead /\ symbol = "*" /\ fragments # <<>>
  /\ nodes' = Joined(NewPair({"eps"} \X {top.start, newAccept}), top.accept, {top.start, newAccept})
  /\ fragments' = Append(Rest(fragments), [start |-> newStart, accept |-> newAccept])
  /\ pos' = pos + 1
  /\ UNCHANGED <<rules, r, operators, postfix, charSet, accepting, nfaTable, merged, pc>>

\* The automaton of the rule is recorded with its action and priority, and the next rule begins.
Recorded ==
  /\ nfaTable' = Append(nfaTable, top)
  /\ accepting' = [n \in DOMAIN accepting \cup {top.accept} |->
                     IF n = top.accept THEN [action |-> rules[r].action, priority |-> r - 1] ELSE accepting[n]]
  /\ fragments' = <<>> /\ postfix' = <<>> /\ pos' = 1

FinishRule ==
  /\ pc = "build" /\ postfixRead /\ Len(fragments) = 1 /\ r < Len(rules)
  /\ Recorded
  /\ r' = r + 1 /\ pc' = "postfix"
  /\ UNCHANGED <<rules, operators, nodes, charSet, merged>>

\* The last rule, and mergeNFA behind it.
Merge ==
  /\ pc = "build" /\ postfixRead /\ Len(fragments) = 1 /\ r = Len(rules)
  /\ Recorded
  /\ nodes' = Append(nodes, [accepted |-> FALSE, edges |-> {<<"eps", nfaTable'[k].start>> : k \in 1..r}])
  /\ merged' = Len(nodes')
  /\ pc' = "done"
  /\ UNCHANGED <<rules, r, operators, charSet>>

Next ==
  \/ PassOn \/ PopOperator \/ PushOperator \/ CloseParenthesis \/ FlushOperator \/ StartBuild
  \/ Atom \/ RejectLiteral \/ Concatenate \/ Alternate \/ Repeat \/ FinishRule \/ Merge

=============================================================================
